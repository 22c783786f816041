----------------------------- MODULE AuditTrail ----------------------------
(***************************************************************************)
(* What envelope.py promises of a trace: it "can only grow, one entry per  *)
(* filter, in execution order", and once a stage has halted the run it is  *)
(* handed on untouched.                                                    *)
(***************************************************************************)
EXTENDS Naturals, Sequences

CONSTANT Topologies

VARIABLES
    stages,   \* the composed stages, fixed for the run
    trail,    \* the names recorded so far
    closed    \* has a stage halted the run?

trailVars == <<stages, trail, closed>>

Init ==
    /\ stages \in Topologies
    /\ trail = <<>>
    /\ closed = FALSE

Record ==
    /\ ~closed
    /\ Len(trail) < Len(stages)
    /\ trail' = Append(trail, stages[Len(trail) + 1])
    /\ closed' \in BOOLEAN
    /\ UNCHANGED stages

Spec == Init /\ [][Record]_trailVars
=============================================================================
