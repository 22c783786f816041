---------------------------- MODULE FreshFigures ---------------------------
(***************************************************************************)
(* What memory.py promises, without saying how: "rebuilding the warehouse  *)
(* retires every figure derived from the old one instead of serving a      *)
(* stale total".  An audit looks at the warehouse once, when it begins;    *)
(* every population figure it is handed afterwards was read from the file  *)
(* it saw or from a later one.  An audit that saw no file is promised      *)
(* nothing.                                                                *)
(*                                                                         *)
(* The promise ends where DuckDB does not open the file at the path: an    *)
(* instance that some connection of the process still holds open is joined *)
(* instead, whatever became of its file.  Once an audit that saw a version *)
(* has joined an older one, audits that saw the same version may be handed *)
(* figures of that older one, and of no other.                             *)
(***************************************************************************)
EXTENDS Integers

CONSTANTS Audits, MaxStamp

VARIABLES
    now,     \* the newest file version
    since,   \* the version an audit saw when it began
    got,     \* the versions its figures were read from
    joined   \* the version an audit saw, with an older one that it joined

freshVars == <<now, since, got, joined>>

NotBegun == -2
SawNoFile == -1

Init ==
    /\ now = 0
    /\ since = [a \in Audits |-> NotBegun]
    /\ got = [a \in Audits |-> {}]
    /\ joined = {}

NewVersion ==
    /\ now' \in (now + 1)..MaxStamp
    /\ UNCHANGED <<since, got, joined>>

Begin(a) ==
    /\ since[a] = NotBegun
    /\ \E seen \in {now, SawNoFile} : since' = [since EXCEPT ![a] = seen]
    /\ UNCHANGED <<now, got, joined>>

Join(a) ==
    /\ since[a] # NotBegun
    /\ \E v \in 0..(now - 1) : joined' = joined \cup {<<since[a], v>>}
    /\ UNCHANGED <<now, since, got>>

GetFigure(a) ==
    /\ since[a] # NotBegun
    /\ \E v \in 0..now :
         /\ v >= since[a] \/ <<since[a], v>> \in joined
         /\ got' = [got EXCEPT ![a] = @ \cup {v}]
    /\ UNCHANGED <<now, since, joined>>

Next == NewVersion \/ \E a \in Audits : Begin(a) \/ Join(a) \/ GetFigure(a)

Spec == Init /\ [][Next]_freshVars
=============================================================================
