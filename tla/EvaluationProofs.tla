-------------------------- MODULE EvaluationProofs -------------------------
(***************************************************************************)
(* Proofs about Evaluation for any number of threads, evaluations and      *)
(* rebuilds: what GET /report hands out is a whole report whose rates do   *)
(* not contradict each other, and one that had to be read is no older than *)
(* the last one complete at the request.                                   *)
(*                                                                         *)
(* The argument: a report file that unpickles is the last completed one    *)
(* (Evaluated), an evaluation is complete before it touches the file       *)
(* (whole), and completed counters never change again.                     *)
(***************************************************************************)
EXTENDS Evaluation, TLAPS

\* Evaluation e has asked every question.
whole(e) == counts[e].asked = NQuestions

\* The builder has the stamps it still needs.
StampsLast ==
    /\ builder = "unlinked" => stamp + 2 <= MaxStamp
    /\ builder = "filling" => stamp + 1 <= MaxStamp

Counted(c) ==
    /\ c.verified <= c.executed
    /\ c.executed <= c.guard_ok
    /\ c.guard_ok <= c.asked

\* A file that unpickles is the last completed report.
Evaluated ==
    /\ evaluator # "idle" => started \in Evaluations
    /\ evaluator = "writing" => whole(started)
    /\ written <= started
    /\ written # Nothing => whole(written)
    /\ report \in Evaluations => report = written

Reading(r) ==
    /\ reader[r].since <= written
    /\ reader[r].at = "loading" => report # NoFile
    /\ reader[r].found # Nothing =>
          /\ whole(reader[r].found)
          /\ reader[r].missed => reader[r].found >= reader[r].since
    /\ reader[r].at = "storing" => reader[r].found # Nothing
    /\ reader[r].status = 200 => reader[r].found # Nothing

\* A connection that was granted is to some file.
Listing(t) ==
    schema[t].at \in {"listing", "describing"} => schema[t].con \in Stamps

\* The inductive invariant, process by process.
BuilderPart == WarehouseTypeOK /\ StampsLast

EvaluationPart ==
    /\ evaluator \in {"idle", "asking", "writing"}
    /\ started \in 0..MaxEvaluations
    /\ counts \in [Evaluations -> Counters]
    /\ report \in Evaluations \cup {Nothing, NoFile}
    /\ written \in Evaluations \cup {Nothing}
    /\ \A e \in Evaluations : Counted(counts[e])
    /\ Evaluated

ReaderPart ==
    /\ cached \in Evaluations \cup {Nothing}
    /\ cached # Nothing => whole(cached)
    /\ reader \in [Readers -> ReaderStates]
    /\ \A r \in Readers : Reading(r)

SchemaPart ==
    /\ schema \in [SchemaReaders -> SchemaStates]
    /\ \A t \in SchemaReaders : Listing(t)

EvalInv == BuilderPart /\ EvaluationPart /\ ReaderPart /\ SchemaPart

---------------------------------------------------------------------------
\* The constants are natural numbers; there is a first question.
LEMMA ConstantsOK ==
    /\ MaxStamp \in Nat
    /\ NQuestions \in Nat /\ 1 <= NQuestions
    /\ MaxEvaluations \in Nat
BY MaxStampAssumption, NQuestionsAssumption, MaxEvaluationsAssumption

\* The invariant holds at the start.
LEMMA InitHolds == Init => EvalInv
<1> SUFFICES ASSUME Init PROVE EvalInv
  OBVIOUS
<1>1. BuilderPart
  BY ConstantsOK DEF Init, WarehouseInit, BuilderPart, WarehouseTypeOK,
     StampsLast, Stamps, TableCount
<1>2. EvaluationPart
  <2>1. counts \in [Evaluations -> Counters]
    BY ConstantsOK DEF Init, Counters
  <2>2. \A e \in Evaluations : Counted(counts[e])
    BY DEF Init, Counted
  <2>3. QED
    BY <2>1, <2>2, ConstantsOK DEF Init, EvaluationPart, Evaluated, Nothing,
       NoFile, Evaluations
<1>3. ReaderPart
  BY ConstantsOK DEF Init, ReaderPart, ReaderStates, Reading, Idle, Nothing,
     NoFile
<1>4. SchemaPart
  BY ConstantsOK DEF Init, SchemaPart, SchemaStates, IdleSchema, Listing,
     Closed, TableCount
<1>5. QED
  BY <1>1, <1>2, <1>3, <1>4 DEF EvalInv

---------------------------------------------------------------------------
\* The builder touches nothing of the others.
LEMMA BuilderKeepsEvalInv ==
    ASSUME EvalInv, BuilderStep, UNCHANGED <<evaluationVars, apiVars>>
    PROVE  EvalInv'
<1>1. BuilderPart /\ EvaluationPart /\ ReaderPart /\ SchemaPart
  BY DEF EvalInv
<1>2. BuilderPart'
  <2>1. CASE Unlink
    <3>1. /\ present' = FALSE /\ builder' = "unlinked" /\ stamp' = stamp
          /\ tables' = tables /\ stamp + 2 <= MaxStamp
      BY <2>1 DEF Unlink
    <3>2. WarehouseTypeOK'
      BY <1>1, <3>1 DEF BuilderPart, WarehouseTypeOK
    <3>3. StampsLast'
      BY <3>1 DEF StampsLast
    <3>4. QED
      BY <3>1, <3>2, <3>3 DEF BuilderPart
  <2>2. CASE Create
    BY <1>1, <2>2, ConstantsOK DEF Create, BuilderPart, WarehouseTypeOK,
       StampsLast, Stamps
  <2>3. CASE CreateTable
    BY <1>1, <2>3, ConstantsOK DEF CreateTable, BuilderPart, WarehouseTypeOK,
       StampsLast, Stamps, TableCount
  <2>4. CASE CloseBuild
    BY <1>1, <2>4, ConstantsOK DEF CloseBuild, BuilderPart, WarehouseTypeOK,
       StampsLast, Stamps, TableCount
  <2>5. CASE CrashBuild
    BY <1>1, <2>5, ConstantsOK DEF CrashBuild, BuilderPart, WarehouseTypeOK,
       StampsLast, Stamps
  <2>6. QED
    BY <2>1, <2>2, <2>3, <2>4, <2>5 DEF BuilderStep
<1>3. EvaluationPart' /\ ReaderPart'
  BY <1>1 DEF EvaluationPart, ReaderPart, Evaluated, Reading, whole,
     evaluationVars, apiVars
<1>4. SchemaPart'
  <2>1. ASSUME NEW t \in SchemaReaders PROVE Listing(t)'
    BY <1>1 DEF SchemaPart, Listing, apiVars
  <2>2. QED
    BY <1>1, <2>1 DEF SchemaPart, apiVars, SchemaStates, Stamps
<1>5. QED
  BY <1>2, <1>3, <1>4 DEF EvalInv

\* An evaluation never touches counters that are complete.
LEMMA EvaluationKeepsEvalInv ==
    ASSUME EvalInv, EvaluationStep, UNCHANGED <<warehouseVars, apiVars>>
    PROVE  EvalInv'
<1> USE ConstantsOK
<1>1. BuilderPart /\ EvaluationPart /\ ReaderPart /\ SchemaPart
  BY DEF EvalInv
<1>2. /\ EvaluationPart'
      /\ \A e \in Evaluations : whole(e) => whole(e)'
      /\ written <= written'
      /\ report # NoFile => report' # NoFile
  <2>1. CASE Start
    <3>1. started' \in Evaluations /\ started <= started'
      BY <1>1, <2>1 DEF Start, EvaluationPart, Evaluations
    <3>2. QED
      BY <1>1, <2>1, <3>1 DEF Start, EvaluationPart, Evaluated, whole,
         Evaluations, Nothing, NoFile
  <2>2. CASE AskNext
    <3>1. started \in Evaluations /\ counts[started].asked < NQuestions
      BY <1>1, <2>2 DEF AskNext, EvaluationPart, Evaluated
    <3>2. PICK stage \in HaltsAt, verdict \in Verdicts :
             counts' = [counts EXCEPT ![started] = count(@, envelope(stage, verdict))]
      BY <2>2 DEF AskNext
    <3> DEFINE c == counts[started]
               env == envelope(stage, verdict)
               d == count(c, env)
    <3>3. /\ c \in Counters
          /\ Counted(c)
      BY <1>1, <3>1 DEF EvaluationPart, Counters
    \* A verdict comes with the envelopes that do not halt, and no others.
    <3> DEFINE g == AsOne(~env.halted)
               x == AsOne(~env.halted /\ env.data)
               v == AsOne(env.verdict = "verified")
    <3>4. g \in {0, 1} /\ x \in {0, 1} /\ v \in {0, 1} /\ v <= x /\ x <= g
      <4>1. CASE stage = None
        <5>1. env.halted = FALSE /\ env.data = TRUE
          BY <4>1 DEF envelope, BeforeData, None
        <5>2. QED
          BY <5>1 DEF AsOne
      <4>2. CASE stage \in BeforeData
        <5>1. /\ env.halted = TRUE /\ env.verdict = "unverified"
          BY <4>2 DEF envelope, BeforeData, None
        <5>2. QED
          BY <5>1 DEF AsOne
      <4>3. QED
        BY <4>1, <4>2 DEF HaltsAt, BeforeData
    <3>5. d = [asked |-> c.asked + 1, guard_ok |-> c.guard_ok + g,
               executed |-> c.executed + x, verified |-> c.verified + v]
      BY DEF count
    <3>6. counts' = [counts EXCEPT ![started] = d]
      BY <3>2
    <3>7. c.asked < NQuestions
      BY <3>1
    <3> HIDE DEF c, d, g, x, v, env
    <3>8. d \in Counters /\ Counted(d)
      BY <3>3, <3>4, <3>5, <3>7 DEF Counted, Counters
    <3>9. /\ counts' \in [Evaluations -> Counters]
          /\ \A e \in Evaluations : Counted(counts'[e])
      BY <1>1, <3>1, <3>6, <3>8 DEF EvaluationPart
    <3>10. \A e \in Evaluations : whole(e) => whole(e)'
      BY <1>1, <3>1, <3>6 DEF EvaluationPart, whole
    <3>11. QED
      <4>1. /\ started \in 0..MaxEvaluations /\ written \in Evaluations \cup {Nothing}
            /\ evaluator = "asking"
            /\ UNCHANGED <<evaluator, started, report, written>>
        BY <1>1, <2>2 DEF AskNext, EvaluationPart
      <4>2. Evaluated'
        BY <1>1, <3>1, <3>10, <4>1 DEF EvaluationPart, Evaluated, Nothing
      <4>3. QED
        BY <1>1, <3>9, <3>10, <4>1, <4>2 DEF EvaluationPart, Evaluations,
           Nothing
  <2>3. CASE Truncate
    BY <1>1, <2>3 DEF Truncate, EvaluationPart, Evaluated, whole, Evaluations,
       Nothing, NoFile
  <2>4. CASE Dump
    BY <1>1, <2>4 DEF Dump, EvaluationPart, Evaluated, whole, Evaluations,
       Nothing, NoFile
  <2>5. CASE CrashEvaluation
    BY <1>1, <2>5 DEF CrashEvaluation, EvaluationPart, Evaluated, whole,
       Evaluations, Nothing, NoFile
  <2>6. QED
    BY <2>1, <2>2, <2>3, <2>4, <2>5 DEF EvaluationStep
<1>3. ReaderPart'
  <2>1. ASSUME NEW r \in Readers PROVE Reading(r)'
    <3>1. Reading(r) /\ reader[r] \in ReaderStates /\ reader'[r] = reader[r]
      BY <1>1 DEF ReaderPart, apiVars
    <3>2. /\ reader[r].found # Nothing => reader[r].found \in Evaluations
          /\ reader[r].since \in Int
      BY <3>1 DEF ReaderStates, Nothing, Evaluations
    <3>3. written \in Int /\ written' \in Int
      BY <1>1, <1>2 DEF EvaluationPart, Evaluations, Nothing
    <3>4. QED
      BY <1>2, <3>1, <3>2, <3>3 DEF Reading
  <2>2. (cached # Nothing => whole(cached))'
    BY <1>1, <1>2 DEF ReaderPart, apiVars, whole
  <2>3. QED
    BY <1>1, <2>1, <2>2 DEF ReaderPart, apiVars, whole
<1>4. BuilderPart' /\ SchemaPart'
  BY <1>1 DEF BuilderPart, WarehouseTypeOK, StampsLast, SchemaPart, Listing,
     warehouseVars, apiVars
<1>5. QED
  BY <1>2, <1>3, <1>4 DEF EvalInv

---------------------------------------------------------------------------
\* A thread that moves leaves the others as they are.
LEMMA OneReaderMoves ==
    ASSUME EvalInv, NEW r \in Readers, NEW new \in ReaderStates,
           reader' = [reader EXCEPT ![r] = new], Reading(r)',
           UNCHANGED <<cached, schema>>, UNCHANGED <<warehouseVars, evaluationVars>>
    PROVE  EvalInv'
<1>1. reader' \in [Readers -> ReaderStates]
  BY DEF EvalInv, ReaderPart
<1>2. ASSUME NEW s \in Readers PROVE Reading(s)'
  <2>1. CASE s = r
    BY <2>1
  <2>2. CASE s # r
    BY <2>2 DEF EvalInv, ReaderPart, Reading, evaluationVars, whole
  <2>3. QED
    BY <2>1, <2>2
<1>3. ReaderPart'
  BY <1>1, <1>2 DEF EvalInv, ReaderPart, evaluationVars, whole
<1>4. BuilderPart' /\ EvaluationPart' /\ SchemaPart'
  BY DEF EvalInv, BuilderPart, WarehouseTypeOK, StampsLast, EvaluationPart,
     Evaluated, whole, SchemaPart, Listing, warehouseVars, evaluationVars
<1>5. QED
  BY <1>3, <1>4 DEF EvalInv

\* A thread that waits for nothing.
LEMMA IdleFields ==
    /\ Idle \in ReaderStates
    /\ Idle.at = "idle" /\ Idle.missed = FALSE /\ Idle.since = 0
    /\ Idle.found = Nothing /\ Idle.status = 0
BY ConstantsOK DEF Idle, ReaderStates, Nothing

\* A request meets the cache, or misses it, at the reports complete by now.
LEMMA GetReportKeepsEvalInv ==
    ASSUME EvalInv, NEW r \in Readers, GetReport(r),
           UNCHANGED <<warehouseVars, evaluationVars>>
    PROVE  EvalInv'
<1> USE ConstantsOK
<1> DEFINE hit == [at |-> "idle", missed |-> FALSE, since |-> written,
                   found |-> cached, status |-> 200]
           miss == [Idle EXCEPT !.at = "missed", !.missed = TRUE, !.since = written]
           new == IF cached # Nothing THEN hit ELSE miss
<1>1. /\ written \in 0..MaxEvaluations
      /\ cached \in 0..MaxEvaluations
      /\ cached # Nothing => whole(cached)
  BY DEF EvalInv, EvaluationPart, ReaderPart, Evaluations, Nothing
<1>2. /\ miss \in ReaderStates
      /\ miss.at = "missed" /\ miss.since = written /\ miss.found = Nothing
      /\ miss.status = 0
  BY <1>1, IdleFields DEF ReaderStates
<1>3. hit \in ReaderStates
  BY <1>1 DEF ReaderStates
<1>4. reader' = [reader EXCEPT ![r] = new] /\ UNCHANGED <<cached, schema>>
  BY DEF GetReport
<1>5. reader'[r] = new
  BY <1>4 DEF EvalInv, ReaderPart
<1>6. CASE cached # Nothing
  <2>1. new = hit
    BY <1>6
  <2>2. Reading(r)'
    BY <1>1, <1>5, <1>6, <2>1 DEF Reading, evaluationVars, whole
  <2>3. QED
    BY <1>3, <1>4, <2>1, <2>2, OneReaderMoves
<1>7. CASE cached = Nothing
  <2>1. new = miss
    BY <1>7
  <2> HIDE DEF miss, hit, new
  <2>2. Reading(r)'
    BY <1>1, <1>2, <1>5, <2>1 DEF Reading, evaluationVars, whole
  <2>3. QED
    BY <1>2, <1>4, <2>1, <2>2, OneReaderMoves
<1>8. QED
  BY <1>6, <1>7

\* A refused request has read nothing.
LEMMA RefusalKeepsEvalInv ==
    ASSUME EvalInv, NEW r \in Readers, NEW status \in {500, 503}, refuse(r, status),
           UNCHANGED <<cached, schema>>, UNCHANGED <<warehouseVars, evaluationVars>>
    PROVE  EvalInv'
<1> USE ConstantsOK
<1> DEFINE new == [Idle EXCEPT !.status = status]
<1>1. /\ new \in ReaderStates
      /\ new.at = "idle" /\ new.since = 0 /\ new.found = Nothing /\ new.status = status
  BY IdleFields DEF ReaderStates
<1>3. reader' = [reader EXCEPT ![r] = new]
  BY DEF refuse
<1> HIDE DEF new
<1>4. reader'[r] = new
  BY <1>3 DEF EvalInv, ReaderPart
<1>5. Reading(r)'
  <2>1. written' \in 0..MaxEvaluations
    BY DEF EvalInv, EvaluationPart, Evaluations, Nothing, evaluationVars
  <2>2. QED
    BY <1>1, <1>4, <2>1 DEF Reading
<1>6. QED
  BY <1>1, <1>3, <1>5, OneReaderMoves

\* A file that is there does not go away.
LEMMA CheckExistsKeepsEvalInv ==
    ASSUME EvalInv, NEW r \in Readers, CheckExists(r),
           UNCHANGED <<warehouseVars, evaluationVars>>
    PROVE  EvalInv'
<1>1. CASE report = NoFile
  BY <1>1, RefusalKeepsEvalInv DEF CheckExists
<1>2. CASE report # NoFile
  <2> DEFINE new == [reader[r] EXCEPT !.at = "loading"]
  <2>1. reader[r] \in ReaderStates /\ Reading(r)
    BY DEF EvalInv, ReaderPart
  <2>2. /\ new \in ReaderStates /\ new.at = "loading" /\ new.missed = reader[r].missed
        /\ new.since = reader[r].since /\ new.found = reader[r].found
        /\ new.status = reader[r].status
    BY <2>1 DEF ReaderStates
  <2>3. reader' = [reader EXCEPT ![r] = new] /\ UNCHANGED <<cached, schema>>
    BY <1>2 DEF CheckExists
  <2>4. reader'[r] = new
    BY <2>3 DEF EvalInv, ReaderPart
  <2> HIDE DEF new
  <2>5. Reading(r)'
    BY <1>2, <2>1, <2>2, <2>4 DEF Reading, evaluationVars, whole
  <2>6. QED
    BY <2>2, <2>3, <2>5, OneReaderMoves
<1>3. QED
  BY <1>1, <1>2

\* A request with what it has read.
LEMMA Loaded ==
    ASSUME NEW s \in ReaderStates, NEW f \in 0..MaxEvaluations
    PROVE  LET new == [s EXCEPT !.at = "storing", !.found = f]
           IN /\ new \in ReaderStates
              /\ new.at = "storing" /\ new.missed = s.missed /\ new.since = s.since
              /\ new.found = f /\ new.status = s.status
<1> DEFINE new == [s EXCEPT !.at = "storing", !.found = f]
<1>1. /\ new.at = "storing" /\ new.missed = s.missed /\ new.since = s.since
      /\ new.found = f /\ new.status = s.status
  BY DEF ReaderStates
<1>2. new \in ReaderStates
  <2>1. [s EXCEPT !.at = "storing"] \in ReaderStates
    BY DEF ReaderStates
  <2>2. ASSUME NEW u \in ReaderStates PROVE [u EXCEPT !.found = f] \in ReaderStates
    BY DEF ReaderStates
  <2>3. [[s EXCEPT !.at = "storing"] EXCEPT !.found = f] \in ReaderStates
    BY <2>1, <2>2
  <2>4. QED
    BY <2>3
<1>3. QED
  BY <1>1, <1>2

\* What unpickles is the last completed report, and no older than the request.
LEMMA LoadKeepsEvalInv ==
    ASSUME EvalInv, NEW r \in Readers, Load(r),
           UNCHANGED <<warehouseVars, evaluationVars>>
    PROVE  EvalInv'
<1> USE ConstantsOK
<1>1. CASE report = Nothing
  BY <1>1, RefusalKeepsEvalInv DEF Load
<1>2. CASE report # Nothing
  <2> DEFINE new == [reader[r] EXCEPT !.at = "storing", !.found = report]
  <2>1. reader[r] \in ReaderStates /\ Reading(r) /\ reader[r].at = "loading"
    BY DEF EvalInv, ReaderPart, Load
  <2>2. report \in Evaluations /\ report = written /\ whole(report)
    BY <1>2, <2>1 DEF EvalInv, EvaluationPart, Evaluated, Reading, Evaluations,
       Nothing
  <2>3. /\ new \in ReaderStates /\ new.at = "storing" /\ new.missed = reader[r].missed
        /\ new.since = reader[r].since /\ new.found = report
        /\ new.status = reader[r].status
    <3>1. report \in 0..MaxEvaluations
      BY <2>2 DEF Evaluations
    <3>2. QED
      BY <2>1, <3>1, Loaded
  <2>4. reader' = [reader EXCEPT ![r] = new] /\ UNCHANGED <<cached, schema>>
    BY <1>2 DEF Load
  <2>5. reader'[r] = new
    BY <2>4 DEF EvalInv, ReaderPart
  <2>6. reader[r].since \in Int /\ written \in Int
    BY <2>1, <2>2 DEF ReaderStates, Evaluations
  <2> HIDE DEF new
  <2>7. Reading(r)'
    BY <1>2, <2>1, <2>2, <2>3, <2>5, <2>6 DEF Reading, evaluationVars, whole
  <2>8. QED
    BY <2>3, <2>4, <2>7, OneReaderMoves
<1>3. QED
  BY <1>1, <1>2

\* The caller gets what it read, whatever the cache keeps.
LEMMA StoreKeepsEvalInv ==
    ASSUME EvalInv, NEW r \in Readers, Store(r),
           UNCHANGED <<warehouseVars, evaluationVars>>
    PROVE  EvalInv'
<1> USE ConstantsOK
<1> DEFINE new == [reader[r] EXCEPT !.at = "idle", !.status = 200,
                                    !.found = reader[r].found]
<1>1. /\ reader[r] \in ReaderStates /\ Reading(r) /\ reader[r].at = "storing"
      /\ reader[r].found \in Evaluations /\ whole(reader[r].found)
  BY DEF EvalInv, ReaderPart, Store, Reading, ReaderStates, Evaluations,
     Nothing
<1>2. /\ new \in ReaderStates /\ new.at = "idle" /\ new.missed = reader[r].missed
      /\ new.since = reader[r].since /\ new.found = reader[r].found
      /\ new.status = 200
  <2>1. /\ new.at = "idle" /\ new.missed = reader[r].missed
        /\ new.since = reader[r].since /\ new.found = reader[r].found
        /\ new.status = 200
    BY <1>1 DEF ReaderStates
  <2>2. ASSUME NEW s \in ReaderStates PROVE [s EXCEPT !.at = "idle"] \in ReaderStates
    BY DEF ReaderStates
  <2>3. ASSUME NEW s \in ReaderStates PROVE [s EXCEPT !.status = 200] \in ReaderStates
    BY DEF ReaderStates
  <2>4. ASSUME NEW s \in ReaderStates, NEW f \in 0..MaxEvaluations
        PROVE  [s EXCEPT !.found = f] \in ReaderStates
    BY DEF ReaderStates
  <2>5. reader[r].found \in 0..MaxEvaluations
    BY <1>1 DEF Evaluations
  <2>6. [[[reader[r] EXCEPT !.at = "idle"] EXCEPT !.status = 200]
           EXCEPT !.found = reader[r].found] \in ReaderStates
    BY <1>1, <2>2, <2>3, <2>4, <2>5
  <2>7. QED
    BY <2>1, <2>6
<1>3. reader' = [reader EXCEPT ![r] = new]
  BY <1>1 DEF Store, answer, EvalInv, ReaderPart
<1>4. reader' \in [Readers -> ReaderStates] /\ reader'[r] = new
  BY <1>2, <1>3 DEF EvalInv, ReaderPart
<1> HIDE DEF new
<1>5. ASSUME NEW s \in Readers PROVE Reading(s)'
  <2>1. CASE s = r
    BY <1>1, <1>2, <1>4, <2>1 DEF Reading, evaluationVars, whole
  <2>2. CASE s # r
    BY <1>3, <2>2 DEF EvalInv, ReaderPart, Reading, evaluationVars, whole
  <2>3. QED
    BY <2>1, <2>2
<1>6. cached' \in Evaluations \cup {Nothing} /\ (cached # Nothing => whole(cached))'
  BY <1>1 DEF Store, EvalInv, ReaderPart, whole, evaluationVars
<1>7. ReaderPart'
  BY <1>4, <1>5, <1>6 DEF ReaderPart
<1>8. BuilderPart' /\ EvaluationPart' /\ SchemaPart'
  BY DEF Store, EvalInv, BuilderPart, WarehouseTypeOK, StampsLast,
     EvaluationPart, Evaluated, whole, SchemaPart, Listing, warehouseVars,
     evaluationVars
<1>9. QED
  BY <1>7, <1>8 DEF EvalInv

---------------------------------------------------------------------------
\* A thread that moves leaves the others as they are.
LEMMA OneSchemaMoves ==
    ASSUME EvalInv, NEW t \in SchemaReaders, NEW new \in SchemaStates,
           schema' = [schema EXCEPT ![t] = new],
           new.at \in {"listing", "describing"} => new.con \in Stamps,
           UNCHANGED <<cached, reader>>, UNCHANGED <<warehouseVars, evaluationVars>>
    PROVE  EvalInv'
<1>1. schema' \in [SchemaReaders -> SchemaStates]
  BY DEF EvalInv, SchemaPart, SchemaStates, Stamps
<1>2. ASSUME NEW s \in SchemaReaders PROVE Listing(s)'
  <2>1. CASE s = t
    BY <2>1 DEF EvalInv, SchemaPart, Listing, warehouseVars
  <2>2. CASE s # t
    BY <2>2 DEF EvalInv, SchemaPart, Listing, warehouseVars
  <2>3. QED
    BY <2>1, <2>2
<1>3. SchemaPart'
  BY <1>1, <1>2 DEF SchemaPart, SchemaStates, Stamps
<1>4. BuilderPart' /\ EvaluationPart' /\ ReaderPart'
  BY DEF EvalInv, BuilderPart, WarehouseTypeOK, StampsLast, EvaluationPart,
     Evaluated, whole, ReaderPart, Reading, warehouseVars, evaluationVars
<1>5. QED
  BY <1>3, <1>4 DEF EvalInv

\* A request that ends holds no connection.
LEMMA EndKeepsEvalInv ==
    ASSUME EvalInv, NEW t \in SchemaReaders, NEW status \in {200, 500, 503},
           end(t, status),
           UNCHANGED <<cached, reader>>, UNCHANGED <<warehouseVars, evaluationVars>>
    PROVE  EvalInv'
<1> DEFINE new == [IdleSchema EXCEPT !.status = status]
<1>1. new = [at |-> "idle", con |-> Closed, listed |-> 0, status |-> status]
  BY DEF IdleSchema
<1>2. new \in SchemaStates
  BY <1>1 DEF SchemaStates, TableCount
<1>3. schema' = [schema EXCEPT ![t] = new]
  BY DEF end
<1>4. new.at = "idle"
  BY <1>1
<1> HIDE DEF new
<1>5. QED
  BY <1>2, <1>3, <1>4, OneSchemaMoves

\* A request with a connection.
LEMMA Connected ==
    ASSUME NEW s \in SchemaStates, NEW con \in Stamps
    PROVE  /\ [s EXCEPT !.at = "listing", !.con = con] \in SchemaStates
           /\ [s EXCEPT !.at = "listing", !.con = con].con = con
<1>1. [s EXCEPT !.at = "listing", !.con = con] \in SchemaStates
  <2>1. [s EXCEPT !.at = "listing"] \in SchemaStates
    BY DEF SchemaStates
  <2>2. ASSUME NEW u \in SchemaStates PROVE [u EXCEPT !.con = con] \in SchemaStates
    BY DEF SchemaStates
  <2>3. [[s EXCEPT !.at = "listing"] EXCEPT !.con = con] \in SchemaStates
    BY <2>1, <2>2
  <2>4. QED
    BY <2>3
<1>2. [s EXCEPT !.at = "listing", !.con = con].con = con
  BY DEF SchemaStates
<1>3. QED
  BY <1>1, <1>2

\* A request with its list of tables.
LEMMA Listed ==
    ASSUME NEW s \in SchemaStates, NEW n \in 0..TableCount
    PROVE  /\ [s EXCEPT !.at = "describing", !.listed = n] \in SchemaStates
           /\ [s EXCEPT !.at = "describing", !.listed = n].con = s.con
<1>1. [s EXCEPT !.at = "describing", !.listed = n] \in SchemaStates
  <2>1. [s EXCEPT !.at = "describing"] \in SchemaStates
    BY DEF SchemaStates
  <2>2. ASSUME NEW u \in SchemaStates PROVE [u EXCEPT !.listed = n] \in SchemaStates
    BY DEF SchemaStates
  <2>3. [[s EXCEPT !.at = "describing"] EXCEPT !.listed = n] \in SchemaStates
    BY <2>1, <2>2
  <2>4. QED
    BY <2>3
<1>2. [s EXCEPT !.at = "describing", !.listed = n].con = s.con
  BY DEF SchemaStates
<1>3. QED
  BY <1>1, <1>2

\* A catalogue is read from one file.
LEMMA SchemaKeepsEvalInv ==
    ASSUME EvalInv, NEW t \in SchemaReaders, GetSchema(t) \/ ReadSchema(t),
           UNCHANGED <<warehouseVars, evaluationVars>>
    PROVE  EvalInv'
<1> USE ConstantsOK
<1>1. /\ schema[t] \in SchemaStates /\ Listing(t)
      /\ stamp \in Stamps /\ tables \in [Stamps -> 0..TableCount]
  BY DEF EvalInv, SchemaPart, BuilderPart, WarehouseTypeOK
<1>2. CASE GetSchema(t)
  <2>1. CASE present
    <3> DEFINE new == [IdleSchema EXCEPT !.at = "found"]
    <3>1. new = [at |-> "found", con |-> Closed, listed |-> 0, status |-> 0]
      BY DEF IdleSchema
    <3>2. new \in SchemaStates
      BY <3>1 DEF SchemaStates, TableCount
    <3>3. schema' = [schema EXCEPT ![t] = new] /\ UNCHANGED <<cached, reader>>
      BY <1>2, <2>1 DEF GetSchema
    <3>4. QED
      BY <3>1, <3>2, <3>3, OneSchemaMoves
  <2>2. CASE ~present
    BY <1>2, <2>2, EndKeepsEvalInv DEF GetSchema
  <2>3. QED
    BY <2>1, <2>2
<1>3. CASE ConnectSchema(t)
  <2>1. CASE Readable
    <3> DEFINE new == [schema[t] EXCEPT !.at = "listing", !.con = stamp]
    <3>1. new \in SchemaStates /\ new.con = stamp
      BY <1>1, Connected
    <3>2. schema' = [schema EXCEPT ![t] = new] /\ UNCHANGED <<cached, reader>>
      BY <1>3, <2>1 DEF ConnectSchema
    <3> HIDE DEF new
    <3>3. QED
      BY <1>1, <3>1, <3>2, OneSchemaMoves
  <2>2. CASE ~Readable
    BY <1>3, <2>2, EndKeepsEvalInv DEF ConnectSchema
  <2>3. QED
    BY <2>1, <2>2
<1>4. CASE ListTables(t)
  <2> DEFINE new == [schema[t] EXCEPT !.at = "describing",
                                      !.listed = tables[schema[t].con]]
  <2>2. schema[t].con \in Stamps
    BY <1>1, <1>4 DEF ListTables, Listing
  <2>3. tables[schema[t].con] \in 0..TableCount
    BY <1>1, <2>2
  <2>4. new \in SchemaStates /\ new.con = schema[t].con
    BY <1>1, <2>3, Listed
  <2>5. schema' = [schema EXCEPT ![t] = new] /\ UNCHANGED <<cached, reader>>
    BY <1>4 DEF ListTables
  <2> HIDE DEF new
  <2>6. QED
    BY <2>2, <2>4, <2>5, OneSchemaMoves
<1>5. CASE CloseSchema(t)
  BY <1>5, EndKeepsEvalInv DEF CloseSchema
<1>6. QED
  BY <1>2, <1>3, <1>4, <1>5 DEF ReadSchema

\* A new API process has read nothing and connected to nothing.
LEMMA RestartKeepsEvalInv ==
    ASSUME EvalInv, Restart, UNCHANGED <<warehouseVars, evaluationVars>>
    PROVE  EvalInv'
<1> USE ConstantsOK
<1>1. written' \in 0..MaxEvaluations
  BY DEF EvalInv, EvaluationPart, Evaluations, Nothing, evaluationVars
<1>2. ReaderPart'
  <2>1. Idle \in ReaderStates
    BY DEF Idle, ReaderStates, Nothing
  <2>2. ASSUME NEW r \in Readers PROVE Reading(r)'
    BY <1>1 DEF Restart, Reading, Idle, Nothing
  <2>3. QED
    BY <2>1, <2>2 DEF Restart, ReaderPart
<1>3. SchemaPart'
  <2>1. IdleSchema \in SchemaStates
    BY DEF IdleSchema, SchemaStates, TableCount
  <2>2. ASSUME NEW t \in SchemaReaders PROVE Listing(t)'
    BY DEF Restart, Listing, IdleSchema
  <2>3. QED
    BY <2>1, <2>2 DEF Restart, SchemaPart, SchemaStates, Stamps
<1>4. BuilderPart' /\ EvaluationPart'
  BY DEF EvalInv, BuilderPart, WarehouseTypeOK, StampsLast, EvaluationPart,
     Evaluated, whole, warehouseVars, evaluationVars
<1>5. QED
  BY <1>2, <1>3, <1>4 DEF EvalInv

---------------------------------------------------------------------------
\* Every step of every process keeps the invariant.
LEMMA StepKeepsEvalInv == EvalInv /\ [Next]_vars => EvalInv'
<1> SUFFICES ASSUME EvalInv, [Next]_vars PROVE EvalInv'
  OBVIOUS
<1>1. CASE BuilderStep /\ UNCHANGED <<evaluationVars, apiVars>>
  BY <1>1, BuilderKeepsEvalInv
<1>2. CASE EvaluationStep /\ UNCHANGED <<warehouseVars, apiVars>>
  BY <1>2, EvaluationKeepsEvalInv
<1>3. ASSUME UNCHANGED <<warehouseVars, evaluationVars>>, NEW r \in Readers,
             GetReport(r) \/ ReadReport(r)
      PROVE  EvalInv'
  BY <1>3, GetReportKeepsEvalInv, CheckExistsKeepsEvalInv, LoadKeepsEvalInv,
     StoreKeepsEvalInv DEF ReadReport
<1>4. ASSUME UNCHANGED <<warehouseVars, evaluationVars>>, NEW t \in SchemaReaders,
             GetSchema(t) \/ ReadSchema(t)
      PROVE  EvalInv'
  BY <1>4, SchemaKeepsEvalInv
<1>5. CASE Restart /\ UNCHANGED <<warehouseVars, evaluationVars>>
  BY <1>5, RestartKeepsEvalInv
<1>6. CASE UNCHANGED vars
  BY <1>6 DEF vars, warehouseVars, evaluationVars, apiVars, EvalInv,
     BuilderPart, WarehouseTypeOK, StampsLast, EvaluationPart, Evaluated,
     whole, ReaderPart, Reading, SchemaPart, Listing
<1>7. QED
  BY <1>1, <1>2, <1>3, <1>4, <1>5, <1>6 DEF Next

\* The inductive invariant, for any number of threads, evaluations, questions
\* and rebuilds.
LEMMA EvalInvHolds == Spec => []EvalInv
BY InitHolds, StepKeepsEvalInv, PTL DEF Spec

\* Every variable of the report endpoint, the schema endpoint and the
\* evaluation keeps to its type.
THEOREM EvaluationTypeCorrect == Spec => []TypeOK
<1>1. EvalInv => TypeOK
  BY DEF EvalInv, BuilderPart, EvaluationPart, ReaderPart, SchemaPart, TypeOK
<1>2. QED
  BY <1>1, EvalInvHolds, PTL

\* GET /report never serves or remembers a report of an evaluation that died or
\* is still asking, and no report verifies more answers than it executed.
THEOREM ServedReportsAddUp == Spec => []ReportsAddUp
<1>1. EvalInv => ReportsAddUp
  <2> SUFFICES ASSUME EvalInv, NEW e \in (served \cup {cached}) \ {Nothing}
               PROVE  /\ counts[e].asked = NQuestions
                      /\ counts[e].verified <= counts[e].executed
    BY DEF ReportsAddUp
  <2>1. e \in Evaluations /\ whole(e)
    <3>1. CASE e = cached
      BY <3>1 DEF EvalInv, ReaderPart
    <3>2. ASSUME NEW r \in Readers, e = reader[r].found
          PROVE  e \in Evaluations /\ whole(e)
      BY <3>2 DEF EvalInv, ReaderPart, ReaderStates, Reading, Evaluations,
         Nothing
    <3>3. QED
      BY <3>1, <3>2 DEF served
  <2>2. QED
    BY <2>1 DEF whole, Counted, EvalInv, EvaluationPart
<1>2. QED
  BY <1>1, EvalInvHolds, PTL

\* A request that missed the cache gets a report at least as new as the last
\* one complete when it came, whatever other threads put into the cache.
THEOREM MissesAreFresh == Spec => []MissIsFresh
<1>1. EvalInv => MissIsFresh
  BY DEF EvalInv, ReaderPart, Reading, MissIsFresh
<1>2. QED
  BY <1>1, EvalInvHolds, PTL
=============================================================================
