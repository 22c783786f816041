--------------------------- MODULE PipelineProofs --------------------------
(***************************************************************************)
(* Proofs about Pipeline for every set of topologies: pipes of any length, *)
(* with any stage missing, repeated or out of place.                       *)
(***************************************************************************)
EXTENDS Pipeline, Integers, TLAPS

names == [i \in DOMAIN trace |-> trace[i].name]

\* The trace is the run so far: entry i was left by filter i.
TraceFollowsPipe ==
    /\ Len(trace) <= next - 1
    /\ ~halted => Len(trace) = next - 1
    /\ \A i \in 1..Len(trace) : trace[i].name = filters[i]
    /\ ~halted => \A i \in 1..Len(trace) : trace[i].outcome = "output"

\* A payload key was set by a stage that provides it and that delivered.
KeysWereProvided ==
    \A k \in PayloadKeys : payload[k] # 0 =>
        /\ payload[k] \in 1..Len(trace)
        /\ trace[payload[k]].outcome = "output"
        /\ k \in provides[filters[payload[k]]]

\* A stage that delivered had been fed: whatever it requires, a stage before
\* it provided.
StagesWereFed ==
    \A i \in 1..Len(trace) : trace[i].outcome = "output" =>
        \A k \in requires[filters[i]] :
            \E g \in 1..(i - 1) :
                trace[g].outcome = "output" /\ k \in provides[filters[g]]

PipeInv ==
    /\ TypeOK
    /\ TraceFollowsPipe
    /\ HaltIsTheLastWord
    /\ KeysWereProvided
    /\ StagesWereFed

---------------------------------------------------------------------------
\* An element of a sequence has the type of the sequence.
LEMMA ElementType ==
    ASSUME NEW S, NEW s \in Seq(S), NEW i \in 1..Len(s)
    PROVE  s[i] \in S
OBVIOUS

\* The domain of a sequence.
LEMMA SequenceDomain ==
    ASSUME NEW S, NEW s \in Seq(S)
    PROVE  DOMAIN s = 1..Len(s)
OBVIOUS

\* A sequence is the function of its elements.
LEMMA SequenceIsFunction ==
    ASSUME NEW S, NEW s \in Seq(S)
    PROVE  s = [i \in 1..Len(s) |-> s[i]]
OBVIOUS

\* Append as a function.
LEMMA AppendDef ==
    ASSUME NEW S, NEW s \in Seq(S), NEW e \in S
    PROVE  Append(s, e) =
             [i \in 1..(Len(s) + 1) |-> IF i = Len(s) + 1 THEN e ELSE s[i]]
<1>1. /\ Append(s, e) \in Seq(S) /\ Len(Append(s, e)) = Len(s) + 1
      /\ Append(s, e)[Len(s) + 1] = e
      /\ \A i \in 1..Len(s) : Append(s, e)[i] = s[i]
  OBVIOUS
<1>2. Append(s, e) = [i \in 1..(Len(s) + 1) |-> Append(s, e)[i]]
  <2> DEFINE t == Append(s, e)
  <2>1. t \in Seq(S) /\ Len(t) = Len(s) + 1
    BY <1>1
  <2> HIDE DEF t
  <2>2. t = [i \in 1..Len(t) |-> t[i]]
    BY <2>1, SequenceIsFunction
  <2>3. t = [i \in 1..(Len(s) + 1) |-> t[i]]
    BY <2>1, <2>2
  <2>4. QED
    BY <2>3 DEF t
<1>3. \A i \in 1..(Len(s) + 1) : i # Len(s) + 1 => i \in 1..Len(s)
  OBVIOUS
<1>4. QED
  BY <1>1, <1>2, <1>3

\* What a stage is called, and what it may ask for.
LEMMA StageFacts ==
    ASSUME PipeInv, Applying
    PROVE  /\ filters \in Seq(StageNames)
           /\ next \in 1..Len(filters)
           /\ stage \in StageNames
           /\ stage # None
           /\ trace \in Seq([name : StageNames, outcome : Outcomes])
<1>1. filters \in Seq(StageNames) /\ next \in 1..Len(filters)
  BY TopologiesAssumption DEF PipeInv, TypeOK, Applying
<1>2. stage \in StageNames
  BY <1>1 DEF stage
<1>3. QED
  BY <1>1, <1>2 DEF PipeInv, TypeOK, StageNames, None

\* Stages provide and require payload keys only.
LEMMA StageKeys ==
    ASSUME NEW s \in StageNames
    PROVE  provides[s] \subseteq PayloadKeys /\ requires[s] \subseteq PayloadKeys
BY DEF StageNames, provides, requires, PayloadKeys

\* A pipe starts with an empty envelope.
LEMMA PipeInit == Init => PipeInv
BY TopologiesAssumption DEF Init, PipeInv, TypeOK, TraceFollowsPipe,
   HaltIsTheLastWord, KeysWereProvided, StagesWereFed, halted, None

\* Recording an outcome appends one entry and keeps the others.
LEMMA RecordAppends ==
    ASSUME PipeInv, Applying, NEW outcome \in Outcomes, record(outcome)
    PROVE  /\ trace' \in Seq([name : StageNames, outcome : Outcomes])
           /\ Len(trace') = Len(trace) + 1
           /\ trace'[Len(trace) + 1] = [name |-> stage, outcome |-> outcome]
           /\ \A i \in 1..Len(trace) : trace'[i] = trace[i]
<1> DEFINE e == [name |-> stage, outcome |-> outcome]
           S == [name : StageNames, outcome : Outcomes]
<1>1. trace \in Seq(S) /\ e \in S
  BY StageFacts
<1>2. trace' = Append(trace, e)
  BY DEF record
<1> HIDE DEF e, S
<1>3. /\ Append(trace, e) \in Seq(S)
      /\ Len(Append(trace, e)) = Len(trace) + 1
      /\ Append(trace, e)[Len(trace) + 1] = e
      /\ \A i \in 1..Len(trace) : Append(trace, e)[i] = trace[i]
  BY <1>1
<1>4. QED
  BY <1>2, <1>3 DEF e, S

\* Every step keeps the invariant: a stage that delivers, one that halts the
\* run (rejecting or raising), a halted envelope passed on, the response.
LEMMA PipeStep == PipeInv /\ [Next]_vars => PipeInv'
<1> SUFFICES ASSUME PipeInv, [Next]_vars
             PROVE  PipeInv'
  OBVIOUS
<1>1. CASE Emit
  <2> DEFINE n == Len(trace)
  <2>1. Applying /\ ~halted /\ requires[stage] \subseteq keys /\ record("output")
    BY <1>1 DEF Emit
  <2>2. /\ trace' \in Seq([name : StageNames, outcome : Outcomes])
        /\ Len(trace') = n + 1
        /\ trace'[n + 1] = [name |-> stage, outcome |-> "output"]
        /\ \A i \in 1..n : trace'[i] = trace[i]
    BY <2>1, RecordAppends DEF Outcomes
  <2>3. /\ filters \in Seq(StageNames) /\ next \in 1..Len(filters)
        /\ stage \in StageNames /\ n \in Nat /\ n = next - 1
    BY <2>1, StageFacts DEF PipeInv, TraceFollowsPipe
  <2>4. /\ next' = next + 1 /\ UNCHANGED <<filters, error, response>>
        /\ payload' = merged
    BY <1>1 DEF Emit
  <2>5. payload' \in [PayloadKeys -> 0..Len(filters)]
    BY <2>3, <2>4 DEF merged, PipeInv, TypeOK
  <2>6. TypeOK'
    BY <2>2, <2>3, <2>4, <2>5 DEF PipeInv, TypeOK
  <2>7. TraceFollowsPipe'
    BY <2>1, <2>2, <2>3, <2>4 DEF PipeInv, TraceFollowsPipe, halted, stage
  <2>8. HaltIsTheLastWord'
    BY <2>1, <2>4 DEF HaltIsTheLastWord, halted
  <2>9. \A k \in PayloadKeys :
           \/ payload'[k] = payload[k]
           \/ payload'[k] = n + 1 /\ k \in provides[filters[n + 1]]
    BY <2>3, <2>4 DEF merged, stage
  <2>10. KeysWereProvided'
    BY <2>2, <2>3, <2>4, <2>9 DEF PipeInv, KeysWereProvided
  <2>11. \A k \in requires[filters[n + 1]] :
            \E g \in 1..n : trace[g].outcome = "output" /\ k \in provides[filters[g]]
    BY <2>1, <2>3, StageKeys DEF PipeInv, KeysWereProvided, keys, stage
  <2>12. StagesWereFed'
    <3> SUFFICES ASSUME NEW i \in 1..(n + 1), trace'[i].outcome = "output",
                        NEW k \in requires[filters[i]]
                 PROVE  \E g \in 1..(i - 1) :
                           trace'[g].outcome = "output" /\ k \in provides[filters[g]]
      BY <2>2, <2>4 DEF StagesWereFed
    <3>1. \E g \in 1..(i - 1) :
             trace[g].outcome = "output" /\ k \in provides[filters[g]]
      <4>1. CASE i = n + 1
        BY <2>3, <2>11, <4>1
      <4>2. CASE i \in 1..n
        BY <2>2, <4>2 DEF PipeInv, StagesWereFed
      <4>3. QED
        BY <2>3, <4>1, <4>2
    <3>2. \A g \in 1..(i - 1) : g \in 1..n
      BY <2>3
    <3>3. QED
      BY <2>2, <3>1, <3>2
  <2>13. QED
    BY <2>6, <2>7, <2>8, <2>10, <2>12 DEF PipeInv
<1>2. ASSUME NEW outcome \in {"rejected", "raised"}, Applying, ~halted,
             record(outcome), error' = stage, next' = next + 1,
             UNCHANGED <<filters, payload, response>>
      PROVE  PipeInv'
  <2> DEFINE n == Len(trace)
  <2>1. /\ trace' \in Seq([name : StageNames, outcome : Outcomes])
        /\ Len(trace') = n + 1
        /\ trace'[n + 1] = [name |-> stage, outcome |-> outcome]
        /\ \A i \in 1..n : trace'[i] = trace[i]
    BY <1>2, RecordAppends DEF Outcomes
  <2>2. /\ filters \in Seq(StageNames) /\ next \in 1..Len(filters)
        /\ stage \in StageNames /\ stage # None /\ n \in Nat /\ n = next - 1
    BY <1>2, StageFacts DEF PipeInv, TraceFollowsPipe
  <2>3. TypeOK'
    BY <1>2, <2>1, <2>2 DEF PipeInv, TypeOK
  <2>4. TraceFollowsPipe'
    BY <1>2, <2>1, <2>2 DEF PipeInv, TraceFollowsPipe, halted, stage
  <2>5. \A k \in PayloadKeys : payload[k] < n + 1
    BY <2>2 DEF PipeInv, TypeOK, KeysWereProvided
  <2>6. HaltIsTheLastWord'
    <3>1. trace' # <<>> /\ Len(trace') - 1 = n
      BY <2>1, <2>2
    <3>2. \A i \in 1..n : trace'[i].outcome = "output"
      BY <1>2, <2>1 DEF PipeInv, TraceFollowsPipe
    <3>3. QED
      BY <1>2, <2>1, <2>5, <3>1, <3>2 DEF HaltIsTheLastWord
  <2>7. KeysWereProvided'
    BY <1>2, <2>1, <2>2 DEF PipeInv, TypeOK, KeysWereProvided
  <2>8. StagesWereFed'
    <3> SUFFICES ASSUME NEW i \in 1..(n + 1), trace'[i].outcome = "output",
                        NEW k \in requires[filters[i]]
                 PROVE  \E g \in 1..(i - 1) :
                           trace'[g].outcome = "output" /\ k \in provides[filters[g]]
      BY <1>2, <2>1 DEF StagesWereFed
    <3>1. i \in 1..n
      BY <2>1, <2>2
    <3>2. \A g \in 1..(i - 1) : g \in 1..n
      BY <2>2
    <3>3. QED
      BY <2>1, <3>1, <3>2 DEF PipeInv, StagesWereFed
  <2>9. QED
    BY <2>3, <2>4, <2>6, <2>7, <2>8 DEF PipeInv
<1>3. CASE PassThrough
  <2>1. /\ halted /\ next <= Len(filters) /\ next' = next + 1
        /\ UNCHANGED <<filters, payload, trace, error, response>>
    BY <1>3 DEF PassThrough, Applying
  <2>2. next' \in 1..(Len(filters) + 1) /\ next \in Nat /\ Len(trace) \in Nat
    BY <2>1, TopologiesAssumption DEF PipeInv, TypeOK
  <2>3. TypeOK' /\ TraceFollowsPipe'
    BY <2>1, <2>2 DEF PipeInv, TypeOK, TraceFollowsPipe, halted
  <2>4. HaltIsTheLastWord' /\ KeysWereProvided' /\ StagesWereFed'
    BY <2>1 DEF PipeInv, HaltIsTheLastWord, KeysWereProvided, StagesWereFed,
       halted
  <2>5. QED
    BY <2>3, <2>4 DEF PipeInv
<1>4. CASE Respond
  BY <1>4 DEF Respond, respond, PipeInv, TypeOK, TraceFollowsPipe,
     HaltIsTheLastWord, KeysWereProvided, StagesWereFed, halted
<1>5. CASE UNCHANGED vars
  BY <1>5 DEF vars, PipeInv, TypeOK, TraceFollowsPipe, HaltIsTheLastWord,
     KeysWereProvided, StagesWereFed, halted
<1>6. QED
  BY <1>1, <1>2, <1>3, <1>4, <1>5 DEF Next, Reject, Raise

\* The run, whatever the topology, keeps PipeInv.
THEOREM PipeHolds == Spec => []PipeInv
BY PipeInit, PipeStep, PTL DEF Spec

\* Every variable of the pipe keeps to its type.
THEOREM PipeTypeCorrect == Spec => []TypeOK
<1>1. PipeInv => TypeOK
  BY DEF PipeInv
<1>2. QED
  BY <1>1, PipeHolds, PTL

\* envelope.py: a halted run names its culprit in the last trace entry, and
\* no stage behind it did anything, for every composition.
THEOREM HaltExplained == Spec => []HaltIsTheLastWord
<1>1. PipeInv => HaltIsTheLastWord
  BY DEF PipeInv
<1>2. QED
  BY <1>1, PipeHolds, PTL

\* filters.py: no composition of the stages gets rows without the guardrail
\* having let a query pass before.
THEOREM NoUngovernedRows == Spec => []RowsAreGoverned
<1>1. PipeInv => RowsAreGoverned
  <2> SUFFICES ASSUME PipeInv, payload["frame"] # 0
               PROVE  \E g \in 1..(payload["frame"] - 1) :
                         /\ filters[g] = "guardrail"
                         /\ trace[g] = [name |-> "guardrail", outcome |-> "output"]
    BY DEF RowsAreGoverned
  <2> DEFINE p == payload["frame"]
  <2>1. /\ p \in 1..Len(trace) /\ trace[p].outcome = "output"
        /\ "frame" \in provides[filters[p]]
    BY DEF PipeInv, KeysWereProvided, PayloadKeys
  <2>2. /\ filters \in Seq(StageNames) /\ Len(trace) \in Nat
        /\ trace \in Seq([name : StageNames, outcome : Outcomes])
        /\ Len(trace) <= Len(filters)
    BY TopologiesAssumption DEF PipeInv, TypeOK, TraceFollowsPipe
  <2>3. \A i \in 1..Len(trace) : filters[i] \in StageNames
    BY <2>2
  <2>4. filters[p] = "executor"
    BY <2>1, <2>3 DEF provides, StageNames
  <2>5. "sql" \in requires[filters[p]]
    BY <2>4 DEF requires
  <2>6. PICK g \in 1..(p - 1) :
            trace[g].outcome = "output" /\ "sql" \in provides[filters[g]]
    BY <2>1, <2>5 DEF PipeInv, StagesWereFed
  <2>7. g \in 1..Len(trace)
    BY <2>1, <2>2
  <2>8. filters[g] = "guardrail"
    BY <2>3, <2>6, <2>7 DEF provides, StageNames
  <2>9. trace[g] = [name |-> "guardrail", outcome |-> "output"]
    <3>1. trace[g] \in [name : StageNames, outcome : Outcomes]
      BY <2>2, <2>7, ElementType
    <3>2. trace[g].name = "guardrail"
      BY <2>7, <2>8 DEF PipeInv, TraceFollowsPipe
    <3>3. QED
      BY <2>6, <3>1, <3>2
  <2>10. QED
    BY <2>8, <2>9
<1>2. QED
  BY <1>1, PipeHolds, PTL
---------------------------------------------------------------------------
(* The run implements AuditTrail.                                          *)

\* Recording appends the stage's name to the names.
LEMMA NamesAppend ==
    ASSUME PipeInv, Applying, NEW outcome \in Outcomes, record(outcome)
    PROVE  names' = Append(names, stage)
<1>1. /\ trace \in Seq([name : StageNames, outcome : Outcomes])
      /\ Len(trace) \in Nat /\ DOMAIN trace = 1..Len(trace)
  BY StageFacts
<1>2. /\ DOMAIN trace' = 1..(Len(trace) + 1)
      /\ trace'[Len(trace) + 1].name = stage
      /\ \A i \in 1..Len(trace) : trace'[i] = trace[i]
  <2>1. /\ trace' \in Seq([name : StageNames, outcome : Outcomes])
        /\ Len(trace') = Len(trace) + 1
        /\ trace'[Len(trace) + 1] = [name |-> stage, outcome |-> outcome]
        /\ \A i \in 1..Len(trace) : trace'[i] = trace[i]
    BY RecordAppends
  <2>2. DOMAIN trace' = 1..Len(trace')
    BY <2>1, SequenceDomain
  <2>3. QED
    BY <2>1, <2>2
<1>3. names \in Seq(StageNames) /\ Len(names) = Len(trace)
  <2>1. \A i \in 1..Len(trace) : trace[i] \in [name : StageNames, outcome : Outcomes]
    BY <1>1, ElementType
  <2>2. \A i \in 1..Len(trace) : trace[i].name \in StageNames
    BY <2>1
  <2>3. names = [i \in 1..Len(trace) |-> trace[i].name]
    BY <1>1 DEF names
  <2>4. QED
    BY <1>1, <2>2, <2>3
<1>4. Append(names, stage) =
         [i \in 1..(Len(trace) + 1) |-> IF i = Len(trace) + 1 THEN stage ELSE names[i]]
  BY <1>3, StageFacts, AppendDef
<1>5. \A i \in 1..(Len(trace) + 1) :
         trace'[i].name = IF i = Len(trace) + 1 THEN stage ELSE names[i]
  BY <1>1, <1>2 DEF names
<1>6. names' = [i \in 1..(Len(trace) + 1) |-> trace'[i].name]
  BY <1>2 DEF names
<1>7. QED
  BY <1>4, <1>5, <1>6

\* An empty envelope has an empty trail.
LEMMA TrailInit == Init => Trail!Init
BY DEF Init, Trail!Init, halted

\* A stage that is applied records its name; everything else is a stutter.
LEMMA TrailStep == PipeInv /\ [Next]_vars => [Trail!Record]_(Trail!trailVars)
<1> SUFFICES ASSUME PipeInv, [Next]_vars
             PROVE  [Trail!Record]_(Trail!trailVars)
  OBVIOUS
<1>1. ASSUME NEW outcome \in Outcomes, Applying, ~halted, record(outcome),
             UNCHANGED filters
      PROVE  Trail!Record
  <2>1. names' = Append(names, stage)
    BY <1>1, NamesAppend
  <2>2. Len(names) = next - 1 /\ next \in 1..Len(filters)
    <3>1. Len(trace) = next - 1 /\ next \in 1..Len(filters) /\ Len(trace) \in Nat
      BY <1>1, StageFacts DEF PipeInv, TraceFollowsPipe
    <3>2. DOMAIN trace = 1..Len(trace)
      BY <1>1, StageFacts
    <3>3. QED
      BY <3>1, <3>2 DEF names
  <2>3. Len(names) < Len(filters) /\ stage = filters[Len(names) + 1]
    BY <2>2, StageFacts, <1>1 DEF stage
  <2>4. halted' \in BOOLEAN
    BY DEF halted
  <2>5. QED
    BY <1>1, <2>1, <2>3, <2>4 DEF Trail!Record, names
<1>2. CASE Emit
  BY <1>1, <1>2 DEF Emit, Outcomes
<1>3. CASE Reject
  BY <1>1, <1>3 DEF Reject, Outcomes
<1>4. CASE Raise
  BY <1>1, <1>4 DEF Raise, Outcomes
<1>5. CASE PassThrough \/ Respond \/ UNCHANGED vars
  <2>1. UNCHANGED <<filters, trace, error>>
    BY <1>5 DEF PassThrough, Respond, vars
  <2>2. QED
    BY <2>1 DEF Trail!trailVars, halted
<1>6. QED
  BY <1>2, <1>3, <1>4, <1>5 DEF Next

\* envelope.py: the trace "can only grow, one entry per filter, in execution
\* order", for every composition of the stages.
THEOREM RunImplementsAuditTrail == Spec => TraceIsAnAuditTrail
<1>1. PipeInv /\ [Next]_vars => [Trail!Record]_(Trail!trailVars)
  BY TrailStep
<1>2. QED
  BY <1>1, TrailInit, PipeHolds, PTL DEF Spec, TraceIsAnAuditTrail, Trail!Spec
---------------------------------------------------------------------------
(* What the response is made of.                                           *)

\* A stage that delivered left its keys, a later one may have set them anew.
KeysAreSet ==
    \A i \in 1..Len(trace) : trace[i].outcome = "output" =>
        \A k \in provides[filters[i]] : payload[k] >= i

\* The response is about the end of the run, which nothing can change.
RespondedAtTheEnd ==
    response # None => next > Len(filters) /\ response = respond

ResponseInv == KeysAreSet /\ RespondedAtTheEnd

\* There is no response at first.
LEMMA ResponseInit == Init => ResponseInv
BY DEF Init, ResponseInv, KeysAreSet, RespondedAtTheEnd

\* Every step keeps the response to what the pipe has come to.
LEMMA ResponseStep == PipeInv /\ ResponseInv /\ [Next]_vars => ResponseInv'
<1> SUFFICES ASSUME PipeInv, ResponseInv, [Next]_vars
             PROVE  ResponseInv'
  OBVIOUS
<1> DEFINE n == Len(trace)
<1>1. CASE Emit
  <2>1. /\ Applying /\ ~halted /\ record("output") /\ payload' = merged
        /\ UNCHANGED <<filters, response>>
    BY <1>1 DEF Emit
  <2>2. /\ n \in Nat /\ n = next - 1 /\ stage = filters[n + 1]
        /\ next \in 1..Len(filters) /\ stage \in StageNames
        /\ filters \in Seq(StageNames)
    BY <2>1, StageFacts DEF PipeInv, TraceFollowsPipe, stage
  <2>3. /\ Len(trace') = n + 1
        /\ \A i \in 1..n : trace'[i] = trace[i]
    BY <2>1, RecordAppends DEF Outcomes
  <2>4. KeysAreSet'
    <3> SUFFICES ASSUME NEW i \in 1..(n + 1), trace'[i].outcome = "output",
                        NEW k \in provides[filters[i]]
                 PROVE  payload'[k] >= i
      BY <2>1, <2>3 DEF KeysAreSet
    <3>1. filters[i] \in StageNames
      BY <2>2
    <3>2. k \in PayloadKeys
      BY <3>1, StageKeys
    <3>3. payload'[k] = IF k \in provides[stage] THEN next ELSE payload[k]
      BY <2>1, <3>2 DEF merged
    <3>4. CASE k \in provides[stage]
      BY <2>2, <3>3, <3>4
    <3>5. CASE k \notin provides[stage]
      <4>1. i \in 1..n
        BY <2>2, <3>5
      <4>2. payload[k] >= i
        BY <2>3, <4>1 DEF ResponseInv, KeysAreSet
      <4>3. QED
        BY <3>3, <3>5, <4>2
    <3>6. QED
      BY <3>4, <3>5
  <2>5. QED
    BY <2>1, <2>4 DEF Applying, ResponseInv, RespondedAtTheEnd
<1>2. CASE Reject \/ Raise
  <2>1. PICK outcome \in {"rejected", "raised"} :
           /\ Applying /\ ~halted /\ record(outcome)
           /\ UNCHANGED <<filters, payload, response>>
    BY <1>2 DEF Reject, Raise
  <2>2. /\ Len(trace') = n + 1 /\ n \in Nat
        /\ trace'[n + 1].outcome = outcome
        /\ \A i \in 1..n : trace'[i] = trace[i]
    BY <2>1, RecordAppends, StageFacts DEF Outcomes
  <2>3. KeysAreSet'
    <3> SUFFICES ASSUME NEW i \in 1..(n + 1), trace'[i].outcome = "output",
                        NEW k \in provides[filters[i]]
                 PROVE  payload[k] >= i
      BY <2>1, <2>2 DEF KeysAreSet
    <3>1. i \in 1..n
      BY <2>1, <2>2
    <3>2. QED
      BY <2>2, <3>1 DEF ResponseInv, KeysAreSet
  <2>4. QED
    BY <2>1, <2>3 DEF Applying, ResponseInv, RespondedAtTheEnd
<1>3. CASE PassThrough
  BY <1>3 DEF PassThrough, Applying, ResponseInv, KeysAreSet, RespondedAtTheEnd
<1>4. CASE Respond \/ UNCHANGED vars
  BY <1>4 DEF Respond, vars, ResponseInv, KeysAreSet, RespondedAtTheEnd,
     respond, halted, keys
<1>5. QED
  BY <1>1, <1>2, <1>3, <1>4 DEF Next

\* A run that reached its end with no failure: every stage delivered.
LEMMA AllDelivered ==
    ASSUME PipeInv, ResponseInv, response # None, ~halted
    PROVE  /\ filters \in Seq(StageNames) /\ Len(trace) = Len(filters)
           /\ \A i \in 1..Len(filters) : trace[i].outcome = "output"
<1>1. filters \in Seq(StageNames) /\ Len(filters) \in Nat
  BY TopologiesAssumption DEF PipeInv, TypeOK
<1>2. next \in 1..(Len(filters) + 1) /\ next > Len(filters)
  BY DEF PipeInv, TypeOK, ResponseInv, RespondedAtTheEnd
<1>3. Len(trace) = next - 1
  BY DEF PipeInv, TraceFollowsPipe
<1>4. Len(trace) = Len(filters)
  BY <1>1, <1>2, <1>3
<1>5. QED
  BY <1>1, <1>4 DEF PipeInv, TraceFollowsPipe

\* No two stages set the same key.
LEMMA OneProvider ==
    ASSUME NEW k, NEW s \in StageNames, NEW t \in StageNames,
           k \in provides[s], k \in provides[t]
    PROVE  s = t
BY DEF StageNames, provides

\* Where a stage occurs once, its keys all come from that occurrence.
LEMMA SetByTheOne ==
    ASSUME PipeInv, KeysAreSet, SingleUse, filters \in Seq(StageNames),
           NEW i \in 1..Len(trace), trace[i].outcome = "output",
           NEW k \in provides[filters[i]]
    PROVE  payload[k] = i
<1>1. Len(trace) <= Len(filters) /\ Len(trace) \in Nat /\ Len(filters) \in Nat
  BY DEF PipeInv, TypeOK, TraceFollowsPipe
<1>2. filters[i] \in StageNames /\ i \in DOMAIN filters
  BY <1>1
<1>3. k \in PayloadKeys
  BY <1>2, StageKeys
<1>4. payload[k] >= i /\ payload[k] \in Nat
  BY <1>1, <1>3 DEF KeysAreSet, PipeInv, TypeOK
<1>5. payload[k] \in 1..Len(trace) /\ k \in provides[filters[payload[k]]]
  BY <1>3, <1>4 DEF PipeInv, KeysWereProvided
<1>6. filters[payload[k]] \in StageNames /\ payload[k] \in DOMAIN filters
  BY <1>1, <1>5
<1>7. filters[payload[k]] = filters[i]
  BY <1>2, <1>5, <1>6, OneProvider
<1>8. QED
  BY <1>2, <1>6, <1>7 DEF SingleUse

\* What a key was made from is in the payload, and older than the key.
LEMMA MadeFromOlder ==
    ASSUME PipeInv, KeysAreSet, SingleUse, filters \in Seq(StageNames),
           NEW k \in PayloadKeys, payload[k] # 0,
           NEW m \in requires[filters[payload[k]]]
    PROVE  payload[m] # 0 /\ payload[m] < payload[k]
<1> DEFINE p == payload[k]
<1>1. p \in 1..Len(trace) /\ trace[p].outcome = "output" /\ Len(trace) \in Nat
  BY DEF PipeInv, TypeOK, KeysWereProvided
<1>2. PICK g \in 1..(p - 1) :
        trace[g].outcome = "output" /\ m \in provides[filters[g]]
  BY <1>1 DEF PipeInv, StagesWereFed
<1>3. g \in 1..Len(trace) /\ g # 0 /\ g < p
  BY <1>1, <1>2
<1>4. payload[m] = g
  BY <1>2, <1>3, SetByTheOne
<1>5. QED
  BY <1>3, <1>4

\* The stage that set a key.
LEMMA SetBy ==
    ASSUME PipeInv, filters \in Seq(StageNames), NEW s \in StageNames,
           NEW k \in provides[s], payload[k] # 0
    PROVE  /\ k \in PayloadKeys /\ filters[payload[k]] = s
           /\ payload[k] \in 1..Len(trace) /\ trace[payload[k]].outcome = "output"
<1>1. k \in PayloadKeys
  BY StageKeys
<1>2. /\ payload[k] \in 1..Len(trace) /\ trace[payload[k]].outcome = "output"
      /\ k \in provides[filters[payload[k]]]
  BY <1>1 DEF PipeInv, KeysWereProvided
<1>3. Len(trace) <= Len(filters) /\ Len(trace) \in Nat /\ Len(filters) \in Nat
  BY DEF PipeInv, TypeOK, TraceFollowsPipe
<1>4. filters[payload[k]] \in StageNames
  BY <1>2, <1>3
<1>5. QED
  BY <1>1, <1>2, <1>4, OneProvider

\* pipeline/__init__.py, as_answer: in every pipe that uses no stage twice, an
\* answer's rows were fetched for its plan with its query, before its verdict
\* and its narrative were made.
THEOREM AnswersAreOfOnePiece == Spec => []AnswerIsOfOnePiece
<1>1. PipeInv /\ ResponseInv => AnswerIsOfOnePiece
  <2> SUFFICES ASSUME PipeInv, ResponseInv, SingleUse, response = "answered"
               PROVE  /\ payload["plan"] # 0
                      /\ payload["plan"] < payload["raw_sql"]
                      /\ payload["raw_sql"] < payload["sql"]
                      /\ payload["sql"] < payload["frame"]
                      /\ payload["data"] = payload["frame"]
                      /\ payload["frame"] < payload["verdict"]
                      /\ payload["frame"] < payload["narrative"]
    BY DEF AnswerIsOfOnePiece
  <2>1. ~halted /\ ANSWER_KEYS \subseteq keys
    BY DEF ResponseInv, RespondedAtTheEnd, respond, None
  <2>2. filters \in Seq(StageNames) /\ KeysAreSet
    BY <2>1, AllDelivered DEF None, ResponseInv
  <2>3. \A k \in {"sql", "data", "verdict", "narrative"} : payload[k] # 0
    BY <2>1 DEF ANSWER_KEYS, keys
  <2>4. /\ "sql" \in provides["guardrail"] /\ "raw_sql" \in requires["guardrail"]
        /\ "raw_sql" \in provides["sql_builder"]
        /\ "plan" \in requires["sql_builder"]
        /\ "data" \in provides["executor"] /\ "frame" \in provides["executor"]
        /\ "sql" \in requires["executor"]
        /\ "verdict" \in provides["reconciler"]
        /\ "frame" \in requires["reconciler"]
        /\ "narrative" \in provides["narrator"]
        /\ "frame" \in requires["narrator"]
    BY DEF provides, requires
  <2>5. {"guardrail", "sql_builder", "executor", "reconciler", "narrator"}
           \subseteq StageNames
    BY DEF StageNames
  <2>6. payload["raw_sql"] # 0 /\ payload["raw_sql"] < payload["sql"]
    BY <2>2, <2>3, <2>4, <2>5, SetBy, MadeFromOlder
  <2>7. payload["plan"] # 0 /\ payload["plan"] < payload["raw_sql"]
    BY <2>2, <2>4, <2>5, <2>6, SetBy, MadeFromOlder
  <2>8. payload["data"] = payload["frame"]
    BY <2>2, <2>3, <2>4, <2>5, SetBy, SetByTheOne
  <2>9. payload["sql"] < payload["frame"]
    <3>1. payload["sql"] < payload["data"]
      BY <2>2, <2>3, <2>4, <2>5, SetBy, MadeFromOlder
    <3>2. QED
      BY <2>8, <3>1
  <2>10. payload["frame"] < payload["verdict"]
    BY <2>2, <2>3, <2>4, <2>5, SetBy, MadeFromOlder
  <2>11. payload["frame"] < payload["narrative"]
    BY <2>2, <2>3, <2>4, <2>5, SetBy, MadeFromOlder
  <2>12. QED
    BY <2>6, <2>7, <2>8, <2>9, <2>10, <2>11
<1>2. QED
  BY <1>1, ResponseInit, ResponseStep, PipeHolds, PTL DEF Spec

\* routes.ask: the pipe of the service never lets as_answer miss a key.
THEOREM AnalystAlwaysAnswers == Spec => []AnalystNeverCrashes
<1>1. PipeInv /\ ResponseInv => AnalystNeverCrashes
  <2> SUFFICES ASSUME PipeInv, ResponseInv, filters = AnalystPipe,
                      response = "crashed"
               PROVE  FALSE
    BY DEF AnalystNeverCrashes
  <2>1. ~halted /\ ~(ANSWER_KEYS \subseteq keys)
    BY DEF ResponseInv, RespondedAtTheEnd, respond, None
  <2>2. /\ Len(trace) = Len(filters)
        /\ \A i \in 1..Len(filters) : trace[i].outcome = "output"
    BY <2>1, AllDelivered DEF None
  <2>3. Len(filters) = 7
    BY DEF AnalystPipe
  <2>4. ASSUME NEW k \in ANSWER_KEYS
        PROVE  k \in keys
    <3>1. PICK i \in 1..7 : k \in provides[filters[i]]
      BY DEF ANSWER_KEYS, AnalystPipe, provides
    <3>2. k \in PayloadKeys
      BY DEF ANSWER_KEYS, PayloadKeys
    <3>3. payload[k] >= i /\ payload[k] \in Nat
      BY <2>2, <2>3, <3>1, <3>2 DEF PipeInv, TypeOK, ResponseInv, KeysAreSet
    <3>4. QED
      BY <3>2, <3>3 DEF keys
  <2>5. QED
    BY <2>1, <2>4
<1>2. QED
  BY <1>1, ResponseInit, ResponseStep, PipeHolds, PTL DEF Spec
=============================================================================
