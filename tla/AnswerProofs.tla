---------------------------- MODULE AnswerProofs ---------------------------
(***************************************************************************)
(* Proofs about Answer for any set of questions and warehouses, any row    *)
(* limit and any length of the preview.                                    *)
(***************************************************************************)
EXTENDS Answer, SumTheorems

Names == {"planner", "sql_builder", "guardrail", "executor", "chart",
          "reconciler", "narrator"}

\* Every case is a question of a warehouse, and the run is about one of them.
Asked == \E c \in Cases : warehouse = c.warehouse /\ question = c.question

\* The keys that the first n stages set.
upTo(n) == {k \in DOMAIN SetBy : SetBy[k] <= n}

\* What the first n stages have computed, in order, of the question, of the
\* warehouse and of each other's results.
delivered(n) ==
    /\ n >= 1 => p_ = plan(question) /\ payload.intent = p_.intent
    /\ n >= 2 => accepts(p_) /\ payload.raw_sql = <<build_sql(p_)>>
    /\ n >= 3 => payload.sql = guard_sql(payload.raw_sql, RowLimit).sql
    /\ n >= 4 => frame_ \in results(warehouse, payload.sql) /\ payload.data = head(frame_)
    /\ n >= 6 => /\ payload.checks = audit(warehouse, p_, frame_)
                 /\ payload.verdict = verdict(payload.checks)
                 /\ payload.evidence = evidenceOf(payload.checks)
                 /\ payload.unchecked = skipped(p_)
    /\ n >= 7 => payload.narrative = narrate

\* The stages before the one at its turn have delivered, or one of them halted
\* the run; a run that is answered has everything.
Computed ==
    /\ \E n \in 0..7 :
          /\ DOMAIN payload = upTo(n) /\ delivered(n)
          /\ IF halted THEN n < next ELSE next = n + 1
    /\ response = "answered" => ~halted /\ next > Len(AnalystPipe)

\* The inductive invariant: types, and what the stages have computed so far.
AnswerInv ==
    /\ Asked
    /\ next \in 1..8
    /\ error \in Names \cup {None}
    /\ response \in {None, "answered", "refused"}
    /\ Computed

---------------------------------------------------------------------------
(* Keys.                                                                   *)

\* The seven stages by their positions.
LEMMA PipeFacts ==
    /\ Len(AnalystPipe) = 7
    /\ AnalystPipe[1] = "planner" /\ AnalystPipe[2] = "sql_builder"
    /\ AnalystPipe[3] = "guardrail" /\ AnalystPipe[4] = "executor"
    /\ AnalystPipe[5] = "chart" /\ AnalystPipe[6] = "reconciler"
    /\ AnalystPipe[7] = "narrator"
    /\ \A i \in 1..7 : AnalystPipe[i] \in Names
BY DEF AnalystPipe, Names

\* The keys by the stage that sets them.
LEMMA SetByFacts ==
    /\ DOMAIN SetBy = {"plan", "intent", "raw_sql", "sql", "frame", "columns",
                       "data", "chart", "verdict", "checks", "unchecked",
                       "evidence", "narrative"}
    /\ SetBy["plan"] = 1 /\ SetBy["intent"] = 1 /\ SetBy["raw_sql"] = 2
    /\ SetBy["sql"] = 3 /\ SetBy["frame"] = 4 /\ SetBy["columns"] = 4
    /\ SetBy["data"] = 4 /\ SetBy["chart"] = 5 /\ SetBy["verdict"] = 6
    /\ SetBy["checks"] = 6 /\ SetBy["unchecked"] = 6
    /\ SetBy["evidence"] = 6 /\ SetBy["narrative"] = 7
BY DEF SetBy

\* The keys of one stage are those of the stages up to it and no further.
setBy(n) == {k \in DOMAIN SetBy : SetBy[k] = n}

\* Each stage adds its own keys to those of the stages before.
LEMMA OneMore ==
    ASSUME NEW n \in 1..7
    PROVE  upTo(n) = upTo(n - 1) \cup setBy(n) /\ upTo(n - 1) \cap setBy(n) = {}
BY SetByFacts DEF upTo, setBy

\* The keys of each stage.
LEMMA SetByEach ==
    /\ setBy(1) = {"plan", "intent"} /\ setBy(2) = {"raw_sql"}
    /\ setBy(3) = {"sql"} /\ setBy(4) = {"frame", "data", "columns"}
    /\ setBy(5) = {"chart"}
    /\ setBy(6) = {"verdict", "checks", "unchecked", "evidence"}
    /\ setBy(7) = {"narrative"}
BY SetByFacts DEF setBy

\* A stage at its turn finds the keys of all the stages before it.
LEMMA AtItsTurn ==
    ASSUME AnswerInv, NEW name, At(name)
    PROVE  /\ next \in 1..7 /\ AnalystPipe[next] = name /\ name \in Names
           /\ response = None /\ ~halted
           /\ DOMAIN payload = upTo(next - 1) /\ delivered(next - 1)
<1>1. next \in 1..7 /\ response = None /\ ~halted /\ AnalystPipe[next] = name
  BY PipeFacts DEF At, AnswerInv
<1>2. name \in Names
  BY <1>1, PipeFacts
<1>3. DOMAIN payload = upTo(next - 1) /\ delivered(next - 1)
  BY <1>1 DEF AnswerInv, Computed
<1>4. QED
  BY <1>1, <1>2, <1>3

\* It adds its own and touches none of theirs.
LEMMA Merged ==
    ASSUME NEW delta, payload' = merged(delta),
           NEW n \in 1..7, DOMAIN payload = upTo(n - 1), DOMAIN delta = setBy(n)
    PROVE  /\ DOMAIN payload' = upTo(n)
           /\ \A k \in DOMAIN payload : payload'[k] = payload[k]
           /\ \A k \in DOMAIN delta : payload'[k] = delta[k]
BY OneMore DEF merged

\* What the first stages delivered stays as it is.
LEMMA StaysDelivered ==
    ASSUME NEW n \in 0..7, delivered(n),
           \A k \in upTo(n) : payload'[k] = payload[k],
           UNCHANGED <<warehouse, question>>
    PROVE  delivered(n)'
<1>1. n >= 1 => {"plan", "intent"} \subseteq upTo(n)
  BY SetByFacts DEF upTo
<1>2. n >= 2 => "raw_sql" \in upTo(n)
  BY SetByFacts DEF upTo
<1>3. n >= 3 => "sql" \in upTo(n)
  BY SetByFacts DEF upTo
<1>4. n >= 4 => {"frame", "data"} \subseteq upTo(n)
  BY SetByFacts DEF upTo
<1>5. n >= 6 => {"checks", "verdict", "evidence", "unchecked"} \subseteq upTo(n)
  BY SetByFacts DEF upTo
<1>6. n >= 7 => "narrative" \in upTo(n)
  BY SetByFacts DEF upTo
<1>7. n >= 1 => payload'.plan = payload.plan /\ payload'.intent = payload.intent
  BY <1>1
<1>8. n >= 2 => payload'.raw_sql = payload.raw_sql
  BY <1>2
<1>9. n >= 3 => payload'.sql = payload.sql
  BY <1>3
<1>10. n >= 4 => payload'.frame = payload.frame /\ payload'.data = payload.data
  BY <1>4
<1>11. n >= 6 => /\ payload'.checks = payload.checks
                 /\ payload'.verdict = payload.verdict
                 /\ payload'.evidence = payload.evidence
                 /\ payload'.unchecked = payload.unchecked
  BY <1>5
<1>12. n >= 7 => payload'.narrative = payload.narrative
  BY <1>6
<1>13. n >= 7 => narrate' = narrate
  <2> SUFFICES ASSUME n >= 7 PROVE narrate' = narrate
    OBVIOUS
  <2>1. /\ payload'.plan = payload.plan /\ payload'.frame = payload.frame
        /\ payload'.evidence = payload.evidence /\ payload'.checks = payload.checks
    BY <1>7, <1>10, <1>11
  <2>2. QED
    BY <2>1, Zenon DEF narrate
<1>14. QED
  BY <1>7, <1>8, <1>9, <1>10, <1>11, <1>12, <1>13 DEF delivered, p_, frame_

\* Stage n, if it emits, leaves its keys and all that was delivered before.
LEMMA EmitDelivers ==
    ASSUME AnswerInv, NEW n, n = next, NEW name, At(name), NEW delta, Emit(delta),
           DOMAIN delta = setBy(n)
    PROVE  /\ n \in 1..7 /\ AnalystPipe[n] = name /\ next' = n + 1
           /\ UNCHANGED <<warehouse, question, response, error>>
           /\ response = None /\ ~halted
           /\ DOMAIN payload = upTo(n - 1) /\ DOMAIN payload' = upTo(n)
           /\ delivered(n - 1) /\ delivered(n - 1)'
           /\ \A k \in upTo(n - 1) : payload'[k] = payload[k]
           /\ \A k \in setBy(n) : payload'[k] = delta[k]
<1>1. /\ n \in 1..7 /\ AnalystPipe[n] = name
      /\ response = None /\ ~halted
      /\ DOMAIN payload = upTo(n - 1) /\ delivered(n - 1)
  BY AtItsTurn
<1>2. /\ next' = n + 1 /\ UNCHANGED <<warehouse, question, response, error>>
      /\ payload' = merged(delta)
  BY DEF Emit, leave
<1>3. \A k \in upTo(n - 1) : payload'[k] = payload[k]
  BY <1>1, <1>2, Merged
<1>4. delivered(n - 1)'
  BY <1>1, <1>2, <1>3, StaysDelivered
<1>5. QED
  BY <1>1, <1>2, <1>3, <1>4, Merged

\* The rest of the invariant after a stage has emitted.
LEMMA EmitKeeps ==
    ASSUME AnswerInv, NEW n, n = next, NEW name, At(name), NEW delta, Emit(delta),
           DOMAIN delta = setBy(n), delivered(n)'
    PROVE  AnswerInv'
<1>1. /\ n \in 1..7 /\ next' = n + 1
      /\ UNCHANGED <<warehouse, question, response, error>>
      /\ response = None /\ ~halted /\ DOMAIN payload' = upTo(n)
  BY EmitDelivers
<1>2. Asked' /\ next' \in 1..8 /\ error' \in Names \cup {None}
      /\ response' \in {None, "answered", "refused"}
  BY <1>1 DEF AnswerInv, Asked
<1>3. Computed'
  <2>1. n \in 0..7 /\ n < next' /\ next' = n + 1
    BY <1>1
  <2>2. response' # "answered"
    BY <1>1 DEF None
  <2>3. QED
    BY <1>1, <2>1, <2>2 DEF Computed
<1>4. QED
  BY <1>2, <1>3 DEF AnswerInv

---------------------------------------------------------------------------
(* One lemma per stage.                                                    *)

\* The number of a stage that is at its turn.
LEMMA Turn ==
    ASSUME AnswerInv, NEW i \in 1..7, At(AnalystPipe[i])
    PROVE  next = i
BY AtItsTurn, PipeFacts

\* The plan is the one of the question.
LEMMA PlannerStep == ASSUME AnswerInv, Planner PROVE AnswerInv'
<1> DEFINE p == plan(question)
           delta == [plan |-> p, intent |-> p.intent]
<1>1. At("planner") /\ Emit(delta)
  BY DEF Planner
<1>2. next = 1
  BY <1>1, Turn, PipeFacts
<1>3. DOMAIN delta = setBy(1)
  BY SetByEach
<1>4. delta["plan"] = p /\ delta["intent"] = p.intent
  OBVIOUS
<1> HIDE DEF delta
<1>5. payload'["plan"] = p /\ payload'["intent"] = p.intent /\ UNCHANGED question
  BY <1>1, <1>2, <1>3, <1>4, EmitDelivers, SetByEach
<1>6. delivered(1)'
  BY <1>5 DEF delivered, p_
<1>7. QED
  BY <1>1, <1>2, <1>3, <1>6, EmitKeeps

\* build_sql writes one SELECT, which is what guard_sql lets pass.
LEMMA WrittenIsGoverned == ASSUME NEW p PROVE governed(<<build_sql(p)>>)
BY DEF governed, build_sql, FORBIDDEN

\* A run that halts keeps what was delivered before.
LEMMA HaltKeeps ==
    ASSUME AnswerInv, NEW name, At(name), NEW outcome, Halt(outcome)
    PROVE  AnswerInv'
<1>1. /\ next \in 1..7 /\ AnalystPipe[next] \in Names /\ response = None
      /\ DOMAIN payload = upTo(next - 1) /\ delivered(next - 1)
  BY AtItsTurn
<1>2. /\ next' = next + 1 /\ UNCHANGED <<warehouse, question, response, payload>>
      /\ error' = AnalystPipe[next]
  BY DEF Halt, leave
<1>3. Asked' /\ next' \in 1..8 /\ error' \in Names \cup {None}
      /\ response' \in {None, "answered", "refused"}
  BY <1>1, <1>2 DEF AnswerInv, Asked
<1>4. Computed'
  <2> DEFINE n == next - 1
  <2>1. n \in 0..7 /\ n < next'
    BY <1>1, <1>2
  <2>2. halted' /\ response' # "answered"
    BY <1>1, <1>2 DEF halted, None, Names
  <2>3. DOMAIN payload' = upTo(n) /\ delivered(n)
    BY <1>1, <1>2
  <2> HIDE DEF n
  <2>4. PICK m \in 0..7 : m = n
    BY <2>1
  <2>5. delivered(m) /\ \A k \in upTo(m) : payload'[k] = payload[k]
    BY <1>2, <2>3, <2>4
  <2>6. delivered(m)'
    BY <1>2, <2>5, StaysDelivered
  <2>7. DOMAIN payload' = upTo(m) /\ m < next'
    BY <2>1, <2>3, <2>4
  <2>8. QED
    BY <2>2, <2>6, <2>7 DEF Computed
<1>5. QED
  BY <1>3, <1>4 DEF AnswerInv

\* A query is written for a plan that can be grouped.
LEMMA SqlBuilderStep == ASSUME AnswerInv, SqlBuilder PROVE AnswerInv'
<1> DEFINE delta == [raw_sql |-> <<build_sql(payload.plan)>>]
<1>1. At("sql_builder")
  BY DEF SqlBuilder
<1>2. next = 2
  BY <1>1, Turn, PipeFacts
<1>3. CASE accepts(payload.plan)
  <2>1. Emit(delta) /\ DOMAIN delta = setBy(2)
    BY <1>3, SetByEach DEF SqlBuilder
  <2>2. delta["raw_sql"] = <<build_sql(payload.plan)>>
    OBVIOUS
  <2> HIDE DEF delta
  <2>3. /\ payload'["raw_sql"] = <<build_sql(payload.plan)>>
        /\ payload'["plan"] = payload["plan"]
        /\ delivered(1)'
    <3>1. "plan" \in upTo(1) /\ "raw_sql" \in setBy(2)
      BY SetByFacts, SetByEach DEF upTo
    <3>2. QED
      BY <1>1, <1>2, <2>1, <2>2, <3>1, EmitDelivers
  <2>4. delivered(2)'
    BY <1>3, <2>3 DEF delivered, p_
  <2>5. QED
    BY <1>1, <1>2, <2>1, <2>4, EmitKeeps
<1>4. CASE ~accepts(payload.plan)
  BY <1>1, <1>4, HaltKeeps DEF SqlBuilder
<1>5. QED
  BY <1>3, <1>4

\* The query that runs is what the guardrail made of the one written.
LEMMA GuardrailStep == ASSUME AnswerInv, Guardrail PROVE AnswerInv'
<1> DEFINE checked == guard_sql(payload.raw_sql, RowLimit)
           delta == [sql |-> checked.sql]
<1>1. At("guardrail")
  BY DEF Guardrail
<1>2. next = 3
  BY <1>1, Turn, PipeFacts
<1>3. CASE checked.ok
  <2>1. Emit(delta) /\ DOMAIN delta = setBy(3)
    BY <1>3, SetByEach DEF Guardrail
  <2>2. delta["sql"] = checked.sql
    OBVIOUS
  <2> HIDE DEF delta
  <2>3. /\ payload'["sql"] = checked.sql
        /\ payload'["raw_sql"] = payload["raw_sql"]
        /\ delivered(2)'
    <3>1. "raw_sql" \in upTo(2) /\ "sql" \in setBy(3)
      BY SetByFacts, SetByEach DEF upTo
    <3> HIDE DEF checked
    <3>2. QED
      BY <1>1, <1>2, <2>1, <2>2, <3>1, EmitDelivers
  <2>4. delivered(3)'
    BY <2>3 DEF delivered
  <2>5. QED
    BY <1>1, <1>2, <2>1, <2>4, EmitKeeps
<1>4. CASE ~checked.ok
  BY <1>1, <1>4, HaltKeeps DEF Guardrail
<1>5. QED
  BY <1>3, <1>4

\* The frame is a result of the query, the data its first rows.
LEMMA ExecutorStep == ASSUME AnswerInv, Executor PROVE AnswerInv'
<1>1. At("executor")
  BY DEF Executor
<1>2. next = 4
  BY <1>1, Turn, PipeFacts
<1>3. PICK frame \in results(warehouse, payload.sql) :
         Emit([frame   |-> frame, data |-> head(frame),
               columns |-> {"key", payload.sql.metric}])
  BY DEF Executor
<1> DEFINE delta == [frame   |-> frame, data |-> head(frame),
                     columns |-> {"key", payload.sql.metric}]
<1>4. Emit(delta) /\ DOMAIN delta = setBy(4)
  BY <1>3, SetByEach
<1>5. delta["frame"] = frame /\ delta["data"] = head(frame)
  OBVIOUS
<1> HIDE DEF delta
<1>6. /\ payload'["frame"] = frame /\ payload'["data"] = head(frame)
      /\ payload'["sql"] = payload["sql"] /\ warehouse' = warehouse
      /\ delivered(3)'
  <2>1. "sql" \in upTo(3) /\ "frame" \in setBy(4) /\ "data" \in setBy(4)
    BY SetByFacts, SetByEach DEF upTo
  <2>2. QED
    BY <1>1, <1>2, <1>4, <1>5, <2>1, EmitDelivers
<1>7. delivered(4)'
  BY <1>3, <1>6 DEF delivered, frame_
<1>8. QED
  BY <1>1, <1>2, <1>4, <1>7, EmitKeeps

\* A chart is chosen for an intent that has one.
LEMMA ChartStep == ASSUME AnswerInv, Chart PROVE AnswerInv'
<1> DEFINE delta == [chart |-> CHART_BY_INTENT[payload.intent]]
<1>1. At("chart") /\ Emit(delta) /\ DOMAIN delta = setBy(5)
  BY SetByEach DEF Chart
<1>2. next = 5
  BY <1>1, Turn, PipeFacts
<1> HIDE DEF delta
<1>3. delivered(4)'
  BY <1>1, <1>2, EmitDelivers
<1>4. delivered(5)'
  BY <1>3 DEF delivered
<1>5. QED
  BY <1>1, <1>2, <1>4, EmitKeeps

\* The verdict is the one of the findings on this frame.
LEMMA ReconcilerStep == ASSUME AnswerInv, Reconciler PROVE AnswerInv'
<1> DEFINE findings == audit(warehouse, payload.plan, payload.frame)
           delta == [verdict   |-> verdict(findings),
                     checks    |-> findings,
                     unchecked |-> skipped(payload.plan),
                     evidence  |-> evidenceOf(findings)]
<1>1. At("reconciler") /\ Emit(delta) /\ DOMAIN delta = setBy(6)
  BY SetByEach DEF Reconciler
<1>2. next = 6
  BY <1>1, Turn, PipeFacts
<1>3. /\ delta["verdict"] = verdict(findings) /\ delta["checks"] = findings
      /\ delta["evidence"] = evidenceOf(findings)
      /\ delta["unchecked"] = skipped(payload.plan)
  OBVIOUS
<1> HIDE DEF delta
<1>4. /\ payload'["verdict"] = verdict(findings) /\ payload'["checks"] = findings
      /\ payload'["evidence"] = evidenceOf(findings)
      /\ payload'["unchecked"] = skipped(payload.plan)
      /\ payload'["plan"] = payload["plan"] /\ payload'["frame"] = payload["frame"]
      /\ warehouse' = warehouse /\ delivered(5)'
  <2>1. /\ {"plan", "frame"} \subseteq upTo(5)
        /\ {"verdict", "checks", "evidence", "unchecked"} \subseteq setBy(6)
    BY SetByFacts, SetByEach DEF upTo
  <2> HIDE DEF findings
  <2>2. QED
    BY <1>1, <1>2, <1>3, <2>1, EmitDelivers
<1>5. delivered(6)'
  <2>1. payload'.checks = audit(warehouse', payload'.plan, payload'.frame)
    BY <1>4
  <2>2. /\ payload'.verdict = verdict(payload'.checks)
        /\ payload'.evidence = evidenceOf(payload'.checks)
        /\ payload'.unchecked = skipped(payload'.plan)
    BY <1>4
  <2>3. QED
    BY <1>4, <2>1, <2>2 DEF delivered, p_, frame_
<1>6. QED
  BY <1>1, <1>2, <1>5, EmitKeeps

\* The narrative is told of what is in the payload.
LEMMA NarratorStep == ASSUME AnswerInv, Narrator PROVE AnswerInv'
<1> DEFINE delta == [narrative |-> narrate]
<1>1. At("narrator") /\ Emit(delta) /\ DOMAIN delta = setBy(7)
  BY SetByEach DEF Narrator
<1>2. next = 7
  BY <1>1, Turn, PipeFacts
<1>3. delta["narrative"] = narrate
  OBVIOUS
<1> HIDE DEF delta
<1>4. /\ payload'["narrative"] = narrate
      /\ payload'["plan"] = payload["plan"] /\ payload'["frame"] = payload["frame"]
      /\ payload'["checks"] = payload["checks"]
      /\ payload'["evidence"] = payload["evidence"] /\ delivered(6)'
  <2>1. /\ {"plan", "frame", "checks", "evidence"} \subseteq upTo(6)
        /\ "narrative" \in setBy(7)
    BY SetByFacts, SetByEach DEF upTo
  <2>2. QED
    BY <1>1, <1>2, <1>3, <2>1, EmitDelivers
<1>5. narrate' = narrate
  BY <1>4, Zenon DEF narrate
<1>6. delivered(7)'
  BY <1>4, <1>5 DEF delivered
<1>7. QED
  BY <1>1, <1>2, <1>6, EmitKeeps

\* Nothing is delivered at first.
LEMMA AnswerInit == Init => AnswerInv
<1> SUFFICES ASSUME Init PROVE AnswerInv
  OBVIOUS
<1>1. DOMAIN payload = {} /\ next = 1 /\ error = None /\ response = None
  BY DEF Init
<1>2. upTo(0) = {}
  BY SetByFacts DEF upTo
<1>3. delivered(0)
  BY DEF delivered
<1>4. Computed
  BY <1>1, <1>2, <1>3 DEF Computed, None
<1>5. Asked
  BY DEF Init, Asked
<1>6. QED
  BY <1>1, <1>4, <1>5 DEF AnswerInv

\* Whatever passes a halted envelope on, or responds, keeps the payload.
LEMMA PayloadKept ==
    ASSUME AnswerInv, UNCHANGED <<warehouse, question, payload, error>>,
           next' \in 1..8, next <= next',
           halted \/ next' = next,
           response' \in {None, "answered", "refused"},
           response' = "answered" => ~halted /\ next' > 7
    PROVE  AnswerInv'
<1>1. Asked' /\ error' \in Names \cup {None}
  BY DEF AnswerInv, Asked
<1>2. PICK n \in 0..7 :
         /\ DOMAIN payload = upTo(n) /\ delivered(n)
         /\ IF halted THEN n < next ELSE next = n + 1
  BY DEF AnswerInv, Computed
<1>3. IF halted THEN n < next' ELSE next' = n + 1
  BY <1>2 DEF AnswerInv
<1>4. delivered(n)'
  BY <1>2, <1>3, StaysDelivered
<1>5. halted' = halted
  BY DEF halted
<1>6. Computed'
  BY <1>2, <1>3, <1>4, <1>5, PipeFacts DEF Computed
<1>7. QED
  BY <1>1, <1>6 DEF AnswerInv

\* The invariant is inductive.
LEMMA AnswerStep == AnswerInv /\ [Next]_vars => AnswerInv'
<1> SUFFICES ASSUME AnswerInv, [Next]_vars PROVE AnswerInv'
  OBVIOUS
<1>1. CASE PassThrough
  BY <1>1, PayloadKept, PipeFacts DEF PassThrough, AnswerInv, None
<1>2. CASE Respond
  BY <1>2, PayloadKept, PipeFacts DEF Respond, AnswerInv
<1>3. CASE UNCHANGED vars
  BY <1>3, PayloadKept, PipeFacts DEF vars, AnswerInv, Computed
<1>4. QED
  BY <1>1, <1>2, <1>3, PlannerStep, SqlBuilderStep, GuardrailStep, ExecutorStep,
     ChartStep, ReconcilerStep, NarratorStep DEF Next

\* In every run the payload is what the stages compute.
THEOREM AnswerHolds == Spec => []AnswerInv
BY AnswerInit, AnswerStep, PTL DEF Spec

---------------------------------------------------------------------------
(* What the planner and the builder write.                                 *)

\* The first keyword found is one of those found.
LEMMA FirstOf ==
    ASSUME NEW a, NEW b, NEW c, NEW found, found \subseteq {a, b, c}, NEW default
    PROVE  firstOf(<<a, b, c>>, found, default) \in found \cup {default}
<1> SUFFICES ASSUME found # {} PROVE firstOf(<<a, b, c>>, found, default) \in found
  BY DEF firstOf
<1> DEFINE order == <<a, b, c>>
           first(i) == order[i] \in found /\ \A j \in 1..(i - 1) : order[j] \notin found
<1>1. DOMAIN order = {1, 2, 3} /\ order[1] = a /\ order[2] = b /\ order[3] = c
  OBVIOUS
<1>2. \E i \in DOMAIN order : first(i)
  <2>1. CASE a \in found
    <3>1. first(1)
      BY <1>1, <2>1
    <3>2. QED
      BY <1>1, <3>1
  <2>2. CASE a \notin found /\ b \in found
    <3>1. first(2)
      BY <1>1, <2>2
    <3>2. QED
      BY <1>1, <3>1
  <2>3. CASE a \notin found /\ b \notin found
    <3>1. first(3)
      BY <1>1, <2>3
    <3>2. QED
      BY <1>1, <3>1
  <2>4. QED
    BY <2>1, <2>2, <2>3
<1>3. first(CHOOSE i \in DOMAIN order : first(i))
  BY <1>2
<1>4. QED
  BY <1>3 DEF firstOf

\* A plan has the fields of one, with a dimension for every breakdown.
PlanOK(p) ==
    /\ DOMAIN p = {"intent", "metric", "dimension", "top_n", "grain"}
    /\ p.intent \in Intents /\ p.metric \in Metrics
    /\ p.dimension \in Dimensions \cup {NoDimension}
    /\ p.top_n \in Nat /\ p.grain \in Grains
    /\ p.intent = "kpi" => p.dimension = NoDimension
    /\ p.intent = "breakdown" => p.dimension # NoDimension

\* Every question is planned.
LEMMA Planned == ASSUME NEW q, QuestionOK(q) PROVE PlanOK(plan(q))
<1> DEFINE dimension == firstOf(DIMENSION_ORDER, q.dimensions, NoDimension)
           metric == firstOf(METRIC_ORDER, q.metrics, "revenue")
<1>1. dimension \in Dimensions \cup {NoDimension}
  BY FirstOf DEF QuestionOK, Dimensions, DIMENSION_ORDER
<1>2. metric \in Metrics
  BY FirstOf DEF QuestionOK, Metrics, METRIC_ORDER
<1> HIDE DEF dimension, metric
<1>3. /\ DOMAIN plan(q) = {"intent", "metric", "dimension", "top_n", "grain"}
      /\ plan(q).metric = metric /\ plan(q).dimension = dimension
  BY DEF plan, dimension, metric
<1>4. plan(q).grain \in Grains
  BY DEF plan, Grains
<1>5. /\ plan(q).intent \in Intents
      /\ plan(q).intent = "kpi" => dimension = NoDimension
      /\ plan(q).intent = "breakdown" => dimension # NoDimension
  BY DEF plan, dimension, Intents
<1>6. plan(q).top_n \in Nat
  BY DEF plan, QuestionOK
<1>7. QED
  BY <1>1, <1>2, <1>3, <1>4, <1>5, <1>6 DEF PlanOK

\* What the guardrail makes of a query that the builder wrote.
LEMMA Guarded ==
    ASSUME NEW p, NEW row_limit
    PROVE  LET raw     == build_sql(p)
               checked == guard_sql(<<raw>>, row_limit)
           IN /\ checked.ok
              /\ checked.sql.metric = raw.metric /\ checked.sql.join = raw.join
              /\ checked.sql.group = raw.group /\ checked.sql.order = raw.order
              /\ checked.sql.limit = IF raw.limit # 0 THEN raw.limit ELSE row_limit
<1>1. governed(<<build_sql(p)>>)
  BY WrittenIsGoverned
<1>2. QED
  BY <1>1 DEF guard_sql, build_sql

---------------------------------------------------------------------------
(* What is known of a payload that has a key.                              *)

\* What a later stage stands on was delivered by the earlier ones.
LEMMA DeliveredBefore ==
    ASSUME NEW n, NEW m \in 0..7, n \in 0..m, delivered(m)
    PROVE  delivered(n)
BY DEF delivered

\* Whoever set a key was preceded by all the stages before.
LEMMA HasDelivered ==
    ASSUME AnswerInv, NEW k \in DOMAIN payload
    PROVE  k \in DOMAIN SetBy /\ delivered(SetBy[k])
<1>1. PICK n \in 0..7 : DOMAIN payload = upTo(n) /\ delivered(n)
  BY DEF AnswerInv, Computed
<1>2. k \in DOMAIN SetBy /\ SetBy[k] \in 0..n
  BY <1>1, SetByFacts DEF upTo
<1>3. QED
  BY <1>1, <1>2, DeliveredBefore

\* The question's plan.
LEMMA PlanKnown ==
    ASSUME AnswerInv, delivered(1)
    PROVE  PlanOK(p_)
BY Planned, QuestionsAssumption DEF AnswerInv, Asked, delivered

\* The question's query.
LEMMA QueryKnown ==
    ASSUME AnswerInv, delivered(3)
    PROVE  /\ PlanOK(p_) /\ accepts(p_)
           /\ payload.sql.metric = p_.metric
           /\ payload.sql.join = (p_.dimension = "segment")
           /\ payload.sql.group = CASE p_.intent = "kpi" -> "nothing"
                                    [] p_.intent = "trend" -> p_.grain
                                    [] OTHER -> p_.dimension
           /\ payload.sql.order = CASE p_.intent = "kpi" -> "none"
                                    [] p_.intent = "trend" -> "period"
                                    [] OTHER -> "metric"
           /\ payload.sql.limit = IF p_.intent = "top_n" /\ p_.top_n # 0 THEN p_.top_n
                                  ELSE RowLimit
           /\ payload.sql.limit \in Nat \ {0}
<1>1. delivered(1) /\ PlanOK(p_)
  BY DeliveredBefore, PlanKnown
<1>2. /\ accepts(p_)
      /\ payload.sql = guard_sql(<<build_sql(p_)>>, RowLimit).sql
  BY DEF delivered
<1>3. LET raw == build_sql(p_)
      IN /\ payload.sql.metric = raw.metric /\ payload.sql.join = raw.join
         /\ payload.sql.group = raw.group /\ payload.sql.order = raw.order
         /\ payload.sql.limit = IF raw.limit # 0 THEN raw.limit ELSE RowLimit
  BY <1>2, Guarded
<1>4. RowLimit \in Nat \ {0} /\ p_.top_n \in Nat
  BY <1>1, LimitsAssumption DEF PlanOK
<1>5. payload.sql.limit = IF p_.intent = "top_n" /\ p_.top_n # 0 THEN p_.top_n
                          ELSE RowLimit
  BY <1>3 DEF build_sql
<1>6. QED
  BY <1>1, <1>2, <1>3, <1>4, <1>5 DEF build_sql

\* Every variable keeps to its type, and no query is without a LIMIT.
THEOREM AnswerTyped == Spec => []TypeOK
<1>1. AnswerInv => TypeOK
  <2> SUFFICES ASSUME AnswerInv PROVE TypeOK
    OBVIOUS
  <2>1. next \in 1..(Len(AnalystPipe) + 1)
    BY PipeFacts DEF AnswerInv
  <2>2. DOMAIN payload \subseteq DOMAIN SetBy
    BY HasDelivered
  <2>3. "sql" \in DOMAIN payload => payload.sql.limit > 0
    BY HasDelivered, QueryKnown, SetByFacts
  <2>4. "verdict" \in DOMAIN payload =>
           payload.verdict \in {VERIFIED, QUALIFIED, UNVERIFIED}
    BY HasDelivered, SetByFacts DEF delivered, verdict
  <2>5. error \in {AnalystPipe[i] : i \in DOMAIN AnalystPipe} \cup {None}
    BY PipeFacts DEF AnswerInv, Names, AnalystPipe
  <2>6. QED
    BY <2>1, <2>2, <2>3, <2>4, <2>5 DEF TypeOK, AnswerInv, Asked
<1>2. QED
  BY <1>1, AnswerHolds, PTL

---------------------------------------------------------------------------
(* The audit.                                                              *)

\* A check or none.
LEMMA OnlyIfType ==
    ASSUME NEW S, NEW c, NEW P, P => c \in S
    PROVE  OnlyIf(P, c) \in Seq(S)
BY DEF OnlyIf

\* Selected are checks, and only those that run.
LEMMA SelectedChecks ==
    ASSUME NEW p
    PROVE  /\ selected(p) \in Seq(Checks)
           /\ \A i \in 1..Len(selected(p)) : runs(selected(p)[i], p)
<1> DEFINE Run == {c \in Checks : runs(c, p)}
<1>1. \A c \in Checks : OnlyIf(runs(c, p), c) \in Seq(Run)
  BY OnlyIfType
<1>2. {"population", "null_metric", "join_integrity", "continuity"} \subseteq Checks
  BY DEF Checks
<1>3. selected(p) \in Seq(Run)
  <2> HIDE DEF Run
  <2>1. QED
    BY <1>1, <1>2 DEF selected
<1>4. QED
  BY <1>3

\* A sequence is the function of its elements.
LEMMA SequenceIsFunction ==
    ASSUME NEW S, NEW s \in Seq(S)
    PROVE  s = [i \in 1..Len(s) |-> s[i]]
OBVIOUS

\* Two calls and a third.
LEMMA TwoAndOne ==
    ASSUME NEW a, NEW b, NEW c
    PROVE  <<a, b>> \o <<c>> = <<a, b, c>>
<1> DEFINE s == <<a, b>> \o <<c>>
           t == <<a, b, c>>
           S == {a, b, c}
<1>1. s \in Seq(S) /\ Len(s) = 3 /\ s[1] = a /\ s[2] = b /\ s[3] = c
  <2>1. <<a, b>> \in Seq(S) /\ <<c>> \in Seq(S)
    OBVIOUS
  <2>2. QED
    BY <2>1
<1>2. t \in Seq(S) /\ Len(t) = 3 /\ t[1] = a /\ t[2] = b /\ t[3] = c
  OBVIOUS
<1> HIDE DEF s, t, S
<1>3. s = [i \in 1..3 |-> s[i]] /\ t = [i \in 1..3 |-> t[i]]
  BY <1>1, <1>2, SequenceIsFunction
<1>4. \A i \in 1..3 : s[i] = t[i]
  BY <1>1, <1>2
<1>5. QED
  BY <1>3, <1>4 DEF s, t

\* What one check finds.
foundBy(c, w, p, frame) ==
    CASE c = "population" -> population(w, p, frame)
      [] c = "null_metric" -> null_metric(w, p, frame)
      [] c = "join_integrity" -> join_integrity(w, p, frame)
      [] c = "continuity" -> continuity(w, p, frame)

has(s, x) == \E i \in 1..Len(s) : s[i] = x

\* What one of two sequences has, both together have.
LEMMA InConcat ==
    ASSUME NEW S, NEW s \in Seq(S), NEW t \in Seq(S), NEW x,
           has(s, x) \/ has(t, x)
    PROVE  has(s \o t, x)
<1>1. CASE has(s, x)
  <2>1. PICK i \in 1..Len(s) : s[i] = x
    BY <1>1 DEF has
  <2>2. i \in 1..Len(s \o t) /\ (s \o t)[i] = x
    BY <2>1
  <2>3. QED
    BY <2>2 DEF has
<1>2. CASE has(t, x)
  <2>1. PICK i \in 1..Len(t) : t[i] = x
    BY <1>2 DEF has
  <2>2. Len(s) + i \in 1..Len(s \o t) /\ (s \o t)[Len(s) + i] = x
    BY <2>1
  <2>3. QED
    BY <2>2 DEF has
<1>3. QED
  BY <1>1, <1>2

\* Every check that runs is selected.
LEMMA AllSelected ==
    ASSUME NEW p, NEW c \in Checks, runs(c, p)
    PROVE  \E i \in 1..Len(selected(p)) : selected(p)[i] = c
<1> DEFINE only(d) == OnlyIf(runs(d, p), d)
           a == only("population")
           b == only("null_metric")
           d == only("join_integrity")
           e == only("continuity")
<1>1. \A k \in Checks : only(k) \in Seq(Checks)
  BY OnlyIfType
<1>2. a \in Seq(Checks) /\ b \in Seq(Checks) /\ d \in Seq(Checks) /\ e \in Seq(Checks)
  BY <1>1 DEF Checks
<1>3. has(<<c>>, c)
  <2>1. 1 \in 1..Len(<<c>>) /\ <<c>>[1] = c
    OBVIOUS
  <2>2. QED
    BY <2>1 DEF has
<1>4. OnlyIf(runs(c, p), c) = <<c>>
  BY DEF OnlyIf
<1>5. has(a, c) \/ has(b, c) \/ has(d, c) \/ has(e, c)
  BY <1>3, <1>4 DEF Checks
<1>6. selected(p) = ((a \o b) \o d) \o e
  BY DEF selected
<1> HIDE DEF a, b, d, e
<1>7. a \o b \in Seq(Checks) /\ (a \o b) \o d \in Seq(Checks)
  BY <1>2
<1>8. has(a, c) \/ has(b, c) => has(a \o b, c)
  BY <1>2, InConcat
<1>9. has(a \o b, c) \/ has(d, c) => has((a \o b) \o d, c)
  BY <1>2, <1>7, InConcat
<1>10. has((a \o b) \o d, c) \/ has(e, c) => has(((a \o b) \o d) \o e, c)
  BY <1>2, <1>7, InConcat
<1>11. QED
  BY <1>5, <1>6, <1>8, <1>9, <1>10 DEF has

\* Of the checks that have something to say about the intent, the selected
\* ones are those that do not decline.
LEMMA SelectedOrSkipped ==
    ASSUME NEW p
    PROVE  /\ {c \in Checks : handles(c, p.intent)} =
                {c \in Checks : runs(c, p)} \cup skipped(p)
           /\ {c \in Checks : runs(c, p)} \cap skipped(p) = {}
           /\ {c \in Checks : runs(c, p)} = {selected(p)[i] : i \in 1..Len(selected(p))}
<1>1. /\ {c \in Checks : handles(c, p.intent)} =
           {c \in Checks : runs(c, p)} \cup skipped(p)
      /\ {c \in Checks : runs(c, p)} \cap skipped(p) = {}
  BY Zenon DEF runs, skipped
<1>2. ASSUME NEW c \in Checks, runs(c, p)
      PROVE  c \in {selected(p)[i] : i \in 1..Len(selected(p))}
  BY <1>2, AllSelected DEF has
<1>3. {selected(p)[i] : i \in 1..Len(selected(p))} \subseteq {c \in Checks : runs(c, p)}
  BY SelectedChecks
<1>4. QED
  BY <1>1, <1>2, <1>3

\* Each check reports under its name, and what it asked for.
LEMMA Reported ==
    ASSUME NEW w, NEW p, PlanOK(p), NEW frame, NEW c \in Checks, runs(c, p),
           NEW found, found = foundBy(c, w, p, frame)
    PROVE  /\ found.check = c
           /\ \E calls \in scalarCalls(c, p) : IsPrefix(found.calls, calls)
<1>1. CASE c = "population"
  <2>1. found = population(w, p, frame)
    BY <1>1 DEF foundBy
  <2> DEFINE calls == <<POPULATION_SQL[p.metric], MEMBER_SOURCE[p.dimension]>>
  <2>2. found.check = c /\ found.calls \in {<<calls[1]>>, calls}
    BY <1>1, <2>1 DEF population, couldNotRun, finding
  <2>3. IsPrefix(<<calls[1]>>, calls) /\ IsPrefix(calls, calls)
    BY DEF IsPrefix
  <2>4. calls \in scalarCalls(c, p)
    BY <1>1 DEF scalarCalls
  <2>5. QED
    BY <2>2, <2>3, <2>4
<1>2. CASE c = "null_metric"
  <2>1. found = null_metric(w, p, frame)
    BY <1>2 DEF foundBy
  <2>2. /\ found.check = c
        /\ found.calls = <<"fact_rows", "null_rows">>
                         \o OnlyIf(scalar(w, "null_rows") # 0 /\ p.metric = "aov",
                                   "revenue_total")
    BY <1>2, <2>1 DEF null_metric, finding
  <2>3. /\ <<"fact_rows", "null_rows">> \o <<"revenue_total">>
           = <<"fact_rows", "null_rows", "revenue_total">>
        /\ <<"fact_rows", "null_rows">> \o <<>> = <<"fact_rows", "null_rows">>
    BY TwoAndOne
  <2>4. found.calls \in scalarCalls(c, p)
    BY <1>2, <2>2, <2>3 DEF OnlyIf, scalarCalls
  <2>5. IsPrefix(found.calls, found.calls)
    BY <2>2, <2>3 DEF IsPrefix, OnlyIf
  <2>6. QED
    BY <2>2, <2>4, <2>5
<1>3. CASE c = "join_integrity"
  <2>1. found.check = c /\ found.calls = <<"fact_rows", "orphan_rows">>
    BY <1>3 DEF foundBy, join_integrity, finding
  <2>2. IsPrefix(found.calls, found.calls)
    BY <2>1 DEF IsPrefix
  <2>3. QED
    BY <1>3, <2>1, <2>2 DEF scalarCalls
<1>4. CASE c = "continuity"
  <2>1. /\ found.check = c
        /\ found.calls = <<IF p.grain = "month" THEN "calendar_month"
                           ELSE "calendar_day">>
    BY <1>4 DEF foundBy, continuity, couldNotRun, finding
  <2>2. IsPrefix(found.calls, found.calls)
    BY <2>1 DEF IsPrefix
  <2>3. QED
    BY <1>4, <2>1, <2>2 DEF scalarCalls
<1>5. QED
  BY <1>1, <1>2, <1>3, <1>4 DEF Checks

\* What is known of a payload with a verdict: what the audit said.
LEMMA AuditKnown ==
    ASSUME AnswerInv, delivered(6)
    PROVE  /\ payload.checks = audit(warehouse, p_, frame_)
           /\ DOMAIN payload.checks = 1..Len(selected(p_))
           /\ \A i \in DOMAIN payload.checks :
                 /\ selected(p_)[i] \in Checks /\ runs(selected(p_)[i], p_)
                 /\ payload.checks[i] = foundBy(selected(p_)[i], warehouse, p_, frame_)
<1>1. payload.checks = audit(warehouse, p_, frame_)
  BY DEF delivered
<1>2. selected(p_) \in Seq(Checks) /\ \A i \in 1..Len(selected(p_)) : runs(selected(p_)[i], p_)
  BY SelectedChecks
<1>3. DOMAIN selected(p_) = 1..Len(selected(p_))
  BY <1>2
<1>4. \A i \in 1..Len(selected(p_)) : selected(p_)[i] \in Checks
  BY <1>2
<1>5. QED
  BY <1>1, <1>2, <1>3, <1>4, Zenon DEF audit, foundBy

\* executor.py, the audit of every answer is the one its plan calls for: the
\* checks in their order, of each the figures it asks for in theirs, and a
\* check that has something to say and did not report is listed as unchecked.
THEOREM AuditFollowsPlan == Spec => []AuditIsAsPlanned
<1>1. AnswerInv => AuditIsAsPlanned
  <2> SUFFICES ASSUME AnswerInv, "verdict" \in DOMAIN payload
               PROVE  /\ [k \in DOMAIN p_ \ {"top_n"} |-> p_[k]] \in Plans
                      /\ [i \in DOMAIN payload.checks |-> payload.checks[i].check] = selected(p_)
                      /\ \A i \in DOMAIN payload.checks :
                            \E calls \in scalarCalls(payload.checks[i].check, p_) :
                               IsPrefix(payload.checks[i].calls, calls)
                      /\ {c \in Checks : handles(c, p_.intent)}
                           = ran(payload.checks) \cup payload.unchecked
                      /\ ran(payload.checks) \cap payload.unchecked = {}
    BY DEF AuditIsAsPlanned
  <2>1. delivered(6) /\ delivered(3)
    BY HasDelivered, SetByFacts, DeliveredBefore
  <2>2. PlanOK(p_) /\ accepts(p_)
    BY <2>1, QueryKnown
  <2>3. [k \in DOMAIN p_ \ {"top_n"} |-> p_[k]] \in Plans
    <3> DEFINE r == [k \in DOMAIN p_ \ {"top_n"} |-> p_[k]]
               q == [intent |-> p_.intent, metric |-> p_.metric,
                     dimension |-> p_.dimension, grain |-> p_.grain]
    <3>1. DOMAIN p_ \ {"top_n"} = {"intent", "metric", "dimension", "grain"}
      BY <2>2 DEF PlanOK
    <3>2. r = q
      BY <3>1
    <3>3. q \in Plans
      BY <2>2 DEF PlanOK, accepts, Plans
    <3>4. QED
      BY <3>2, <3>3
  <2>4. \A i \in DOMAIN payload.checks :
           /\ payload.checks[i].check = selected(p_)[i]
           /\ \E calls \in scalarCalls(selected(p_)[i], p_) :
                 IsPrefix(payload.checks[i].calls, calls)
    <3> SUFFICES ASSUME NEW i \in DOMAIN payload.checks
                 PROVE  /\ payload.checks[i].check = selected(p_)[i]
                        /\ \E calls \in scalarCalls(selected(p_)[i], p_) :
                              IsPrefix(payload.checks[i].calls, calls)
      OBVIOUS
    <3> DEFINE c == selected(p_)[i]
    <3>1. /\ c \in Checks /\ runs(c, p_)
          /\ payload.checks[i] = foundBy(c, warehouse, p_, frame_)
      BY <2>1, AuditKnown
    <3> HIDE DEF c
    <3>2. QED
      BY <2>2, <3>1, Reported DEF c
  <2>5. [i \in DOMAIN payload.checks |-> payload.checks[i].check] = selected(p_)
    <3>1. DOMAIN payload.checks = 1..Len(selected(p_)) /\ selected(p_) \in Seq(Checks)
      BY <2>1, AuditKnown, SelectedChecks
    <3>2. selected(p_) = [i \in 1..Len(selected(p_)) |-> selected(p_)[i]]
      BY <3>1, SequenceIsFunction
    <3>3. QED
      BY <2>4, <3>1, <3>2
  <2>6. ran(payload.checks) = {c \in Checks : runs(c, p_)}
    <3>1. DOMAIN payload.checks = 1..Len(selected(p_))
      BY <2>1, AuditKnown
    <3>2. ran(payload.checks) = {selected(p_)[i] : i \in 1..Len(selected(p_))}
      BY <2>4, <3>1 DEF ran
    <3>3. QED
      BY <3>2, SelectedOrSkipped
  <2>7. payload.unchecked = skipped(p_)
    BY <2>1 DEF delivered
  <2>8. /\ {c \in Checks : handles(c, p_.intent)}
             = ran(payload.checks) \cup payload.unchecked
        /\ ran(payload.checks) \cap payload.unchecked = {}
    BY <2>6, <2>7, SelectedOrSkipped
  <2>9. QED
    BY <2>3, <2>4, <2>5, <2>8
<1>2. QED
  BY <1>1, AnswerHolds, PTL

---------------------------------------------------------------------------
(* The rows that come back.                                                *)

\* The lesser of two.
LEMMA MinOfTwo ==
    ASSUME NEW a \in Int, NEW b \in Int
    PROVE  Min({a, b}) = IF a <= b THEN a ELSE b
BY DEF Min

\* The greater of two.
LEMMA MaxOfTwo ==
    ASSUME NEW a \in Int, NEW b \in Int
    PROVE  Max({a, b}) = IF a >= b THEN a ELSE b
BY DEF Max

\* The first rows of a sequence.
LEMMA Shown ==
    ASSUME NEW S, NEW s \in Seq(S), NEW m \in 0..Len(s)
    PROVE  /\ SubSeq(s, 1, m) \in Seq(S) /\ Len(SubSeq(s, 1, m)) = m
           /\ \A i \in 1..m : SubSeq(s, 1, m)[i] = s[i]
OBVIOUS

\* The tables of a warehouse.
LEMMA Tables ==
    ASSUME NEW w, WarehouseOK(w)
    PROVE  /\ Len(w.facts) \in Nat /\ DOMAIN w.facts = 1..Len(w.facts)
           /\ Len(w.customers) \in Nat /\ DOMAIN w.customers = 1..Len(w.customers)
           /\ IsFiniteSet(DOMAIN w.facts) /\ IsFiniteSet(DOMAIN w.customers)
           /\ Cardinality(DOMAIN w.facts) = Len(w.facts)
           /\ \A i \in DOMAIN w.facts :
                 /\ w.facts[i].revenue \in Nat \cup {Null}
                 /\ w.facts[i].day \in Nat \cup {Null}
<1>1. /\ Len(w.facts) \in Nat /\ DOMAIN w.facts = 1..Len(w.facts)
      /\ Len(w.customers) \in Nat /\ DOMAIN w.customers = 1..Len(w.customers)
  BY DEF WarehouseOK
<1>2. \A n \in Nat : IsFiniteSet(1..n) /\ Cardinality(1..n) = n
  BY FS_Interval
<1>3. QED
  BY <1>1, <1>2 DEF WarehouseOK

\* The rows of the FROM clause are finitely many pairs.
LEMMA SourceFinite ==
    ASSUME NEW w, WarehouseOK(w), NEW join
    PROVE  /\ IsFiniteSet(source(w, join))
           /\ \A p \in source(w, join) : p[1] \in DOMAIN w.facts
<1>1. /\ IsFiniteSet((DOMAIN w.facts) \X (DOMAIN w.customers))
      /\ IsFiniteSet((DOMAIN w.facts) \X {0})
  BY Tables, FS_Product, FS_Singleton
<1>2. \/ source(w, join) \subseteq (DOMAIN w.facts) \X (DOMAIN w.customers)
      \/ source(w, join) \subseteq (DOMAIN w.facts) \X {0}
  BY DEF source
<1>3. QED
  BY <1>1, <1>2, FS_Subset

\* The groups of a query by what they have in common.
bucketsOf(w, query) ==
    IF query.group = "nothing" THEN {"all"}
    ELSE {bucket(w, query.group, p) : p \in source(w, query.join)}

pairsOf(w, query, b) == {p \in source(w, query.join) : bucket(w, query.group, p) = b}

rowOf(w, query, b) ==
    [key |-> b, value |-> METRIC_SQL(w, query.metric, pairsOf(w, query, b))]

\* A query has one row for each bucket.
LEMMA GroupsAre ==
    ASSUME NEW w, NEW query
    PROVE  groups(w, query) = {rowOf(w, query, b) : b \in bucketsOf(w, query)}
BY Zenon DEF groups, rowOf, bucketsOf, pairsOf

\* Of finitely many facts there are finitely many groups.
LEMMA GroupsFinite ==
    ASSUME NEW w, WarehouseOK(w), NEW query
    PROVE  IsFiniteSet(groups(w, query)) /\ IsFiniteSet(bucketsOf(w, query))
<1>1. IsFiniteSet(bucketsOf(w, query))
  <2> DEFINE S == source(w, query.join)
             h == [p \in S |-> bucket(w, query.group, p)]
  <2>1. IsFiniteSet({h[p] : p \in S})
    BY SourceFinite, ImageFinite
  <2>2. {h[p] : p \in S} = {bucket(w, query.group, p) : p \in S}
    OBVIOUS
  <2>3. QED
    BY <2>1, <2>2, FS_Singleton DEF bucketsOf
<1>2. IsFiniteSet(groups(w, query))
  <2> DEFINE B == bucketsOf(w, query)
             h == [b \in B |-> rowOf(w, query, b)]
  <2>1. IsFiniteSet({h[b] : b \in B})
    BY <1>1, ImageFinite
  <2>2. {h[b] : b \in B} = groups(w, query)
    BY GroupsAre
  <2>3. QED
    BY <2>1, <2>2
<1>3. QED
  BY <1>1, <1>2

\* A result has its groups once each, in order, the first ones up to the
\* limit; whoever is left out belongs behind everybody shown.
LEMMA ResultsAre ==
    ASSUME NEW w, WarehouseOK(w), NEW query, query.limit \in Nat \ {0},
           NEW frame \in results(w, query),
           NEW all, all = groups(w, query)
    PROVE  /\ frame \in Seq(all)
           /\ Len(frame) = (IF query.limit <= Cardinality(all) THEN query.limit
                            ELSE Cardinality(all))
           /\ \A i \in 1..Len(frame) : \A j \in 1..Len(frame) :
                 /\ i # j => frame[i] # frame[j]
                 /\ i < j => inOrder(query.order, frame[i], frame[j])
           /\ \A row \in all : (\A i \in 1..Len(frame) : frame[i] # row) =>
                 /\ Cardinality(all) > query.limit
                 /\ \A i \in 1..Len(frame) : inOrder(query.order, frame[i], row)
<1> DEFINE N == Cardinality(all)
<1>1. PICK s \in SetToSeqs(all) :
         /\ \A i, j \in DOMAIN s : i < j => inOrder(query.order, s[i], s[j])
         /\ frame = SubSeq(s, 1, Min({query.limit, Len(s)}))
  BY DEF results
<1>2. IsFiniteSet(all) /\ N \in Nat
  BY GroupsFinite, FS_CardinalityType
<1>3. s \in [1..N -> all] /\ \A i, j \in 1..N : i # j => s[i] # s[j]
  BY <1>1 DEF SetToSeqs
<1>4. \A row \in all : \E i \in 1..N : s[i] = row
  <2>1. s \in Injection(1..N, all)
    BY <1>3 DEF Injection, IsInjective
  <2>2. Cardinality(1..N) = N
    BY <1>2, FS_Interval
  <2>3. s \in Surjection(1..N, all)
    BY <1>2, <2>1, <2>2, FS_Injection
  <2>4. QED
    BY <2>3 DEF Surjection
<1> HIDE DEF N
<1>5. s \in Seq(all) /\ Len(s) = N /\ DOMAIN s = 1..N
  BY <1>2, <1>3
<1> DEFINE m == Min({query.limit, Len(s)})
<1>6. m = (IF query.limit <= N THEN query.limit ELSE N) /\ m \in 0..N
  BY <1>2, <1>5, MinOfTwo
<1> HIDE DEF m
<1>7. frame \in Seq(all) /\ Len(frame) = m /\ \A i \in 1..m : frame[i] = s[i]
  BY <1>1, <1>5, <1>6, Shown DEF m
<1>8. ASSUME NEW row \in all, \A i \in 1..m : frame[i] # row
      PROVE  N > query.limit /\ \A i \in 1..m : inOrder(query.order, frame[i], row)
  <2>1. PICK j \in 1..N : s[j] = row
    BY <1>4, <1>8
  <2>2. m < j
    BY <1>2, <1>6, <1>7, <1>8, <2>1
  <2>3. QED
    BY <1>1, <1>2, <1>5, <1>6, <1>7, <2>1, <2>2, SMTT(30)
<1>9. ASSUME NEW i \in 1..Len(frame), NEW j \in 1..Len(frame)
      PROVE  /\ i # j => frame[i] # frame[j]
             /\ i < j => inOrder(query.order, frame[i], frame[j])
  <2>1. i \in 1..N /\ j \in 1..N /\ frame[i] = s[i] /\ frame[j] = s[j]
    BY <1>2, <1>6, <1>7
  <2>2. i # j => s[i] # s[j]
    BY <1>3, <2>1
  <2>3. i < j => inOrder(query.order, s[i], s[j])
    BY <1>1, <1>5, <2>1
  <2>4. QED
    BY <2>1, <2>2, <2>3
<1>10. QED
  BY <1>6, <1>7, <1>8, <1>9 DEF N

\* What is known of a payload with a frame.
LEMMA FrameKnown ==
    ASSUME AnswerInv, delivered(4)
    PROVE  /\ WarehouseOK(warehouse) /\ delivered(3)
           /\ frame_ \in results(warehouse, payload.sql)
           /\ frame_ \in Seq(groups(warehouse, payload.sql))
           /\ Len(frame_) \in Nat /\ DOMAIN frame_ = 1..Len(frame_)
           /\ Len(frame_) <= payload.sql.limit
<1>1. WarehouseOK(warehouse)
  BY WarehousesAssumption DEF AnswerInv, Asked
<1>2. delivered(3) /\ frame_ \in results(warehouse, payload.sql)
  BY DeliveredBefore DEF delivered
<1>3. payload.sql.limit \in Nat \ {0}
  BY <1>2, QueryKnown
<1>4. /\ frame_ \in Seq(groups(warehouse, payload.sql))
      /\ Len(frame_) = (IF payload.sql.limit <= Cardinality(groups(warehouse, payload.sql))
                        THEN payload.sql.limit
                        ELSE Cardinality(groups(warehouse, payload.sql)))
  BY <1>1, <1>2, <1>3, ResultsAre
<1>5. Cardinality(groups(warehouse, payload.sql)) \in Nat
  BY <1>1, GroupsFinite, FS_CardinalityType
<1>6. QED
  BY <1>1, <1>2, <1>3, <1>4, <1>5

\* guardrail, however large the warehouse and whatever the question, an answer
\* has no more rows than the row limit or the question's own top N.
THEOREM AnswerBounded == Spec => []FrameIsBounded
<1>1. AnswerInv => FrameIsBounded
  <2> SUFFICES ASSUME AnswerInv, "frame" \in DOMAIN payload
               PROVE  Len(frame_) <= Max({RowLimit, p_.top_n})
    BY DEF FrameIsBounded
  <2>1. delivered(4)
    BY HasDelivered, SetByFacts
  <2>2. Len(frame_) \in Nat /\ Len(frame_) <= payload.sql.limit /\ delivered(3)
    BY <2>1, FrameKnown
  <2>3. /\ payload.sql.limit = IF p_.intent = "top_n" /\ p_.top_n # 0 THEN p_.top_n
                               ELSE RowLimit
        /\ p_.top_n \in Nat /\ RowLimit \in Nat
    BY <2>2, QueryKnown, LimitsAssumption DEF PlanOK
  <2>4. Max({RowLimit, p_.top_n}) = IF RowLimit >= p_.top_n THEN RowLimit ELSE p_.top_n
    BY <2>3, MaxOfTwo
  <2> HIDE DEF p_
  <2>5. QED
    BY <2>2, <2>3, <2>4
<1>2. QED
  BY <1>1, AnswerHolds, PTL

---------------------------------------------------------------------------
(* The run implements Pipeline.                                            *)

\* Who has set which key, as Pipeline has it.
setters == [k \in DOMAIN SetBy |-> IF k \in DOMAIN payload THEN SetBy[k] ELSE 0]

\* A stage provides what it sets here, and requires what is set before.
LEMMA StageTables ==
    ASSUME NEW n \in 1..7
    PROVE  /\ Pipe!provides[AnalystPipe[n]] = setBy(n)
           /\ Pipe!requires[AnalystPipe[n]] \subseteq upTo(n - 1)
           /\ Pipe!PayloadKeys = DOMAIN SetBy
<1>1. Pipe!PayloadKeys = DOMAIN SetBy
  BY SetByFacts DEF Pipe!PayloadKeys
<1>2. n \in {1, 2, 3, 4, 5, 6, 7}
  OBVIOUS
<1>3. Pipe!provides[AnalystPipe[n]] = setBy(n)
  BY <1>2, PipeFacts, SetByEach DEF Pipe!provides
<1>4. Pipe!requires[AnalystPipe[n]] \subseteq upTo(n - 1)
  <2>1. CASE n \in {1, 2, 3}
    BY <2>1, PipeFacts, SetByFacts DEF Pipe!requires, upTo
  <2>2. CASE n \in {4, 5, 6, 7}
    BY <2>2, PipeFacts, SetByFacts DEF Pipe!requires, upTo
  <2>3. QED
    BY <1>2, <2>1, <2>2
<1>5. QED
  BY <1>1, <1>3, <1>4

\* Before a stage that is at its turn, the keys of Pipeline are its own.
LEMMA KeysBefore ==
    ASSUME AnswerInv, NEW name, At(name)
    PROVE  /\ Pipe!Applying /\ ~Pipe!halted /\ Pipe!stage = name
           /\ Pipe!requires[Pipe!stage] \subseteq Pipe!keys
<1>1. /\ next \in 1..7 /\ AnalystPipe[next] = name /\ response = None /\ ~halted
      /\ DOMAIN payload = upTo(next - 1)
  BY AtItsTurn
<1>2. Pipe!Applying /\ ~Pipe!halted /\ Pipe!stage = name
  BY <1>1, PipeFacts DEF Pipe!Applying, Pipe!halted, Pipe!stage, halted, Pipe!None, None
<1>3. upTo(next - 1) \subseteq Pipe!keys
  <2>1. \A k \in upTo(next - 1) : k \in DOMAIN SetBy /\ SetBy[k] # 0
    BY SetByFacts DEF upTo
  <2>2. Pipe!PayloadKeys = DOMAIN SetBy
    BY StageTables, <1>1
  <2>3. QED
    BY <1>1, <2>1, <2>2 DEF Pipe!keys
<1>4. QED
  BY <1>1, <1>2, <1>3, StageTables

\* A stage that emits is one that emits without its values.
LEMMA EmitImplements ==
    ASSUME AnswerInv, NEW n, n = next, NEW name, At(name), NEW delta, Emit(delta),
           DOMAIN delta = setBy(n)
    PROVE  Pipe!Emit
<1>1. /\ n \in 1..7 /\ AnalystPipe[n] = name /\ next' = n + 1
      /\ UNCHANGED <<warehouse, question, response, error>>
      /\ DOMAIN payload = upTo(n - 1) /\ DOMAIN payload' = upTo(n)
  BY EmitDelivers
<1>2. /\ Pipe!Applying /\ ~Pipe!halted /\ Pipe!stage = name
      /\ Pipe!requires[Pipe!stage] \subseteq Pipe!keys
  BY KeysBefore
<1>3. setters' = [k \in Pipe!PayloadKeys |->
                    IF k \in Pipe!provides[Pipe!stage] THEN next ELSE setters[k]]
  <2>1. Pipe!provides[Pipe!stage] = setBy(n) /\ Pipe!PayloadKeys = DOMAIN SetBy
    BY <1>1, <1>2, StageTables
  <2>2. upTo(n) = upTo(n - 1) \cup setBy(n) /\ upTo(n - 1) \cap setBy(n) = {}
    BY <1>1, OneMore
  <2>3. \A k \in setBy(n) : SetBy[k] = next
    BY DEF setBy
  <2>4. setters' = [k \in DOMAIN SetBy |-> IF k \in upTo(n) THEN SetBy[k] ELSE 0]
    BY <1>1 DEF setters
  <2>5. setters = [k \in DOMAIN SetBy |-> IF k \in upTo(n - 1) THEN SetBy[k] ELSE 0]
    BY <1>1 DEF setters
  <2>6. QED
    BY <2>1, <2>2, <2>3, <2>4, <2>5
<1>4. Pipe!record("output")
  BY <1>1, <1>2 DEF Emit, leave, Pipe!record
<1>5. QED
  BY <1>1, <1>2, <1>3, <1>4 DEF Pipe!Emit, Pipe!merged, setters

\* A stage that halts keeps the payload, and is recorded.
LEMMA HaltImplements ==
    ASSUME AnswerInv, NEW name, At(name), NEW outcome, Halt(outcome)
    PROVE  /\ Pipe!record(outcome) /\ error' = Pipe!stage /\ next' = next + 1
           /\ UNCHANGED <<setters, response>>
<1>1. AnalystPipe[next] = name
  BY AtItsTurn
<1>2. Pipe!stage = name
  BY KeysBefore
<1>3. QED
  BY <1>1, <1>2 DEF Halt, leave, Pipe!record, setters

\* The pipe with its values starts as the one without.
LEMMA PipeInitial == Init => Pipe!Init
<1> SUFFICES ASSUME Init PROVE Pipe!Init
  OBVIOUS
<1>1. Pipe!PayloadKeys = DOMAIN SetBy
  BY StageTables
<1>2. setters = [k \in Pipe!PayloadKeys |-> 0]
  BY <1>1 DEF Init, setters
<1>3. QED
  BY <1>2 DEF Init, Pipe!Init, setters, None, Pipe!None

\* Every step with values is a step without them, or none.
LEMMA PipeStep == AnswerInv /\ [Next]_vars => [Pipe!Next]_(Pipe!vars)
<1> SUFFICES ASSUME AnswerInv, [Next]_vars PROVE [Pipe!Next]_(Pipe!vars)
  OBVIOUS
<1> USE DEF Pipe!Next
<1>1. CASE Planner
  <2>1. At("planner") /\ \E delta : Emit(delta) /\ DOMAIN delta = setBy(1)
    <3>1. DOMAIN [plan |-> plan(question), intent |-> plan(question).intent] = setBy(1)
      BY SetByEach
    <3>2. QED
      BY <1>1, <3>1 DEF Planner
  <2>2. QED
    BY <2>1, Turn, PipeFacts, EmitImplements
<1>2. CASE SqlBuilder
  <2>1. At("sql_builder") /\ next = 2
    BY <1>2, Turn, PipeFacts DEF SqlBuilder
  <2>2. CASE accepts(payload.plan)
    <3>1. DOMAIN [raw_sql |-> <<build_sql(payload.plan)>>] = setBy(2)
      BY SetByEach
    <3>2. QED
      BY <1>2, <2>1, <2>2, <3>1, EmitImplements DEF SqlBuilder
  <2>3. CASE ~accepts(payload.plan)
    <3>1. Halt("raised")
      BY <1>2, <2>3 DEF SqlBuilder
    <3>2. Pipe!Raise
      BY <2>1, <3>1, HaltImplements, KeysBefore DEF Pipe!Raise, setters
    <3>3. QED
      BY <3>2
  <2>4. QED
    BY <2>2, <2>3
<1>3. CASE Guardrail
  <2> DEFINE checked == guard_sql(payload.raw_sql, RowLimit)
  <2>1. At("guardrail") /\ next = 3
    BY <1>3, Turn, PipeFacts DEF Guardrail
  <2>2. CASE checked.ok
    <3>1. DOMAIN [sql |-> checked.sql] = setBy(3)
      BY SetByEach
    <3>2. Emit([sql |-> checked.sql])
      BY <1>3, <2>2 DEF Guardrail
    <3>3. QED
      BY <2>1, <3>1, <3>2, EmitImplements
  <2>3. CASE ~checked.ok
    <3>1. Halt("rejected")
      BY <1>3, <2>3 DEF Guardrail
    <3>2. Pipe!Reject
      BY <2>1, <3>1, HaltImplements, KeysBefore DEF Pipe!Reject, setters
    <3>3. QED
      BY <3>2
  <2>4. QED
    BY <2>2, <2>3
<1>4. CASE Executor
  <2>1. At("executor") /\ next = 4
    BY <1>4, Turn, PipeFacts DEF Executor
  <2>2. PICK frame \in results(warehouse, payload.sql) :
           Emit([frame   |-> frame, data |-> head(frame),
                 columns |-> {"key", payload.sql.metric}])
    BY <1>4 DEF Executor
  <2>3. DOMAIN [frame   |-> frame, data |-> head(frame),
                columns |-> {"key", payload.sql.metric}] = setBy(4)
    BY SetByEach
  <2>4. QED
    BY <2>1, <2>2, <2>3, EmitImplements
<1>5. CASE Chart
  <2>1. At("chart") /\ next = 5 /\ Emit([chart |-> CHART_BY_INTENT[payload.intent]])
    BY <1>5, Turn, PipeFacts DEF Chart
  <2>2. DOMAIN [chart |-> CHART_BY_INTENT[payload.intent]] = setBy(5)
    BY SetByEach
  <2>3. QED
    BY <2>1, <2>2, EmitImplements
<1>6. CASE Reconciler
  <2> DEFINE findings == audit(warehouse, payload.plan, payload.frame)
             delta == [verdict   |-> verdict(findings),
                       checks    |-> findings,
                       unchecked |-> skipped(payload.plan),
                       evidence  |-> evidenceOf(findings)]
  <2>1. At("reconciler") /\ next = 6 /\ Emit(delta)
    BY <1>6, Turn, PipeFacts DEF Reconciler
  <2>2. DOMAIN delta = setBy(6)
    BY SetByEach
  <2> HIDE DEF delta
  <2>3. QED
    BY <2>1, <2>2, EmitImplements
<1>7. CASE Narrator
  <2>1. At("narrator") /\ next = 7 /\ Emit([narrative |-> narrate])
    BY <1>7, Turn, PipeFacts DEF Narrator
  <2>2. DOMAIN [narrative |-> narrate] = setBy(7)
    BY SetByEach
  <2>3. QED
    BY <2>1, <2>2, EmitImplements
<1>8. CASE PassThrough
  BY <1>8, PipeFacts DEF PassThrough, Pipe!PassThrough, Pipe!Applying, Pipe!halted,
     halted, None, Pipe!None, setters
<1>9. CASE Respond
  <2>1. /\ response = None /\ next = 8 /\ UNCHANGED <<next, payload, trace, error>>
        /\ response' = IF halted THEN "refused" ELSE "answered"
    BY <1>9, PipeFacts DEF Respond, AnswerInv
  <2>2. ~halted => Pipe!ANSWER_KEYS \subseteq Pipe!keys
    <3> SUFFICES ASSUME ~halted PROVE Pipe!ANSWER_KEYS \subseteq Pipe!keys
      OBVIOUS
    <3>1. PICK n \in 0..7 : DOMAIN payload = upTo(n) /\ next = n + 1
      BY DEF AnswerInv, Computed
    <3>2. DOMAIN payload = upTo(7)
      BY <2>1, <3>1
    <3>3. DOMAIN payload = DOMAIN SetBy /\ \A k \in DOMAIN SetBy : SetBy[k] # 0
      BY <3>2, SetByFacts DEF upTo
    <3>4. Pipe!PayloadKeys = DOMAIN SetBy
      BY StageTables
    <3>5. Pipe!keys = DOMAIN SetBy
      BY <3>3, <3>4 DEF Pipe!keys
    <3>6. QED
      BY <3>5, SetByFacts DEF Pipe!ANSWER_KEYS
  <2>3. response' = Pipe!respond
    BY <2>1, <2>2 DEF Pipe!respond, Pipe!halted, halted, None, Pipe!None
  <2>4. Pipe!Respond
    BY <2>1, <2>3, PipeFacts DEF Pipe!Respond, None, Pipe!None, setters
  <2>5. QED
    BY <2>4
<1>10. CASE UNCHANGED vars
  BY <1>10 DEF vars, Pipe!vars, setters
<1>11. QED
  BY <1>1, <1>2, <1>3, <1>4, <1>5, <1>6, <1>7, <1>8, <1>9, <1>10 DEF Next

\* pipeline/__init__.py, the service's own pipe with its values is one of the
\* pipes without: every run is a run of Pipeline.
THEOREM RunImplementsPipeline == Spec => PipeIsImplemented
BY PipeInitial, PipeStep, AnswerHolds, PTL DEF Spec, PipeIsImplemented, Pipe!Spec
=============================================================================
