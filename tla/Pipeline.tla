------------------------------ MODULE Pipeline -----------------------------
(***************************************************************************)
(* One envelope flowing down a composed pipe: pipeline/envelope.py,        *)
(* filters.py, runner.py, and the projection onto the HTTP response in     *)
(* pipeline/__init__.py and api/routes.py.                                 *)
(*                                                                         *)
(* A pipe is any sequence of the stages, compose() checks nothing.  What a *)
(* stage computes is left out; which payload keys it reads and writes, and *)
(* the ways it can end, are not.  The payload maps a key to the position   *)
(* of the stage that set it last, so that one value can be told from       *)
(* another by where it came from.                                          *)
(***************************************************************************)
EXTENDS Naturals, Sequences

CONSTANT Topologies   \* the pipes composed

StageNames == {"planner", "sql_builder", "guardrail", "executor", "chart",
               "reconciler", "narrator"}

ASSUME TopologiesAssumption == Topologies \subseteq Seq(StageNames)

PayloadKeys == {"plan", "intent", "raw_sql", "sql", "frame", "columns", "data",
                "chart", "verdict", "checks", "unchecked", "evidence",
                "narrative"}

\* What a stage's process() asks of the envelope with require().  (The
\* narrator's "evidence" and "checks" are read with get(): no requirement.)
requires == [
    planner     |-> {},
    sql_builder |-> {"plan"},
    guardrail   |-> {"raw_sql"},
    executor    |-> {"sql"},
    chart       |-> {"intent"},
    reconciler  |-> {"plan", "frame"},
    narrator    |-> {"plan", "frame"}]

\* The payload keys of its Emission.
provides == [
    planner     |-> {"plan", "intent"},
    sql_builder |-> {"raw_sql"},
    guardrail   |-> {"sql"},
    executor    |-> {"frame", "columns", "data"},
    chart       |-> {"chart"},
    reconciler  |-> {"verdict", "checks", "unchecked", "evidence"},
    narrator    |-> {"narrative"}]

\* build_analyst_pipeline()
AnalystPipe == <<"planner", "sql_builder", "guardrail", "executor", "chart",
                 "reconciler", "narrator">>

ANSWER_KEYS == {"sql", "intent", "chart", "narrative", "data", "columns",
                "verdict", "checks", "unchecked"}

VARIABLES
    filters,   \* Pipeline.filters
    next,      \* position of the filter applied next
    payload,   \* envelope.payload: who set each key, 0 for nobody
    trace,     \* envelope.trace
    error,     \* envelope.error: the stage it names, or None
    response   \* what POST /ask returned

vars == <<filters, next, payload, trace, error, response>>

None == "none"

Outcomes == {"output", "rejected", "raised"}

halted == error # None

keys == {k \in PayloadKeys : payload[k] # 0}

stage == filters[next]

Init ==
    /\ filters \in Topologies
    /\ next = 1
    /\ payload = [k \in PayloadKeys |-> 0]
    /\ trace = <<>>
    /\ error = None
    /\ response = None

Applying == response = None /\ next <= Len(filters)

\* with_trace_entry(TraceEntry(self.name, ...))
record(outcome) ==
    trace' = Append(trace, [name |-> stage, outcome |-> outcome])

\* with_payload(**emission.payload)
merged == [k \in PayloadKeys |-> IF k \in provides[stage] THEN next ELSE payload[k]]

---------------------------------------------------------------------------
(* BaseFilter.apply                                                        *)

\* Fault: the trace entry of an emission is forgotten.
Emit_NoTrace ==
    /\ Applying /\ ~halted
    /\ requires[stage] \subseteq keys
    /\ payload' = merged
    /\ next' = next + 1
    /\ UNCHANGED <<filters, trace, error, response>>

\* Fault: require() falls back to a default.
Emit_NotRequired ==
    /\ Applying /\ ~halted
    /\ payload' = merged
    /\ record("output")
    /\ next' = next + 1
    /\ UNCHANGED <<filters, error, response>>

\* process() returns an emission without an error.
Emit ==
    /\ Applying /\ ~halted
    /\ requires[stage] \subseteq keys
    /\ payload' = merged
    /\ record("output")
    /\ next' = next + 1
    /\ UNCHANGED <<filters, error, response>>

\* Fault: the rejected SQL is put in the payload and the pipe goes on.
Reject_NotHalted ==
    /\ Applying /\ ~halted
    /\ stage = "guardrail"
    /\ requires[stage] \subseteq keys
    /\ payload' = merged
    /\ record("rejected")
    /\ next' = next + 1
    /\ UNCHANGED <<filters, error, response>>

\* The guardrail, alone, may return an emission with an error and no payload.
Reject ==
    /\ Applying /\ ~halted
    /\ stage = "guardrail"
    /\ requires[stage] \subseteq keys
    /\ record("rejected")
    /\ error' = stage
    /\ next' = next + 1
    /\ UNCHANGED <<filters, payload, response>>

\* Fault: a failure halts the pipe without a trace entry.
Raise_NoTrace ==
    /\ Applying /\ ~halted
    /\ error' = stage
    /\ next' = next + 1
    /\ UNCHANGED <<filters, payload, trace, response>>

\* process() raises, as it must when require() finds a key missing.
Raise ==
    /\ Applying /\ ~halted
    /\ record("raised")
    /\ error' = stage
    /\ next' = next + 1
    /\ UNCHANGED <<filters, payload, response>>

\* Fault: a later stage takes the halt back.
PassThrough_Resumes ==
    /\ Applying /\ halted
    /\ error' = None
    /\ next' = next + 1
    /\ UNCHANGED <<filters, payload, trace, response>>

\* Fault: the stage behind a halted one is skipped over.
PassThrough_Skips ==
    /\ Applying /\ halted
    /\ next' = next + 2
    /\ UNCHANGED <<filters, payload, trace, error, response>>

\* if envelope.halted: return envelope
PassThrough ==
    /\ Applying /\ halted
    /\ next' = next + 1
    /\ UNCHANGED <<filters, payload, trace, error, response>>

---------------------------------------------------------------------------
\* routes.ask and as_answer: 422 when halted, else every ANSWER_KEY is
\* required, and a KeyError there is a 500: no filter contains it.
respond == IF halted THEN "refused"
           ELSE IF ANSWER_KEYS \subseteq keys THEN "answered"
           ELSE "crashed"

Respond ==
    /\ response = None
    /\ next > Len(filters)
    /\ response' = respond
    /\ UNCHANGED <<filters, next, payload, trace, error>>

Next == Emit \/ Reject \/ Raise \/ PassThrough \/ Respond

Spec == Init /\ [][Next]_vars
---------------------------------------------------------------------------
\* Every variable keeps to its type, in every composition.
TypeOK ==
    /\ filters \in Topologies
    /\ next \in 1..(Len(filters) + 1)
    /\ payload \in [PayloadKeys -> 0..Len(filters)]
    /\ trace \in Seq([name : StageNames, outcome : Outcomes])
    /\ error \in StageNames \cup {None}
    /\ response \in {None, "answered", "refused", "crashed"}

\* "Failure is a value": whoever refuses the question is the last entry of a
\* trace that is never empty (routes.ask reads trace[-1]), every stage before
\* it delivered, and no stage behind it did anything.
HaltIsTheLastWord ==
    halted =>
        /\ trace # <<>>
        /\ trace[Len(trace)].name = error
        /\ trace[Len(trace)].outcome # "output"
        /\ \A i \in 1..(Len(trace) - 1) : trace[i].outcome = "output"
        /\ \A k \in PayloadKeys : payload[k] < Len(trace)

\* "Everything downstream of the guardrail is allowed to assume it is
\* operating on governed SQL": in whatever order stages are composed, rows
\* exist only if a guardrail earlier in the same pipe let a query pass.
RowsAreGoverned ==
    payload["frame"] # 0 =>
        \E g \in 1..(payload["frame"] - 1) :
            /\ filters[g] = "guardrail"
            /\ trace[g] = [name |-> "guardrail", outcome |-> "output"]

\* A 200 answer is consistent with itself, whatever the composition: its rows
\* were fetched for its plan with its query, and its verdict is about rows
\* that already existed.  (Each stage occurs at most once.)
SingleUse == \A i, j \in DOMAIN filters : filters[i] = filters[j] => i = j

AnswerIsOfOnePiece ==
    SingleUse /\ response = "answered" =>
        /\ payload["plan"] # 0
        /\ payload["plan"] < payload["raw_sql"]
        /\ payload["raw_sql"] < payload["sql"]
        /\ payload["sql"] < payload["frame"]
        /\ payload["data"] = payload["frame"]
        /\ payload["frame"] < payload["verdict"]
        /\ payload["frame"] < payload["narrative"]

\* In the topology the service is started with, the handler itself never
\* fails: as_answer finds every key in whatever state the run ended.
AnalystNeverCrashes == filters = AnalystPipe => response # "crashed"

\* The run implements the audit trail of AuditTrail.
Trail == INSTANCE AuditTrail WITH
    stages <- filters,
    trail <- [i \in DOMAIN trace |-> trace[i].name],
    closed <- halted

TraceIsAnAuditTrail == Trail!Spec
=============================================================================
