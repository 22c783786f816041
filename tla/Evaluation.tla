----------------------------- MODULE Evaluation ----------------------------
(***************************************************************************)
(* The offline evaluation and the read-only endpoints: agents/evaluate.py  *)
(* runs the labelled questions and overwrites report.pkl; GET /report      *)
(* unpickles that file once and remembers it (lru_cache); GET /schema      *)
(* reads the catalogue.  Evaluation, warehouse builder and API are three   *)
(* processes, the API has a thread for each request.                       *)
(*                                                                         *)
(* A report is the number of the evaluation that wrote it.  It is written  *)
(* at once, after open(..., "wb") has emptied the file, and read at once.  *)
(***************************************************************************)
EXTENDS Warehouse, FiniteSets

CONSTANTS
    Readers,         \* threads serving GET /report
    SchemaReaders,   \* threads serving GET /schema
    NQuestions,      \* the length of questions.json
    MaxEvaluations   \* bound: how often evaluate() is started

ASSUME NQuestionsAssumption == NQuestions \in Nat \ {0}
ASSUME MaxEvaluationsAssumption == MaxEvaluations \in Nat

VARIABLES
    evaluator,   \* where evaluate() stands
    started,     \* evaluations started so far
    counts,      \* counts[e]: the counters of evaluation e
    report,      \* what report.pkl holds
    written,     \* the last evaluation that completed the file
    cached,      \* the lru_cache of _report(): a report or Nothing
    reader,      \* reader[r]: a GET /report
    schema       \* schema[t]: a GET /schema

evaluationVars == <<evaluator, started, counts, report, written>>
apiVars == <<cached, reader, schema>>
vars == <<warehouseVars, evaluationVars, apiVars>>

Evaluations == 1..MaxEvaluations

Nothing == 0    \* no report; also an empty file, which does not unpickle
NoFile  == -1

\* A connection that is not open.
Closed == -1

Idle == [at |-> "idle", missed |-> FALSE, since |-> Nothing, found |-> Nothing,
         status |-> 0]

IdleSchema == [at |-> "idle", con |-> Closed, listed |-> 0, status |-> 0]

Init ==
    /\ WarehouseInit
    /\ evaluator = "idle"
    /\ started = 0
    /\ counts = [e \in Evaluations |->
                    [asked |-> 0, guard_ok |-> 0, executed |-> 0, verified |-> 0]]
    /\ report = NoFile
    /\ written = Nothing
    /\ cached = Nothing
    /\ reader = [r \in Readers |-> Idle]
    /\ schema = [t \in SchemaReaders |-> IdleSchema]

---------------------------------------------------------------------------
(* evaluate() *)

Start ==
    /\ evaluator = "idle"
    /\ started < MaxEvaluations
    /\ started' = started + 1
    /\ evaluator' = "asking"
    /\ UNCHANGED <<counts, report, written>>

AsOne(condition) == IF condition THEN 1 ELSE 0

None     == "none"
Verdicts == {"verified", "qualified", "unverified"}

\* Fault: the narrator fails on an answer it cannot put into words.
HaltsAt_Narrator == {None, "sql_builder", "executor", "narrator"}

\* Where the pipe can halt on a question, if it does: build_sql finds no
\* template, DuckDB refuses the file or the query.  No other stage raises, and
\* the guardrail passes all that build_sql builds.
HaltsAt == {None, "sql_builder", "executor"}

\* What evaluate() reads off an envelope that halted at this stage: "data"
\* comes from the executor, "verdict" from the reconciler two stages later, and
\* env.get("verdict", "unverified") stands in for one that never came.
BeforeData == {"sql_builder", "executor"}

envelope(stage, verdict) ==
    [halted  |-> stage # None,
     data    |-> stage \notin BeforeData,
     verdict |-> IF stage \in BeforeData THEN "unverified" ELSE verdict]

\* One round of the loop.  Both rates ask whether the envelope halted, at
\* whichever stage; the verdict counts whether it halted or not.
count(c, env) ==
    [asked    |-> c.asked + 1,
     guard_ok |-> c.guard_ok + AsOne(~env.halted),
     executed |-> c.executed + AsOne(~env.halted /\ env.data),
     verified |-> c.verified + AsOne(env.verdict = "verified")]

\* Fault: the loop goes once too often.
AskNext_OffByOne ==
    /\ evaluator = "asking"
    /\ counts[started].asked <= NQuestions
    /\ counts' = [counts EXCEPT ![started] = count(@, envelope("executor", "unverified"))]
    /\ UNCHANGED <<evaluator, started, report, written>>

\* A question may always be refused, and is when there is nothing to query.
AskNext ==
    /\ evaluator = "asking"
    /\ counts[started].asked < NQuestions
    /\ \E stage \in HaltsAt, verdict \in Verdicts :
          LET env == envelope(stage, verdict)
          IN /\ env.data => Readable /\ tables[stamp] = TableCount
             /\ counts' = [counts EXCEPT ![started] = count(@, env)]
    /\ UNCHANGED <<evaluator, started, report, written>>

\* The metrics are logged, and open(report.pkl, "wb") empties the file.
Truncate ==
    /\ evaluator = "asking"
    /\ counts[started].asked = NQuestions
    /\ report' = Nothing
    /\ evaluator' = "writing"
    /\ UNCHANGED <<started, counts, written>>

Dump ==
    /\ evaluator = "writing"
    /\ report' = started
    /\ written' = started
    /\ evaluator' = "idle"
    /\ UNCHANGED <<started, counts>>

\* The script dies, or MLflow raises; whatever the file holds stays.
CrashEvaluation ==
    /\ evaluator # "idle"
    /\ evaluator' = "idle"
    /\ UNCHANGED <<started, counts, report, written>>

EvaluationStep == Start \/ AskNext \/ Truncate \/ Dump \/ CrashEvaluation

---------------------------------------------------------------------------
(* GET /report *)

refuse(r, status) ==
    reader' = [reader EXCEPT ![r] = [Idle EXCEPT !.status = status]]

answer(r, found) ==
    reader' = [reader EXCEPT ![r].at = "idle", ![r].status = 200, ![r].found = found]

\* A hit answers at once; a miss calls _report.  since is a history variable:
\* the last report that was complete when the request came.
GetReport(r) ==
    /\ reader[r].at = "idle"
    /\ reader' = [reader EXCEPT ![r] =
          IF cached # Nothing
          THEN [at |-> "idle", missed |-> FALSE, since |-> written, found |-> cached,
                status |-> 200]
          ELSE [Idle EXCEPT !.at = "missed", !.missed = TRUE, !.since = written]]
    /\ UNCHANGED <<cached, schema>>

\* path.exists(): FileNotFoundError is a 503.
CheckExists(r) ==
    /\ reader[r].at = "missed"
    /\ IF report = NoFile THEN refuse(r, 503)
       ELSE reader' = [reader EXCEPT ![r].at = "loading"]
    /\ UNCHANGED <<cached, schema>>

\* pickle.load: EOFError, which no handler maps, is a 500.
Load(r) ==
    /\ reader[r].at = "loading"
    /\ IF report = Nothing THEN refuse(r, 500)
       ELSE reader' = [reader EXCEPT ![r].at = "storing", ![r].found = report]
    /\ UNCHANGED <<cached, schema>>

\* Fault: whoever stores second gets what the first one stored.
Store_Shared(r) ==
    /\ reader[r].at = "storing"
    /\ cached' = IF cached = Nothing THEN reader[r].found ELSE cached
    /\ answer(r, cached')
    /\ UNCHANGED schema

\* lru_cache keeps what another thread stored meanwhile; the caller gets what
\* it computed itself.  An exception is not cached.
Store(r) ==
    /\ reader[r].at = "storing"
    /\ cached' = IF cached = Nothing THEN reader[r].found ELSE cached
    /\ answer(r, reader[r].found)
    /\ UNCHANGED schema

ReadReport(r) == CheckExists(r) \/ Load(r) \/ Store(r)

---------------------------------------------------------------------------
(* GET /schema *)

end(t, status) ==
    schema' = [schema EXCEPT ![t] = [IdleSchema EXCEPT !.status = status]]

\* if not db.exists(): 503
GetSchema(t) ==
    /\ schema[t].at = "idle"
    /\ IF present
       THEN schema' = [schema EXCEPT ![t] = [IdleSchema EXCEPT !.at = "found"]]
       ELSE end(t, 503)
    /\ UNCHANGED <<cached, reader>>

\* duckdb.connect, outside the try: a missing or locked file is a 500.
ConnectSchema(t) ==
    /\ schema[t].at = "found"
    /\ IF Readable
       THEN schema' = [schema EXCEPT ![t].at = "listing", ![t].con = stamp]
       ELSE end(t, 500)
    /\ UNCHANGED <<cached, reader>>

\* SELECT table_name: the open file, whatever has become of its path.
ListTables(t) ==
    /\ schema[t].at = "listing"
    /\ schema' = [schema EXCEPT ![t].at = "describing",
                                ![t].listed = tables[schema[t].con]]
    /\ UNCHANGED <<cached, reader>>

\* The columns of each table come over the same connection, which is closed.
CloseSchema(t) ==
    /\ schema[t].at = "describing"
    /\ end(t, 200)
    /\ UNCHANGED <<cached, reader>>

ReadSchema(t) == ConnectSchema(t) \/ ListTables(t) \/ CloseSchema(t)

\* The API process is replaced: its memory and its requests are gone.
Restart ==
    /\ cached' = Nothing
    /\ reader' = [r \in Readers |-> Idle]
    /\ schema' = [t \in SchemaReaders |-> IdleSchema]

---------------------------------------------------------------------------
Next ==
    \/ BuilderStep /\ UNCHANGED <<evaluationVars, apiVars>>
    \/ EvaluationStep /\ UNCHANGED <<warehouseVars, apiVars>>
    \/ /\ \/ \E r \in Readers : GetReport(r) \/ ReadReport(r)
          \/ \E t \in SchemaReaders : GetSchema(t) \/ ReadSchema(t)
          \/ Restart
       /\ UNCHANGED <<warehouseVars, evaluationVars>>

Spec == Init /\ [][Next]_vars

---------------------------------------------------------------------------
Counters ==
    [asked : 0..NQuestions, guard_ok : 0..NQuestions,
     executed : 0..NQuestions, verified : 0..NQuestions]

ReaderStates ==
    [at : {"idle", "missed", "loading", "storing"}, missed : BOOLEAN,
     since : 0..MaxEvaluations, found : 0..MaxEvaluations,
     status : {0, 200, 500, 503}]

SchemaStates ==
    [at : {"idle", "found", "listing", "describing"}, con : Stamps \cup {Closed},
     listed : 0..TableCount, status : {0, 200, 500, 503}]

\* Every variable keeps to its type; no counter outgrows questions.json.
TypeOK ==
    /\ WarehouseTypeOK
    /\ evaluator \in {"idle", "asking", "writing"}
    /\ started \in 0..MaxEvaluations
    /\ counts \in [Evaluations -> Counters]
    /\ report \in Evaluations \cup {Nothing, NoFile}
    /\ written \in Evaluations \cup {Nothing}
    /\ cached \in Evaluations \cup {Nothing}
    /\ reader \in [Readers -> ReaderStates]
    /\ schema \in [SchemaReaders -> SchemaStates]

served == {reader[r].found : r \in {r \in Readers : reader[r].status = 200}}

\* However often an evaluation died half way or was overtaken by a rebuild, a
\* report that is served or remembered is a whole one, and the verified rate in
\* it is no higher than the execution rate.  evaluate() counts the verdict of an
\* envelope that halted too: it is right because nothing behind the reconciler
\* fails.
ReportsAddUp ==
    \A e \in (served \cup {cached}) \ {Nothing} :
        /\ counts[e].asked = NQuestions
        /\ counts[e].verified <= counts[e].executed

\* A request that had to read the file gets a report at least as new as the
\* one that was complete when it came, whatever other threads were storing.
MissIsFresh ==
    \A r \in Readers : reader[r].missed /\ reader[r].status = 200 =>
        reader[r].found >= reader[r].since

\* README.md:193, "Latest evaluation metrics": no request gets a report older
\* than the one that was complete when it came.
LatestIsServed ==
    \A r \in Readers : reader[r].status = 200 => reader[r].found >= reader[r].since
=============================================================================
