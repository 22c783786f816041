# Formal models of CopilotDesk

TLA+ specifications of CopilotDesk.  Where correctness depends on the order of
events: the audit of an answer against a warehouse that may be replaced at any
moment, the figures cached across request threads, the pipe of stages a
question flows through, the evaluation and its cached report.  Where it depends
on the data: what routing, SQL, the four cross-checks and the narrator make of
a question over a damaged warehouse.  TLC checks small instances; TLAPS proves
the central properties for every instance.

Paths are relative to the repository.  `PROJECT.json` lists the runs, the
lines each definition models, a faulty variant of the code for every checked
property, the hazards and the theorems.

## 1. Inventory

| Part | Source | State | Operations | Modelled in |
|---|---|---|---|---|
| warehouse builder | `scripts/make_warehouse.py` | the DuckDB file | unlink, create, one table at a time, close; may die anywhere | `Warehouse` |
| baseline cache | `orchestrator/memory.py` | module-level `_CACHE`: fingerprint -> {sql: figure}; per audit `_store`, `_con` | `fingerprint`, `Baselines(...)`, `scalar`, `_open`, `close`, `forget_all` | `Baselines` |
| audit planner | `orchestrator/planner.py`, `agents/base.py` | none | which checks settle which answer | `AuditPlan` |
| audit executor | `orchestrator/executor.py` | one audit | run the checks, contain their failures, fold a verdict, close | `AskService` |
| reconcilers | `agents/reconcilers.py` | none | which figures each check asks for; the comparison | `AuditPlan` (calls), `AskService` (failures), `Reconcile` (arithmetic) |
| pipeline | `pipeline/*.py` | one immutable envelope per question | `BaseFilter.apply`, the seven `process`, `compose`, `as_answer` | `Pipeline` (any composition), `Answer` (values) |
| ask endpoint | `api/routes.py` | none of its own | existence test, run the pipe, 200 / 422 / 500 / 503 | `AskService`, `Pipeline` |
| routing and SQL | `agents/planner.py`, `agents/sqlbuilder.py` | none | question -> plan -> SQL -> guarded SQL | `Routing`, `StarSchema` (what the SQL returns) |
| chart, narrator | `pipeline/filters.py` | none | rows, evidence -> chart, claim, caveats | `Answer` |
| evaluation | `agents/evaluate.py` | `report.pkl` | ask every labelled question, count, overwrite the report | `Evaluation` |
| report, schema | `api/routes.py` | the `lru_cache` of `_report` | read the report once; describe the tables | `Evaluation` |
| health, settings, UI, statistics script | `api/`, `settings.py`, `ui/app.py`, `scripts/audit_answers.py` | none that changes | - | no (section 6) |

How they interact.  FastAPI runs `ask` on a thread pool: each request has its
own envelope, frame and `Baselines` object, and all of them share `_CACHE` and
the file at `db_path`.  A request opens that file twice, once in the executor
stage and once (at most) in the audit, and looks at its metadata in between to
choose a cache entry.  The builder is another process: it unlinks the file and
writes a new one, and nobody is told.  The evaluation is a third process that
runs the same pipe over the labelled questions and overwrites `report.pkl`,
which the API reads at the first `GET /report` and never again.

What is hard here: no lock protects `_CACHE`, so constructors and `scalar()`
calls interleave at every dictionary operation; the existence test, the
executor's connect, the fingerprint and the audit's connect are four separate
looks at a file that changes; a check may fail after half of its figures; the
builder may leave no file or half a file.  What makes each part correct:

* cache: no figure is served for a file it was not read from; the map does not
  grow with the number of versions; entries stay bounded;
* audit: what the rows are compared with belongs to the rows' warehouse; a
  check that could not run never looks like one that passed; connections are
  returned on every path; every request ends;
* pipeline: no rows without a guarded query; a halted run says who halted it
  and nothing happens behind it; a 200 answer is consistent with itself;
* answer: what is called verified is right, what is right is not warned about,
  and a share is quoted of the whole warehouse or with a caveat;
* report: what is served is a whole report, and it verifies no more than it
  executed.

## 2. The modules

    Warehouse     AuditPlan               AuditTrail
      |    \        /   |                      |  (INSTANCE)
      |   Baselines     |                  Pipeline --- MCPipeline
      |       |         |                   |      \
      |   AskService    |                   |    PipelineProofs
      |       |         |                   |
      |   AskInvariant -- MCAskService      |  (INSTANCE)
      |      / \        |                   |
      |     /  AskOnce -- MCAskOnce         |
      |    /     \      |                   |
      | AskHistory -- MCAskHistory          |
      |  |  |  (INSTANCE) -- FreshFigures   |
      |  |         \    |                   |
      | AskProofs   |   +--- Routing ------Answer --- MCAnswer
      |      \      |   |                  /   \
      |     AskAnswer-  +--- StarSchema -- Reconcile
      |       Proofs                             \
      |                           SumTheorems -- AnswerProofs
    Evaluation                                     |
      |                                       FigureProofs
    EvaluationProofs                               |
                                              VerdictProofs

**Warehouse.**  `stamp` names file versions; it stands for (size, mtime).
`present`, `tables[stamp]` and `builder` are the file and the script's program
counter: `Unlink` (make_warehouse.py:95), `Create` (96), `CreateTable` (97-99),
`CloseBuild` (100), and `CrashBuild` in any of those places.  A rebuild uses
two stamps, one for the file `connect` creates and one for what `close` leaves.
`fingerprint` is memory.py:31-38, with `MissingKey` for (-1, -1).

**AuditPlan.**  Constant operators: the plans that can reach an audit, which
checks `AuditPlanner.plan` selects for one and which it skips with a reason
(`handles`, `declines`, `selected`, `skipped`; a check that does not handle the
intent is neither), the sequences of `scalar()` calls each check may make
(`scalarCalls`), and which of these queries can come back NULL (`NullableSqls`).

**Baselines.**  Every operation of `memory.py`, one step per operation on a
shared dictionary or call into DuckDB.  `cache` is `_CACHE`; an inner
dictionary is an object of its own, named after the request that created it,
because an audit keeps using its `_store` after it has been deleted from
`_CACHE`.  A figure is represented by the stamp of the file it was read from,
which is all that the properties need of it.

| `memory.py` | action |
|---|---|
| 31-38 `fingerprint(path)` | `TakeFingerprint` |
| 58 `_CACHE.setdefault(key, {})` | `SetDefault` |
| 59 `len(_CACHE) > 1` | `CheckLen` |
| 61 the comprehension: start, end or `RuntimeError` | `Iterate`, `ListStale` |
| 62 `del _CACHE[stale]`, or `KeyError` | `DeleteStale` |
| 69 `sql in self._store` | `Lookup` |
| 71 `return self._store[sql]`, or `KeyError` | `Hit` |
| 80-84 `_open()`, which may raise | `Open` |
| 72-75 the query, which may raise, and `len(...)` | `Fetch` |
| 76 `next(iter(...))`, `.pop(...)`, which may raise | `PickVictim`, `PopVictim` |
| 77-78 store and return | `Remember` |
| 41-43 `forget_all()` | `ForgetAll` |

**AskService.**  A `POST /ask` around it: `Ask` (routes.py:63-68), `Connect`
and `Query` (filters.py:131-145), then `AuditExecutor.run`: `TakeFingerprint`,
the constructor, `PlanAudit`, `StartCheck`, the `scalar()` calls (after each of
which `float(None)` may raise: `FigureIsNone`), `ConcludeCheck` or `CatchCheck`
(`_run_one`, 105-126), `Close`.  `verdict` is
the fold of lines 90-95.  Stages that share nothing are left out here; they are
in Pipeline.  `Next` interleaves all requests, the builder and `forget_all`.
`SerialSpec` is the same code where audits do not overlap: the evaluation
(evaluate.py:32-35) and the statistics script (audit_answers.py:27-30, 61-63)
put one question after the other, and forget the figures only between two.

**FreshFigures.**  What the cache promises, without a cache: an audit looks at
the warehouse once, and every figure it is handed afterwards is of that file
version or a later one; once an audit has joined an older file, the audits that
saw the same version may be handed that one too.  `AskHistory!Contract` maps
`now` to `stamp`, `since` to `key` and `got` to the origins of the figures.

**AskHistory.**  AskService with a history variable, `joined`: which superseded
file versions audits were connected to, each with the fingerprint the audit had
taken.  It restrains nothing; it lets the promises about the age of figures say
exactly what such a join can do.  The promises, the contract, and the inductive
invariant behind them (`FreshInv`, `IInv`) are here.

**AskOnce.**  `SerialSpec` with a history variable, `computed`: which queries
were run for a fingerprint, less those whose figures were evicted or forgotten
since.  With it "computed at most once per version" can be said of what is
computed, not only of what is remembered.

**Pipeline.**  One envelope in one pipe, any sequence of the seven stages.
`payload[k]` is the position of the stage that set key `k`, so that two values
of one key can be told apart by origin.  `Emit`, `Reject`, `Raise` and
`PassThrough` are the four ways through `BaseFilter.apply` (filters.py:47-63),
`Respond` is `as_answer` and the end of `routes.ask`.

**AuditTrail.**  What envelope.py:6-11 promises of a trace; Pipeline
implements it.

**Routing.**  `plan`, `build_sql` and `guard_sql` as operators.  A question is
the set of keyword classes it contains (which metrics, which dimensions, which
period words, "top"/"most", the number after "top"), a query is the record of
its clauses, and the guardrail sees a sequence of statements with the node
types in each tree.

**StarSchema.**  What DuckDB returns for such a query over one warehouse, a
sequence of fact rows and a sequence of customers: the inner join (which drops
facts and multiplies them), GROUP BY with NULL as a group, `SUM` over NULLs,
`ROUND` to cents, the order with its ties, LIMIT; and the population figures
the checks ask for.  Amounts are in half cents, so that rounding can be seen.

**Reconcile.**  `population`, `null_metric`, `join_integrity`, `continuity`:
tolerance, truncation, comparison, and `couldNotRun` for `float(None)`; the
fold into a verdict (executor.py:90-95).

**Answer.**  The seven filters with what they compute, one action each, in the
order of `build_analyst_pipeline`; `Halt` is an Emission with an error or an
exception.  `headline` and `narrate` are the claims of filters.py:212-270 with
their figures; a narrative is its headline and the checks it has caveats of.
The warehouse does not change meanwhile: what happens if it does is
AskService's matter.  `Answer!Pipe` maps the payload to the position of
the stage that set each key, and Answer implements Pipeline under that mapping;
`AuditIsAsPlanned` ties AskService's view of an audit (`Plans`, `selected`,
`skipped`, `scalarCalls`) to what routing and arithmetic really do.

**Evaluation.**  `evaluate()` as a process: `Start`, `AskNext` per question,
`Truncate` (`open(..., "wb")` empties the file), `Dump`, and `CrashEvaluation`
anywhere.  `envelope` is what evaluate() reads off an envelope that halted at
some stage, or at none: whether it halted, whether there is data, and a verdict,
which is counted whether it halted or not (38-42); `HaltsAt` has the stages at
which the pipe does halt.  A report is represented by the number of its
evaluation, whose counters are in `counts`.  `GetReport`, `CheckExists`, `Load`,
`Store` are `GET /report` around `lru_cache`: the lookup, the call outside the cache's
lock, and the store that keeps what another thread stored first.  `GetSchema`,
`ConnectSchema`, `ListTables`, `CloseSchema` are `GET /schema` over Warehouse's
file and builder.  `Restart` replaces the API process.

**AskInvariant.**  The inductive invariants about AskService that need no
history, which the runs check before the proofs use them; and `work`, a bound on
the steps a request still has to take.

**AskProofs, AskAnswerProofs, PipelineProofs, EvaluationProofs, SumTheorems,
AnswerProofs, FigureProofs, VerdictProofs.**  The proofs (section 5).

## 3. What is checked

| Run | Instance | Question |
|---|---|---|
| `ask_cache` | 2 requests, stamps 0..3, `MAX_ENTRIES` 2, a two-figure question, shared DuckDB instances, `forget_all` | Is a figure ever stored under a newer file version than its own, or compared with rows of another?  Does the cache implement its contract?  Does the inductive invariant hold? |
| `ask_threads` | 3 requests, stamps 0..2, a one-figure question, shared DuckDB instances, `forget_all` | Does the unlocked invalidation converge, and why? |
| `ask_checks` | 2 requests, stamps 0..2, `MAX_ENTRIES` 1, a question of two checks and three figures | Are connections returned, verdicts earned, stores bounded?  Do the invariants of the last two hold?  Can one request keep another from its end, and does each end? |
| `ask_serial` | 2 requests whose audits do not overlap, stamps 0..2, `MAX_ENTRIES` 2, two questions, `forget_all` | Is what memory.py says of itself true where nothing races? |
| `pipeline` | all 5040 orders of the stages, each stage missing once or repeated once, the empty pipe | Does the envelope keep its promises in every composition? |
| `answer` | 9638 pairs of a warehouse (0 or 3 facts, 2 to 4 customers) and a question | Is a verified answer right, and a right answer not warned about?  Do the other modules abstract this one soundly? |
| `evaluation` | 2 report threads, 1 schema thread, 2 questions, 2 evaluations, stamps 0..2 | Whatever dies or races, is a served report whole and consistent, and a fresh read fresh? |

Five more runs, of `AskService` (2 requests), `Answer` and `Evaluation`, each
look for the violation of one sentence of the repository (below).

Invariants and properties, in the words of the code they are about:

* `NoFigureOlderThanItsKey` - "rebuilding the warehouse retires every figure
  derived from the old one" (memory.py:8-10): threads that took the same
  fingerprint go on filling its dictionary across a rebuild, and still no
  figure in it is older than the fingerprint, but for one that an audit with
  this very fingerprint read from a replaced file it had joined.
* `FiguresMatchRows` - as long as the file the rows came from is in place, all
  figures handed to the audit, by whatever thread they were cached, were read
  from it, with the same exception.
* `OlderOnlyWithoutAFile` - a figure older than the rows ("a stale total") never
  reaches an audit that found a file, whatever is rebuilt before, during or
  after it, with the same exception.
* `FiguresAreFresh` - the refinement of FreshFigures.
* `CacheConverges` - when no constructor is running and none has failed, one
  version is left in `_CACHE`, however insertions and deletions interleaved.
* `StoreStaysSmall` - `MAX_ENTRIES` may be overshot by racing threads, by less
  than one entry each.  (The reconcilers have nine distinct queries and
  `MAX_ENTRIES` is 64, so today nothing is evicted and the bound is never met:
  this and `StoreWithinBound` are about the code that would do it.)
* `ConnectionsReturned` - "one connection at most" (executor.py:3), and none
  kept by a request that has ended.
* `VerifiedMeansRead` - "a broken check must not pass silently"
  (executor.py:110): a verified answer has all selected checks, in order, with
  every figure they compare.
* `RequestsFinish` - a request that is asked ends.
* `StepsRunOut` - every step of a request lowers `work`, which no step of
  another request, of the builder or of `forget_all` raises: an evicted entry,
  a vanished file or a changed dictionary ends a check and is never met by
  looking again.  A request takes `MaxStamp` + 96 steps at most.
* `InvalidationNeverFails`, `StoreWithinBound` - memory.py:23-24 and 26-28 as
  they are written, which only `ask_serial` finds true.
* `ComputedAtMostOncePerVersion` - memory.py:68, "computed at most once per
  version", where audits do not overlap: no query is run for a file version that
  it was run for already, unless its figure was evicted or forgotten
  (`forget_all`) in between.  The fingerprint of a missing file is no version:
  its figures go with the first file that is audited.
* `HaltIsTheLastWord`, `TraceIsAnAuditTrail` - envelope.py:6-11.
* `RowsAreGoverned` - "everything downstream of it is allowed to assume it is
  operating on governed SQL" (filters.py:93-95), for any order of stages.
* `AnswerIsOfOnePiece` - a 200 answer's plan, query, rows, verdict and
  narrative belong together, in any order of stages that answers at all.
* `AnalystNeverCrashes` - the shipped pipe never meets a missing key in
  `as_answer`.
* `VerifiedIsRight` - "verified" is about the answer, not about the queries, if
  every customer has one row (`Keyed`).  Each figure is the question's own,
  computed over all the facts without any join, and missing only where there is
  no fact.  A trend has every period but for one that undated rows may stand in
  for: a hole the code cannot see (reconcilers.py:197-199).  A breakdown by any
  metric leaves out a member that has orders only if the row limit cut it off,
  and one by revenue or orders then no more than a cent and a half a row; of a
  breakdown by average order value that the row limit cuts, `population` says
  nothing, and it is verified with members missing.  A ranking leaves out nobody
  greater.  The empty warehouse is included: nothing is there to be wrong.
* `NoFalseAlarm` - over an undamaged warehouse nothing warns, unless the row
  limit cut the answer: the tolerance covers the rounding of the groups.
* `SharesAreDefended` - "a takeaway that only claims what the reconciler could
  verify" (filters.py:193): if every customer has one row, a share quoted
  without a caveat is the leader's, of the whole warehouse, however few members
  are shown, and there is no greater leader.  Without the condition it is false:
  `QuotedSharesAreRight` below.
* `VerifiedIsServable` - no NaN in a verified answer over some facts, so the
  JSON encoder accepts it.  (Over an empty fact table a total revenue is
  NaN and "verified": no check applies but `null_metric`, which finds no NULL.)
* `OvercountIsFlagged` - a breakdown or a ranking by revenue or orders that
  shows more than the whole warehouse holds, because a join multiplied facts, is
  qualified, even when a top-N may leave members out.  It says nothing of what is
  multiplied and stays below the whole (`QuotedSharesAreRight`), nor of trends:
  a trend over the segment join counts the facts of a customer who is listed
  twice twice, has no population check, and is verified.
* `FrameIsBounded` - filters.py:93-95 again, "LIMIT-bounded": a result has at
  most `row_limit` rows, or the N that was asked for.
* `AuditIsAsPlanned`, `PipeIsImplemented` - the composition: AuditPlan and
  Pipeline are abstractions of what Answer does; every check that handles the
  intent reported or is listed as unchecked.
* `IInv`, `ReadInv`, `RoomInv`, `ConvergeInv`, `SerialInv`, `OnceInv` - the
  inductive invariants of section 5: what a thread stands for in the middle of a
  constructor, an eviction or a check.
* `ReportsAddUp` - a report that is served or remembered has every question, and
  no more verified than executed: evaluate.py:41-42 counts the verdict of an
  envelope that halted, too, and is right only because nothing behind the
  reconciler fails (`HaltsAt`; the fault `HaltsAt_Narrator` lets the narrator
  fail).
* `MissIsFresh` - threads that miss together store in any order; each still
  gets a report at least as new as the last complete one when it came.

Every one of them is violated by at least one plausible fault (the operators
marked "Fault:" next to the definition they replace).

Five runs show disagreements between the code and its own words:

* `ask_own_warehouse`: "Reconcile a finished answer against the warehouse it
  came from" (executor.py:62).  A rebuild between the executor's close and the
  audit's connect makes the audit compare the rows with another warehouse.
* `ask_invalidation`: "A new fingerprint replaces the map wholesale"
  (memory.py:23-24).  One request's comprehension over `_CACHE` meets another's
  insertion or deletion: a `RuntimeError` in the constructor, which halts the
  pipe, and a question whose rows were right is refused.  (The `KeyError` of
  `del _CACHE[stale]` needs two requests that list the same superseded key, so a
  third key in `_CACHE`, which this instance does not have.)
* `ask_no_file`: "rebuilding the warehouse retires every figure derived from the
  old one instead of serving a stale total" (memory.py:8-10).  All audits that
  find no file share the key (-1, -1): one that fell into an earlier gap, and
  connected when it was over, has left figures there for one that falls into a
  later gap, with rows of a newer warehouse.  `OlderOnlyWithoutAFile` is what
  remains true: apart from this key, only a joined instance leads to a figure
  older than the rows.
* `answer_shares`: "The narrator is then only allowed to claim what the
  reconciler could verify" (README.md:114), "a takeaway that only claims what the
  reconciler could verify" (filters.py:193).  A customer listed twice in one
  segment has its facts counted twice there; if what a ranking shows is less
  than the whole warehouse all the same, no check notices: of 180, 60 of it the
  customer's, "top 1 segment" claims 120 and 67% for his segment, verified and
  without a caveat, where 60 and 33% are right.  The builder writes each
  customer once; nothing in the database makes that so.
* `report_latest`: "Latest evaluation metrics" (README.md:193).  After the
  first success the API serves the same report until it is restarted
  (`lru_cache`, routes.py:27).

The invalidation works as described where audits do not overlap: `ask_serial`.
So does "computed at most once per version" (memory.py:68): in the API, two
threads that miss the same figure both compute it, which costs a query and no
more.

If `duckdb.connect` joins an instance that the process still has open on the
unlinked file (`SharedInstances`), a figure of the old file is stored under the
new fingerprint and served from then on.  Whether it does is a matter of the
DuckDB client, outside the repository.  The runs and the theorems about figures
allow it: they hold with the exception of exactly the figures that came through
such a join, under the fingerprint of the audit that joined (`joined`).  A
figure of an older file under a newer fingerprint has no other cause.
`NothingIsJoined` proves that the exception is empty where `duckdb.connect`
opens the file at the path.

Seen while modelling, and too small for a run: "guardrail pass rate - fraction
whose generated SQL validated" (README.md:204) is computed as the rate of
envelopes not halted at any stage (evaluate.py:37-38): a question whose SQL
passed the guardrail and failed in DuckDB lowers it; during a build `/schema` answers 500, not the 503 of
README.md:160, because only the path is tested; a breakdown whose population
check warned still quotes its share, with the caveat behind it.

## 4. Bounds, fairness, assumptions

*Bounds.*  `MaxStamp` = 2 allows one complete rebuild (after any number of
attempts that die before they create a file), or one that dies and leaves half
a file; 3 allows a complete rebuild after one that left half a file, which with
the missing file makes five different fingerprints.  Two requests suffice for
every race between a thread and "the others" on one dictionary; three are used
where two threads racing leave something for a third (`CacheConverges`).
`ask_no_file` needs three gaps between files: within stamps 0..4 two builders
die after they have filled their files, and a third unlinks the last.
`MAX_ENTRIES` is 1 or 2 instead of 64 so that eviction happens (in `ask_checks`
and `ask_serial`), which today's nine queries never bring about.
One or two plans are asked because a plan only matters through its sequence of
calls: between the runs they cover a single call, two calls, two checks that
share a figure, an optional third call and a figure that a half-built warehouse
can already give.  Requests are
interchangeable, so they are a symmetry set where no liveness is checked (the
contract in `ask_cache` is a safety property and treats all audits alike).  The theorems lift all of these bounds for what they state.

In `answer`, `RowLimit` and `PREVIEW_ROWS` are 2 (1000 and 50 in the code) so
that three members are one too many for each; months have two days; three
facts suffice for a loss, a gain and a tie.  Four families of warehouses each
vary one thing in full: what facts weigh (NULL, half a cent, 30 cents, in
three regions), whose they are (two customers, an orphan, a customer listed
twice in one segment or in two, a segment without orders), when they were
placed (two months and no date), and none at all; the fifth asks every
combination of keywords.  Amounts are not negative and dimension values not
NULL, as in the warehouse the builder writes.  In `evaluation`, two evaluations
make an older and a newer report, two threads race for the cache, two questions
can be split by a rebuild.  `NQuestions` is positive: an empty set divides by
zero (evaluate.py:58).

`TestHooks` enables `forget_all`, which only the tests and the statistics
script call: it is on in `ask_cache`, `ask_threads` and `ask_serial`, off in the
other runs, and either in the theorems.

*Fairness.*  `WF_vars(RequestStep(r))` for each request: a thread that can run
is eventually scheduled by the operating system, and no step of a request
waits for anybody.  Nothing is assumed of the builder.  Only `RequestsFinish`
needs it.  The other specifications (`NotedSpec`, `SerialSpec`, `CountedSpec`,
Pipeline, Answer, Evaluation) state no fairness: nothing that is asked of them is
a promise to happen.

*Deadlock.*  Checked in the ask runs (`Finished` is the intended end).  A pipe
stops after its response, so `pipeline` and `answer` turn the check off.

*Assumptions.*  (1) One operation on a built-in `dict` is atomic, as it is
under CPython's global lock; between two of them any thread may run.
(2) Distinct file versions have distinct (size, mtime).  (3) DuckDB refuses a
read-only connection while another process holds the write lock, a dead
process's lock disappears, and an open connection keeps reading the file it
opened after that file is unlinked.  (4) A query binds as soon as the tables it
names exist.  (5) DuckDB sorts NULLs last, in either direction, and orders ties
as it likes.  (6) A report is written and read at once between the emptying of
the file and the end of `dump`: a partial pickle, like an empty one, fails to
load.  (7) The narrator never raises, so `HaltsAt` ends with the executor: on
this evaluate.py:41-42 relies.  (8) A warehouse has finitely many
rows, and an amount or a day is a natural number or NULL (`WarehouseOK`); a
question has keywords of the catalogue (`QuestionOK`); there are finitely many
requests (`RequestsAssumption`).  Over-approximations, so that no behaviour is lost: which entry
`next(iter(...))` returns, and whether it raises when another audit shares the
dictionary; which keys the comprehension sees of those that came or went while
it ran; which status a check concludes with.

## 5. What is proved

`AskProofs` (for any set of requests, any number of rebuilds, any
`MAX_ENTRIES`, any plans):

* `TypeCorrect`, `NoConnectionLeaks`: from `OrderInv`, which says where a
  thread stands determines what it has: a connection where it uses one, a
  current check where a call is made, no key before the fingerprint.
  `OrderStep` proves it inductive, one step per action; `OthersKeep` carries
  it for all threads but the one that moves.  This needs nothing of DuckDB.
* `IInvHolds`, and from it `CacheIsFresh` and `AuditMatchesRows`, all of
  `NotedSpec`: `IInv == OrderInv /\ FreshInv`.  Neither property is inductive
  alone.  The argument: an inner dictionary is reached only by audits that took
  its very fingerprint (`ReachedByItsKey`, through `_CACHE` and through every
  `_store`); a connection of an audit is opened after the fingerprint is taken,
  so unless it joins a replaced file, which `joined` then records
  (`ConnectedAfterKey`), what it writes is no older than the dictionary's key; a
  figure is never newer than the file on disk (`NothingFromTheFuture`); and while
  the rows' file is in place it is also what the fingerprint saw
  (`KeyIsTheFrames`).  A figure at least as old as the key and at most as new as
  the file is then the file's.
* `CacheImplementsContract`: every step is a step of FreshFigures or a stutter.

None of them assumes anything of what `duckdb.connect` opens.  `NothingIsJoined`
has `~SharedInstances` as its assumption and removes the exception.

`PipelineProofs` (for every set of topologies: any length, stages missing,
repeated or misplaced): `PipeTypeCorrect`, `HaltExplained`,
`NoUngovernedRows`, `RunImplementsAuditTrail`, from the invariant `PipeInv`:
the trace is the run so far, a payload key was set by a delivering stage that
provides it, and a delivering stage had been fed by earlier ones.

`AnswersAreOfOnePiece` (for pipes that use no stage twice) and
`AnalystAlwaysAnswers` add `ResponseInv`: a response is what `respond` makes of
the payload at the end, and by `PipeInv` the stage that set a key ran before
the stages that need it.

`AskAnswerProofs` (for any finite set of requests; nothing assumed of what DuckDB
opens).  Each property has an invariant over what threads
are in the middle of, and `OrderInv` beside it:

* `ConvergeHolds`, `CacheConvergence`: as long as two versions are in `_CACHE`,
  somebody is `settling`: about to count them, holding a list that has all of them, or
  deleting all but its own; or has failed there (`ConvergeInv`).  An insertion
  undoes that, and makes its own thread a settling one.
* `RoomHolds`, `StoresStaySmall`: what a dictionary holds, and the threads that
  have found or made room in it and not used it yet, are fewer than `MAX_ENTRIES` plus the
  requests (`RoomInv`).
* `ReadHolds`, `VerifiedWasRead`: findings and checks still to run are always the
  selection in its order, and whatever the current check has not read it will still ask
  for (`ReadInv`); an exception can only end in a warning.
* `OnlyAMissingFileIsStale` (with `IInv`, of `NotedSpec`): the rows of an audit
  that found a file are no newer than its fingerprint (`RowsBeforeKey`), and its
  figures no older, joins apart (`FiguresAtLeastKey`).
* `SerialHolds`, and from it `SerialInvalidation` and `SerialStoreIsBounded`, all
  of `SerialSpec`: what an audit has learnt of the
  shared dictionaries (the keys it listed, the miss, the room it found) is
  still so when it acts on it (`Current`).  `OneAuditMoves` is the argument:
  an audit may do to the dictionaries what it likes, because nobody else is
  relying on them.  So a failed invalidation and the overshoot of
  `StoreStaysSmall` each need two audits at once.
* `OnceHolds`, and from it `SerialComputesOnce`, of `CountedSpec`: every figure
  computed for a version and not evicted or forgotten is in the dictionary that
  `_CACHE` has for it, or carried by the audit that computed it (`atHand`), until
  nobody can ask for the version any more (`retired`).  The one audit under way
  owns its dictionary and deletes only superseded ones (`Owns`): the file on disk
  only ever gets newer, so a fingerprint that is not the newest is never taken
  again.
* `RequestsRunOut`: the measure `work` is a natural number (`WorkLeft`), a step
  of a request lowers it (`WorkDrops`, one case per action), and everybody
  else's steps leave alone all it depends on (`OthersWait`, `NoRequestMoves`).
  It needs no more of a plan than that it selects four checks at most, with
  three calls each (`AuditLengths`).

`EvaluationProofs` (for any number of threads, questions, evaluations and
rebuilds): `EvaluationTypeCorrect`, `ServedReportsAddUp`, `MissesAreFresh`, from
`EvalInv`, one conjunct per process.  None is
inductive alone.  The argument: an evaluation is complete before it touches the
file, a file that loads holds the last completed report (`Evaluated`), complete
counters never change (`EvaluationKeepsEvalInv`), so whatever a thread holds is
whole and, if it had to read, no older than its request (`Reading`).

`AnswerProofs`, `FigureProofs` and `VerdictProofs` prove all the safety
properties of Answer, for every question, every warehouse with finitely many
rows, every row limit, preview and length of month:

* `AnswerInv`: after each stage the payload is what the stages compute of each
  other's results (`Computed`, an auxiliary invariant).  With it every further
  property is a statement about `plan`, `build_sql`, `guard_sql`, `results`,
  `audit` and `narrate`.  `AnswerTyped`, `AnswerBounded` and `AuditFollowsPlan` need little
  more (`Planned`, `Guarded`, `ResultsAre`, `Reported`).
* `RunImplementsPipeline`: each action of Answer is one of Pipeline's under the
  mapping of values to the stages that set them, so that Pipeline's theorems hold
  of the service's pipe with its values.
* Sums.  `amount` and `total` are `MapThenSumSet` of the community modules, that
  is, an entry of a recursive function on the subsets of a set.  `SumTheorems`
  unfolds that table and proves, by induction over a finite set (`SetsGrow`),
  that sums split over disjoint parts (`SumSplit`, `SumOfParts`), do not depend
  on names (`SumRenamed`), and differ by no more than their summands do
  (`SumClose`).  The library's induction theorems take an operator, which the
  prover cannot instantiate: `SetsGrow` takes a set of subsets instead, and
  follows from the well-foundedness of strict inclusion.
* Figures.  The facts that belong to a key, as the properties define them
  without any join, are the pairs of rows that the query groups under it, each
  once (`BelongingIs`: customers are keyed, no orphans), so the figure shown is
  theirs (`ValueShown`), and `ROUND` is off by half a cent (`RoundOne`,
  `RoundMean`).  The total of the rows shown is off from the facts behind them
  by half a cent a row (`TotalNear`), and the population check compares it with
  the count of all the facts (`PopulationIs`).
* `VerifiedCanBeTrusted`: without a warning, prices are complete
  (`PricedUnlessOrders`) and joins lose nobody (`NoOrphans`), so `ShownIsRight`;
  a trend with as many rows as the calendar has periods misses at most the one
  that a NULL stands for (`TrendIsComplete`); the facts shown and the facts lost
  make up everyone (`LittleIsLost`: tolerance plus rounding, at most three half
  cents a row); whoever a ranking leaves out is behind (`RankedBehind`).
* `SharesCanBeQuoted`: the evidence the narrator finds is the population
  check's own (`EvidenceIs`, `ShareIs`), the leader leads (`LeaderLeads`) and is
  within the whole (`LeaderInWhole`).
* `AlarmsAreReal`: over an undamaged warehouse each of the four checks is quiet;
  `PopulationQuiet` shows that the tolerance covers the rounding of any number
  of groups, and that a ranking with as many rows as there are members has them
  all.
* `OvercountFlagged`, `VerifiedCanBeServed`: from the same lemmas.

`VerifiedCanBeTrusted`, `SharesCanBeQuoted` and `AlarmsAreReal` are about
warehouses in which a customer has one row, which the first two need:
`answer_shares` refutes the second without it.

Trying to prove `plan` and `METRIC_SQL` unambiguous showed that earlier versions
had CASE arms that overlapped, where TLA+ leaves the choice open and TLC takes
the first: they are IF chains now, in the order of the code's tests.

Only model-checked, because it is liveness under fairness, which the prover
cannot do: `RequestsFinish`.  Its safety part is proved (`RequestsRunOut`: no
request goes round in circles); that a request which has not ended always has a
step to take is a statement about ENABLED, and that it takes it is the fairness.
The five violations of section 3 are counterexamples and stay with TLC.

## 6. What is not modelled

*Text*: the wording of narratives, details and reasons, the chart's layout, the
characters of a question below its keyword classes and of SQL below its
clauses.  *JSON*: the answer is serialised after `as_answer`, outside this
code; `VerifiedIsServable` says what it may rely on.  *`/health`*, *settings*
and the application factory: no state and no behaviour over time.  *The UI*
renders one response per click.  *The statistics script* runs the pipe
sequentially and prints; of it `SerialSpec` has the order of the questions and
`TestHooks` the call of `forget_all`.  It would
fail on a truncated answer without rows (audit_answers.py:48), which Answer
reaches with a segment join whose facts are all orphans.  *Intent accuracy* and
MLflow in `evaluate`: a comparison with a label, an external service.  *How the
builder draws its rows.*

## 7. Plan

Done: Warehouse, AuditPlan, Baselines, AskService with its contract and
proofs; Pipeline with AuditTrail and proofs; Routing, StarSchema, Reconcile and
Answer, which implements Pipeline, with proofs; Evaluation and its proofs.
Every safety property that a passing run checks is a theorem, and the
invariants behind them are checked by runs too.  The weaker promises that the
five violations leave standing (`FiguresMatchRows`, `OlderOnlyWithoutAFile`,
`StoreStaysSmall`, the theorems of `SerialSpec` and `CountedSpec`,
`SharesAreDefended`, `MissIsFresh`) are among them.

Left, if the code grows in that direction: a serialisation of the answer that
can fail (section 6), and a guardrail fed by anything but `build_sql`, for which
`guard_sql` is modelled but about which no run asks.
