---------------------------- MODULE AskService -----------------------------
(***************************************************************************)
(* One POST /ask from the existence check to the reconciled answer, with   *)
(* every request on its own thread, over the shared _CACHE (Baselines) and *)
(* the warehouse file that a builder may be replacing (Warehouse).         *)
(*                                                                         *)
(* The planner, sql_builder, guardrail, chart and narrator stages touch    *)
(* nothing shared: here a request arrives with a plan that passed them.    *)
(* Pipeline models the stages and how any of them halts the pipe.          *)
(***************************************************************************)
EXTENDS Baselines

CONSTANT AskedPlans   \* the plans requests arrive with

ASSUME AskServiceAssumption == AskedPlans \subseteq Plans

VARIABLES
    plan,      \* envelope payload "plan"
    frame,     \* payload "frame": the file version its rows were read from
    todo,      \* the selected checks still to run, the current one first
    findings   \* the findings so far

askVars == <<plan, frame, todo, findings>>
vars == <<warehouseVars, pc, baselinesVars, askVars>>

NotAsked == [intent |-> "none"]
NoFrame  == -1

OK   == "ok"
WARN == "warn"

Done == {"answered", "unavailable", "halted at executor",
         "halted at reconciler"}

Constructing == {"setdefault", "check_len", "iterate", "list", "delete"}

Labels == {"idle", "execute", "query", "fingerprint"}
          \cup Constructing \cup Auditing \cup Done

Init ==
    /\ WarehouseInit
    /\ BaselinesInit
    /\ pc = [r \in Requests |-> "idle"]
    /\ plan = [r \in Requests |-> NotAsked]
    /\ frame = [r \in Requests |-> NoFrame]
    /\ todo = [r \in Requests |-> <<>>]
    /\ findings = [r \in Requests |-> <<>>]

---------------------------------------------------------------------------
\* routes.ask: 503 when the file is missing, else the pipe starts.
Ask(r) ==
    /\ pc[r] = "idle"
    /\ \/ /\ ~present
          /\ goto(r, "unavailable")
          /\ UNCHANGED plan
       \/ /\ present
          /\ \E p \in AskedPlans : plan' = [plan EXCEPT ![r] = p]
          /\ goto(r, "execute")
    /\ UNCHANGED <<warehouseVars, baselinesVars, frame, todo, findings>>

\* ExecutorFilter.process: duckdb.connect(...), whose failure halts the pipe.
Connect(r) ==
    /\ pc[r] = "execute"
    /\ \/ /\ \E s \in connectable : con' = [con EXCEPT ![r] = s]
          /\ goto(r, "query")
       \/ /\ connectable = {}
          /\ goto(r, "halted at executor")
          /\ UNCHANGED con
    /\ UNCHANGED <<warehouseVars, cache, store, key, ref, listed, left, victim,
                   figures, connections, askVars>>

\* Fault: no finally around the query.
Query_NoFinally(r) ==
    /\ pc[r] = "query"
    /\ \/ /\ tables[con[r]] = TableCount
          /\ con' = [con EXCEPT ![r] = Closed]
          /\ frame' = [frame EXCEPT ![r] = con[r]]
          /\ goto(r, "fingerprint")
       \/ /\ tables[con[r]] < TableCount
          /\ goto(r, "halted at executor")
          /\ UNCHANGED <<con, frame>>
    /\ UNCHANGED <<warehouseVars, cache, store, key, ref, listed, left, victim,
                   figures, connections, plan, todo, findings>>

\* Fault: the audit is left the connection the query ran on.
Query_KeepsOpen(r) ==
    /\ pc[r] = "query"
    /\ \/ /\ tables[con[r]] = TableCount
          /\ frame' = [frame EXCEPT ![r] = con[r]]
          /\ goto(r, "fingerprint")
          /\ UNCHANGED con
       \/ /\ tables[con[r]] < TableCount
          /\ con' = [con EXCEPT ![r] = Closed]
          /\ goto(r, "halted at executor")
          /\ UNCHANGED frame
    /\ UNCHANGED <<warehouseVars, cache, store, key, ref, listed, left, victim,
                   figures, connections, plan, todo, findings>>

\* ... con.execute(sql).fetchdf(), finally con.close().
Query(r) ==
    /\ pc[r] = "query"
    /\ con' = [con EXCEPT ![r] = Closed]
    /\ \/ /\ tables[con[r]] = TableCount
          /\ frame' = [frame EXCEPT ![r] = con[r]]
          /\ goto(r, "fingerprint")
       \/ /\ tables[con[r]] < TableCount
          /\ goto(r, "halted at executor")
          /\ UNCHANGED frame
    /\ UNCHANGED <<warehouseVars, cache, store, key, ref, listed, left, victim,
                   figures, connections, plan, todo, findings>>

---------------------------------------------------------------------------
(* AuditExecutor.run, the reconciler's work, from its try onwards.         *)

\* audit = self.planner.plan(ctx, self.reconcilers)
PlanAudit(r) ==
    /\ pc[r] = "audit"
    /\ todo' = [todo EXCEPT ![r] = selected(plan[r])]
    /\ goto(r, "next check")
    /\ UNCHANGED <<warehouseVars, baselinesVars, plan, frame, findings>>

StartCheck(r) ==
    /\ pc[r] = "next check"
    /\ todo[r] # <<>>
    /\ \E calls \in scalarCalls(Head(todo[r]), plan[r]) :
         left' = [left EXCEPT ![r] = calls]
    /\ goto(r, "scalar")
    /\ UNCHANGED <<warehouseVars, cache, store, key, ref, listed, con, victim,
                   figures, connections, askVars>>

\* The current check is over, with this status.
reports(r, status) ==
    /\ findings' = [findings EXCEPT
         ![r] = Append(@, [check |-> Head(todo[r]), status |-> status])]
    /\ todo' = [todo EXCEPT ![r] = Tail(@)]
    /\ goto(r, "next check")

\* Fault: a status that is neither ok nor warn is passed on.
ConcludeCheck_AnyStatus(r) ==
    /\ pc[r] = "scalar"
    /\ left[r] = <<>>
    /\ \E status \in {OK, WARN, "unknown"} : reports(r, status)
    /\ UNCHANGED <<warehouseVars, baselinesVars, plan, frame>>

\* The check has all its figures and compares them with the rows.
ConcludeCheck(r) ==
    /\ pc[r] = "scalar"
    /\ left[r] = <<>>
    /\ \E status \in {OK, WARN} : reports(r, status)
    /\ UNCHANGED <<warehouseVars, baselinesVars, plan, frame>>

\* float(None), int(None) on the figure just returned: a sum or a range of
\* dates over no rows is NULL, and only null_metric says "or 0.0".
FigureIsNone(r) ==
    /\ pc[r] = "scalar"
    /\ Head(todo[r]) # "null_metric"
    /\ \E calls \in scalarCalls(Head(todo[r]), plan[r]) :
         LET made == Len(calls) - Len(left[r])
         IN made > 0 /\ calls[made] \in NullableSqls
    /\ goto(r, "raised")
    /\ UNCHANGED <<warehouseVars, baselinesVars, askVars>>

\* Fault: a check that could not run is dropped.
CatchCheck_Swallow(r) ==
    /\ pc[r] = "raised"
    /\ left' = [left EXCEPT ![r] = <<>>]
    /\ todo' = [todo EXCEPT ![r] = Tail(@)]
    /\ goto(r, "next check")
    /\ UNCHANGED <<warehouseVars, cache, store, key, ref, listed, con, victim,
                   figures, connections, plan, frame, findings>>

\* _run_one: an exception becomes a warning, "check could not run".
CatchCheck(r) ==
    /\ pc[r] = "raised"
    /\ left' = [left EXCEPT ![r] = <<>>]
    /\ reports(r, WARN)
    /\ UNCHANGED <<warehouseVars, cache, store, key, ref, listed, con, victim,
                   figures, connections, plan, frame>>

\* finally: baselines.close(); the narrator and as_answer follow.
Close(r) ==
    /\ pc[r] = "next check"
    /\ todo[r] = <<>>
    /\ con' = [con EXCEPT ![r] = Closed]
    /\ goto(r, "answered")
    /\ UNCHANGED <<warehouseVars, cache, store, key, ref, listed, left, victim,
                   figures, connections, askVars>>

Audit(r) ==
    \/ PlanAudit(r) \/ StartCheck(r) \/ FigureIsNone(r) \/ ConcludeCheck(r)
    \/ CatchCheck(r) \/ Close(r)

VERIFIED == "verified"
QUALIFIED == "qualified"
UNVERIFIED == "unverified"

\* The fold of the findings into the verdict the answer carries.
verdict(r) ==
    IF \E i \in DOMAIN findings[r] : findings[r][i].status = WARN THEN QUALIFIED
    ELSE IF findings[r] # <<>> THEN VERIFIED
    ELSE UNVERIFIED

---------------------------------------------------------------------------
RequestStep(r) ==
    \/ Ask(r) \/ Connect(r) \/ Query(r)
    \/ Construct(r) /\ UNCHANGED askVars
    \/ Scalar(r) /\ UNCHANGED askVars
    \/ Audit(r)

Rebuild == BuilderStep /\ UNCHANGED <<pc, baselinesVars, askVars>>

Forget == ForgetAll /\ UNCHANGED askVars

\* Every request is served and the builder has used up its stamps.
Finished ==
    /\ \A r \in Requests : pc[r] \in Done
    /\ UNCHANGED vars

Next ==
    \/ \E r \in Requests : RequestStep(r)
    \/ Rebuild
    \/ Forget
    \/ Finished

\* Each request has a thread of its own that the operating system keeps
\* scheduling, and no step of it waits for another; the builder promises
\* nothing.
Fairness == \A r \in Requests : WF_vars(RequestStep(r))

Spec == Init /\ [][Next]_vars /\ Fairness

---------------------------------------------------------------------------
(* The same code where audits do not overlap: the evaluation and the       *)
(* statistics script ask one question after the other, and the script      *)
(* forgets the figures between two runs.  (Here the stages before the      *)
(* audit may still overlap, so this is also the API with a lock around     *)
(* AuditExecutor.run.)                                                     *)

InAudit == Constructing \cup Auditing

Serial ==
    \A r, other \in Requests :
        pc[r] \in InAudit /\ pc[other] \in InAudit => r = other

SerialNext ==
    \/ \E r \in Requests : RequestStep(r) /\ Serial'
    \/ Rebuild
    \/ (\A r \in Requests : pc[r] \notin InAudit) /\ Forget
    \/ Finished

SerialSpec == Init /\ [][SerialNext]_vars
---------------------------------------------------------------------------
\* Every variable keeps to its type, whatever the threads do to each other.
TypeOK ==
    /\ WarehouseTypeOK
    /\ pc \in [Requests -> Labels]
    /\ cache \in [Keys -> Requests \cup {NoStore}]
    /\ store \in [Requests -> [Sqls -> Stamps \cup {Absent}]]
    /\ key \in [Requests -> Keys \cup {NotTaken}]
    /\ ref \in [Requests -> Requests \cup {NoStore}]
    /\ listed \in [Requests -> SUBSET Keys]
    /\ con \in [Requests -> Stamps \cup {Closed}]
    /\ left \in [Requests -> Seq(Sqls)]
    /\ victim \in [Requests -> Sqls \cup {NoVictim}]
    /\ figures \in [Requests -> SUBSET (Sqls \X Stamps)]
    /\ connections \in [Requests -> Nat]
    /\ plan \in [Requests -> AskedPlans \cup {NotAsked}]
    /\ frame \in [Requests -> Stamps \cup {NoFrame}]
    /\ todo \in [Requests -> Seq(Checks)]
    /\ findings \in [Requests -> Seq([check : Checks, status : {OK, WARN}])]

\* The file versions the figures of an audit were read from.
origins(r) == {f[2] : f \in figures[r]}

\* The file the rows of r came from is still the one at db_path.
undisturbed(r) == present /\ frame[r] = stamp

\* executor.py: "one connection at most", and every exit of a request, the
\* failed ones included, gives its connection back.
ConnectionsReturned ==
    \A r \in Requests :
        /\ pc[r] \in Done => con[r] = Closed
        /\ connections[r] <= 1

\* The figures a check needs were all read.
settled(check, r) ==
    \E calls \in scalarCalls(check, plan[r]) :
        \A i \in DOMAIN calls : \E f \in figures[r] : f[1] = calls[i]

\* "A broken check must not pass silently": an answer is verified only if
\* every check selected for its plan reported, in order, with every figure
\* it compares, although the file may vanish between any two of them.
VerifiedMeansRead ==
    \A r \in Requests :
        pc[r] = "answered" /\ verdict(r) = VERIFIED =>
            /\ [i \in DOMAIN findings[r] |-> findings[r][i].check] = selected(plan[r])
            /\ \A i \in DOMAIN findings[r] : settled(findings[r][i].check, r)

\* "A new fingerprint replaces the map wholesale": when no thread is inside
\* the constructor and none of them failed there, however their insertions
\* and deletions interleaved, at most one version is left in _CACHE.
CacheConverges ==
    (\A r \in Requests : pc[r] \notin Constructing \cup {"halted at reconciler"})
        => Cardinality(Cached) <= 1

\* MAX_ENTRIES is checked before the entry is added, so threads sharing an
\* inner dictionary may overshoot it, but by no more than one entry each.
StoreStaysSmall ==
    \A d \in Requests :
        Cardinality(Remembered(d)) < MAX_ENTRIES + Cardinality(Requests)

\* memory.py, where audits do not overlap: MAX_ENTRIES bounds a dictionary.
StoreWithinBound ==
    \A d \in Requests : Cardinality(Remembered(d)) <= MAX_ENTRIES

\* Whoever asks gets an answer or a refusal: again and again no request is
\* underway.  (Nobody asks twice, so that is each of them coming to an end.)
RequestsFinish == []<>(\A r \in Requests : pc[r] \in Done \cup {"idle"})

---------------------------------------------------------------------------
\* What the code's own words claim and the code does not do.  The last one it
\* does where audits do not overlap (SerialSpec).

\* executor.py: "Reconcile a finished answer against the warehouse it came
\* from."
ReconciledAgainstItsOwnWarehouse ==
    \A r \in Requests :
        pc[r] = "answered" => origins(r) \subseteq {frame[r]}

\* memory.py: "rebuilding the warehouse retires every figure derived from the
\* old one instead of serving a stale total": no audit is handed a figure of a
\* file older than the one its rows are from.
NoStaleTotal ==
    \A r \in Requests : \A v \in origins(r) : v >= frame[r]

\* memory.py: "A new fingerprint replaces the map wholesale - that is the
\* invalidation."  As one replacement it could not fail half way.
InvalidationNeverFails ==
    \A r \in Requests : pc[r] # "halted at reconciler"
=============================================================================
