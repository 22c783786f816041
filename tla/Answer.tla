------------------------------- MODULE Answer ------------------------------
(***************************************************************************)
(* One question answered from one warehouse: the seven filters of          *)
(* pipeline/filters.py with what each of them computes, in the order of    *)
(* build_analyst_pipeline().  Pipeline has every composition and abstracts *)
(* from the values; here the pipe is the service's own, and the values are *)
(* what the properties are about: is a verified answer right?              *)
(***************************************************************************)
EXTENDS Routing, Reconcile

CONSTANTS
    Cases,        \* which question is asked of which warehouse
    RowLimit,     \* agent.row_limit of the configuration
    PREVIEW_ROWS  \* how many rows the caller gets to see

ASSUME QuestionsAssumption == \A c \in Cases : QuestionOK(c.question)
ASSUME WarehousesAssumption == \A c \in Cases : WarehouseOK(c.warehouse)
ASSUME LimitsAssumption == {RowLimit, PREVIEW_ROWS} \subseteq Nat \ {0}

VARIABLES
    warehouse,   \* the tables, which nobody changes meanwhile
    question,
    next,        \* position of the filter applied next
    payload,     \* envelope.payload
    trace,       \* envelope.trace
    error,       \* envelope.error: the stage it names, or None
    response     \* what POST /ask returned

vars == <<warehouse, question, next, payload, trace, error, response>>

AnalystPipe == <<"planner", "sql_builder", "guardrail", "executor", "chart",
                 "reconciler", "narrator">>

None == "none"

Init ==
    /\ \E c \in Cases : warehouse = c.warehouse /\ question = c.question
    /\ next = 1
    /\ payload = [k \in {} |-> None]
    /\ trace = <<>>
    /\ error = None
    /\ response = None

halted == error # None

At(name) == response = None /\ next <= Len(AnalystPipe) /\ ~halted
            /\ AnalystPipe[next] = name

leave(outcome) ==
    /\ trace' = Append(trace, [name |-> AnalystPipe[next], outcome |-> outcome])
    /\ next' = next + 1
    /\ UNCHANGED <<warehouse, question, response>>

\* with_payload: {**self.payload, **updates}
merged(delta) ==
    [k \in (DOMAIN delta) \cup (DOMAIN payload) |->
        IF k \in DOMAIN delta THEN delta[k] ELSE payload[k]]

\* An Emission: its payload is merged over what is there.
Emit(delta) == payload' = merged(delta) /\ leave("output") /\ UNCHANGED error

\* An Emission with an error, or an exception: the payload stays.
Halt(outcome) == leave(outcome) /\ error' = AnalystPipe[next] /\ UNCHANGED payload

Planner ==
    /\ At("planner")
    /\ LET p == plan(question) IN Emit([plan |-> p, intent |-> p.intent])

SqlBuilder ==
    /\ At("sql_builder")
    /\ IF accepts(payload.plan)
       THEN Emit([raw_sql |-> <<build_sql(payload.plan)>>])
       ELSE Halt("raised")

Guardrail ==
    /\ At("guardrail")
    /\ LET checked == guard_sql(payload.raw_sql, RowLimit)
       IN IF checked.ok THEN Emit([sql |-> checked.sql]) ELSE Halt("rejected")

\* df.head(PREVIEW_ROWS)
head(frame) == SubSeq(frame, 1, Min({PREVIEW_ROWS, Len(frame)}))

\* Any order DuckDB may give to rows that tie; the caller sees the first ones.
Executor ==
    /\ At("executor")
    /\ \E frame \in results(warehouse, payload.sql) :
          Emit([frame   |-> frame,
                data    |-> head(frame),
                columns |-> {"key", payload.sql.metric}])

CHART_BY_INTENT == [trend |-> "line", breakdown |-> "bar", top_n |-> "bar",
                    kpi |-> "metric"]

Chart == At("chart") /\ Emit([chart |-> CHART_BY_INTENT[payload.intent]])

ran(findings) == {findings[i].check : i \in DOMAIN findings}

evidenceOf(findings) ==
    [c \in ran(findings) |->
        findings[CHOOSE i \in DOMAIN findings : findings[i].check = c].evidence]

Reconciler ==
    /\ At("reconciler")
    /\ LET findings == audit(warehouse, payload.plan, payload.frame)
       IN Emit([verdict   |-> verdict(findings),
                checks    |-> findings,
                unchecked |-> skipped(payload.plan),
                evidence  |-> evidenceOf(findings)])

\* last[metric] > first[metric]; no comparison with NaN holds.
rises(frame) == frame[1].value # Null /\ Last(frame).value > frame[1].value

\* Fault: the visible rows are the denominator, as they were before the audit.
headline_VisibleRows(p, frame, evidence) ==
    IF p.intent = "kpi" THEN [says |-> "figure", leader |-> frame[1]]
    ELSE IF p.intent = "trend" THEN [says |-> "trend", up |-> rises(frame)]
    ELSE IF "population" \notin DOMAIN evidence \/ evidence["population"] = <<>>
    THEN [says |-> "leader", leader |-> frame[1]]
    ELSE [says |-> "share", leader |-> frame[1],
          members |-> evidence["population"].members_total,
          of |-> total(frame)]

\* _headline: a share of the population only if there is population evidence.
headline(p, frame, evidence) ==
    IF p.intent = "kpi" THEN [says |-> "figure", leader |-> frame[1]]
    ELSE IF p.intent = "trend" THEN [says |-> "trend", up |-> rises(frame)]
    ELSE IF "population" \notin DOMAIN evidence \/ evidence["population"] = <<>>
    THEN [says |-> "leader", leader |-> frame[1]]
    ELSE [says |-> "share", leader |-> frame[1],
          members |-> evidence["population"].members_total,
          of |-> evidence["population"].population_total]

\* _narrate
narrate ==
    IF payload.frame = <<>>
    THEN [headline |-> [says |-> "no rows"], caveats |-> {}]
    ELSE [headline |-> headline(payload.plan, payload.frame, payload.evidence),
          caveats  |-> warned(payload.checks)]

Narrator == At("narrator") /\ Emit([narrative |-> narrate])

\* Fault: the stage behind a halted one is skipped over.
PassThrough_Skips ==
    /\ response = None /\ next <= Len(AnalystPipe) /\ halted
    /\ next' = next + 2
    /\ UNCHANGED <<warehouse, question, payload, trace, error, response>>

\* A halted envelope flows through untouched.
PassThrough ==
    /\ response = None /\ next <= Len(AnalystPipe) /\ halted
    /\ next' = next + 1
    /\ UNCHANGED <<warehouse, question, payload, trace, error, response>>

Respond ==
    /\ response = None /\ next > Len(AnalystPipe)
    /\ response' = IF halted THEN "refused" ELSE "answered"
    /\ UNCHANGED <<warehouse, question, next, payload, trace, error>>

Next == Planner \/ SqlBuilder \/ Guardrail \/ Executor \/ Chart \/ Reconciler
        \/ Narrator \/ PassThrough \/ Respond

Spec == Init /\ [][Next]_vars

---------------------------------------------------------------------------
(* What the answer should be, from the question's plan and the rows alone. *)

p_ == payload.plan
frame_ == payload.frame
facts == warehouse.facts

Done(v) == response = "answered" /\ payload.verdict = v

\* The fact rows that belong to one key of the answer, without any join.
belonging(key) ==
    {i \in DOMAIN facts :
        IF p_.intent = "kpi" THEN TRUE
        ELSE IF p_.intent = "trend" THEN DATE_TRUNC(p_.grain, facts[i].day) = key
        ELSE IF p_.dimension = "segment"
        THEN \E j \in DOMAIN warehouse.customers :
                 /\ warehouse.customers[j].customer = facts[i].customer
                 /\ warehouse.customers[j].segment = key
        ELSE facts[i][p_.dimension] = key}

\* How far off a metric may be, times the number of rows it is taken over.
distance(value, rows) ==
    LET sum == amount(warehouse, rows \X {0})
        n   == Cardinality(rows)
        off == CASE p_.metric = "orders" -> value - ONE * n
                 [] p_.metric = "revenue" -> value - sum
                 [] p_.metric = "aov" -> value * n - sum
    IN IF off < 0 THEN -off ELSE off

\* Right to the cent: exact for orders, within half a cent otherwise; there is
\* no revenue and no average order value where there is no order at all.
isRight(row) ==
    LET rows == belonging(row.key)
    IN IF row.value = Null THEN rows = {} /\ p_.metric # "orders"
       ELSE distance(row.value, rows) <=
              CASE p_.metric = "orders" -> 0
                [] p_.metric = "revenue" -> 1
                [] p_.metric = "aov" -> Cardinality(rows)

members ==
    IF p_.dimension = "segment"
    THEN {warehouse.customers[j].segment : j \in DOMAIN warehouse.customers}
    ELSE {facts[i][p_.dimension] : i \in DOMAIN facts}

shownKeys == {frame_[i].key : i \in DOMAIN frame_}

value(rows) == METRIC_SQL(warehouse, p_.metric, rows \X {0})

\* One row for each customer, as make_warehouse.py numbers them.  Nothing in the
\* database keeps it so: dim_customers has no key.
Keyed ==
    \A i, j \in DOMAIN warehouse.customers :
       warehouse.customers[i].customer = warehouse.customers[j].customer => i = j

Undamaged ==
    /\ Keyed /\ facts # <<>>
    /\ orphans(warehouse) = {}
    /\ \A i \in DOMAIN facts : facts[i].revenue # Null /\ facts[i].day # Null
    /\ \A g \in Grains : Cardinality(periods(warehouse, g)) = calendar(warehouse, g)

CutByRowLimit == Cardinality(groups(warehouse, payload.sql)) > payload.sql.limit
                 /\ p_.intent # "top_n"

\* The pipe of stages without values, with every value replaced by the
\* position of the stage that sets it.
SetBy == [plan |-> 1, intent |-> 1, raw_sql |-> 2, sql |-> 3, frame |-> 4,
          columns |-> 4, data |-> 4, chart |-> 5, verdict |-> 6, checks |-> 6,
          unchecked |-> 6, evidence |-> 6, narrative |-> 7]

---------------------------------------------------------------------------
\* Every variable keeps to its type, and a query is never without a LIMIT.
TypeOK ==
    /\ \E c \in Cases : warehouse = c.warehouse /\ question = c.question
    /\ next \in 1..(Len(AnalystPipe) + 1)
    /\ DOMAIN payload \subseteq DOMAIN SetBy
    /\ "sql" \in DOMAIN payload => payload.sql.limit > 0
    /\ "verdict" \in DOMAIN payload =>
          payload.verdict \in {VERIFIED, QUALIFIED, UNVERIFIED}
    /\ error \in {AnalystPipe[i] : i \in DOMAIN AnalystPipe} \cup {None}
    /\ response \in {None, "answered", "refused"}

\* What "verified" promises of a warehouse with one row per customer, and where
\* its limits are.  Every figure shown is the question's own figure over the
\* facts that belong to it.  A trend has every period of the calendar, but for
\* one that a row of undated orders may stand in for.  A breakdown leaves out a
\* member that has orders only if the row limit cut it off (an aov breakdown
\* then says nothing of it), and of an additive metric no more than a cent a
\* row plus rounding.  A ranking leaves out nobody greater than those shown.
\* (Reconcilers: population, null_metric, join_integrity, continuity.)
VerifiedIsRight ==
    Done(VERIFIED) /\ Keyed =>
        /\ \A i \in DOMAIN frame_ : isRight(frame_[i])
        /\ p_.intent = "trend" =>
              LET due == Min(periods(warehouse, p_.grain))..
                         Max(periods(warehouse, p_.grain))
              IN Cardinality(due \ shownKeys) <= IF Null \in shownKeys THEN 1 ELSE 0
        /\ p_.intent = "breakdown" =>
              \A m \in members \ shownKeys : belonging(m) # {} => CutByRowLimit
        /\ p_.intent = "breakdown" /\ p_.metric \in ADDITIVE_METRICS =>
              LET lost == {i \in DOMAIN facts :
                             \A k \in shownKeys : i \notin belonging(k)}
              IN (IF p_.metric = "orders" THEN ONE * Cardinality(lost)
                  ELSE amount(warehouse, lost \X {0})) <= 3 * Len(frame_)
        /\ p_.intent = "top_n" =>
              \A m \in members \ shownKeys, i \in DOMAIN frame_ :
                 belonging(m) # {} => value(belonging(m)) <= frame_[i].value

\* An audit that cries wolf is not read: nothing is wrong with the warehouse
\* and the row limit cut nothing off, so no check warns.
NoFalseAlarm ==
    Done(QUALIFIED) => ~Undamaged \/ CutByRowLimit

\* "Across 2 segments, **smb** leads on revenue (600, 33% of the 1,800 warehouse
\* total).": the leader's figure is right, nobody is ahead of it, and the denominator is
\* the population's, however few rows are shown.
quoted == /\ response = "answered" /\ payload.narrative.caveats = {}
          /\ payload.narrative.headline.says = "share"

ShareHolds ==
    LET told == payload.narrative.headline
    IN /\ isRight(told.leader)
       /\ distance(told.of, DOMAIN facts) <= 1
       /\ told.leader.value <= told.of + 1
       /\ \A m \in members :
             belonging(m) # {} => value(belonging(m)) <= told.leader.value
       /\ told.members = Cardinality(members)

\* If every customer has one row, a share quoted without a caveat is the
\* leader's share of the whole warehouse.  (QuotedSharesAreRight is without
\* the condition, and does not hold.)
SharesAreDefended == quoted /\ Keyed => ShareHolds

\* "The narrator is then only allowed to claim what the reconciler could
\* verify" (README.md): whatever the tables hold, a share quoted without a
\* caveat is the leader's share.  A customer listed twice refutes it.
QuotedSharesAreRight == quoted => ShareHolds

\* The JSON encoder refuses a NaN: a verified answer over some facts holds none.
VerifiedIsServable ==
    Done(VERIFIED) /\ facts # <<>> =>
        \A i \in DOMAIN payload.data : payload.data[i].value # Null

\* A breakdown or a ranking by an additive metric never passes for more than the
\* warehouse has, be it because a join multiplies facts.  (What is shown may be
\* too much and still less than the whole: QuotedSharesAreRight.  A trend has
\* no population to compare with: over the segment join it counts the facts of
\* a customer listed twice twice, and is verified.)
OvercountIsFlagged ==
    response = "answered" /\ p_.metric \in ADDITIVE_METRICS
    /\ p_.intent \in {"breakdown", "top_n"} =>
        LET pairs   == {p \in source(warehouse, payload.sql.join) :
                          bucket(warehouse, payload.sql.group, p) \in shownKeys}
            counted == IF p_.metric = "orders" THEN ONE * Cardinality(pairs)
                       ELSE amount(warehouse, pairs)
            all     == IF p_.metric = "orders" THEN ONE * Len(facts)
                       ELSE amount(warehouse, (DOMAIN facts) \X {0})
        IN counted > all + 3 * Len(frame_) => payload.verdict = QUALIFIED

\* What comes back from the warehouse is bounded by the configuration, unless
\* the question itself asks for more.
FrameIsBounded ==
    "frame" \in DOMAIN payload => Len(frame_) <= Max({RowLimit, p_.top_n})

\* The audit's control as AskService has it (AuditPlan) is what the routing
\* and the arithmetic really do: the plans that reach it, the checks that
\* run, and the figures each of them asks for (a prefix, if it fails).  No
\* check that has something to say about the intent is passed over in silence:
\* it reported, or the answer lists it as unchecked.
AuditIsAsPlanned ==
    "verdict" \in DOMAIN payload =>
        /\ [k \in DOMAIN p_ \ {"top_n"} |-> p_[k]] \in Plans
        /\ [i \in DOMAIN payload.checks |-> payload.checks[i].check] = selected(p_)
        /\ \A i \in DOMAIN payload.checks :
              \E calls \in scalarCalls(payload.checks[i].check, p_) :
                 IsPrefix(payload.checks[i].calls, calls)
        /\ {c \in Checks : handles(c, p_.intent)} = ran(payload.checks) \cup payload.unchecked
        /\ ran(payload.checks) \cap payload.unchecked = {}

Pipe == INSTANCE Pipeline WITH
    Topologies <- {AnalystPipe},
    filters <- AnalystPipe,
    payload <- [k \in DOMAIN SetBy |-> IF k \in DOMAIN payload THEN SetBy[k] ELSE 0]

\* The stages with their values implement the stages without.
PipeIsImplemented == Pipe!Spec
=============================================================================
