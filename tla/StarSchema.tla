----------------------------- MODULE StarSchema ----------------------------
(***************************************************************************)
(* What DuckDB returns for the queries of this program over one warehouse: *)
(* the aggregates of METRIC_SQL, the inner join, the grouping, the order   *)
(* and the LIMIT that agents/sqlbuilder.py writes, and the population      *)
(* figures of agents/reconcilers.py.                                       *)
(*                                                                         *)
(* A warehouse w has w.facts, a sequence of rows of fact_orders, and       *)
(* w.customers, a sequence of rows of dim_customers.  All amounts are in   *)
(* half cents, so that rounding to cents can be seen; one order counts as  *)
(* a dollar, as it does for the tolerance of the population check.         *)
(***************************************************************************)
EXTENDS Integers, Sequences, SequencesExt, AuditPlan

CONSTANT DaysPerMonth   \* bound: a short calendar

ASSUME DaysPerMonthAssumption == DaysPerMonth \in Nat \ {0}

Null == -1   \* SQL's NULL, among amounts and days that are never negative
ONE  == 200

\* Both tables have so many rows.
WarehouseOK(w) ==
    /\ w.facts \in Seq(Range(w.facts)) /\ w.customers \in Seq(Range(w.customers))
    /\ \A i \in DOMAIN w.facts : {w.facts[i].revenue, w.facts[i].day} \subseteq Nat \cup {Null}

DATE_TRUNC(grain, day) ==
    IF grain = "month" /\ day # Null THEN day \div DaysPerMonth ELSE day

\* The rows of FROM fact_orders o [JOIN dim_customers c ON ...], as pairs of
\* row numbers: a fact matches every row of its customer, or none.
source(w, join) ==
    IF join
    THEN {p \in (DOMAIN w.facts) \X (DOMAIN w.customers) :
            w.facts[p[1]].customer = w.customers[p[2]].customer}
    ELSE (DOMAIN w.facts) \X {0}

priced(w, pairs) == {p \in pairs : w.facts[p[1]].revenue # Null}

amount(w, pairs) == MapThenSumSet(LAMBDA p : w.facts[p[1]].revenue, priced(w, pairs))

SUM(w, pairs) == IF priced(w, pairs) = {} THEN Null ELSE amount(w, pairs)

\* ROUND(total / n, 2)
ROUND(total, n) == 2 * ((total + n) \div (2 * n))

\* METRIC_SQL
METRIC_SQL(w, metric, pairs) ==
    IF metric = "orders" THEN ONE * Cardinality(pairs)
    ELSE IF SUM(w, pairs) = Null THEN Null
    ELSE ROUND(SUM(w, pairs), IF metric = "revenue" THEN 1 ELSE Cardinality(pairs))

\* The value of the GROUP BY expression.
bucket(w, group, p) ==
    CASE group = "nothing" -> "all"
      [] group \in Grains -> DATE_TRUNC(group, w.facts[p[1]].day)
      [] group = "segment" -> w.customers[p[2]].segment
      [] OTHER -> w.facts[p[1]][group]

\* An aggregate without GROUP BY gives one row even over nothing.
groups(w, query) ==
    LET pairs   == source(w, query.join)
        buckets == IF query.group = "nothing" THEN {"all"}
                   ELSE {bucket(w, query.group, p) : p \in pairs}
    IN {[key   |-> b,
         value |-> METRIC_SQL(w, query.metric,
                              {p \in pairs : bucket(w, query.group, p) = b})] :
        b \in buckets}

\* ORDER BY period, ORDER BY <metric> DESC; NULLs come last in both.
inOrder(order, a, b) ==
    CASE order = "period" -> b.key = Null \/ (a.key # Null /\ a.key <= b.key)
      [] order = "metric" -> a.value >= b.value
      [] OTHER -> TRUE

\* Every result the query may have: nothing orders rows that tie.
results(w, query) ==
    {SubSeq(s, 1, IF query.limit # 0 THEN Min({query.limit, Len(s)}) ELSE Len(s)) :
        s \in {s \in SetToSeqs(groups(w, query)) :
                 \A i, j \in DOMAIN s : i < j => inOrder(query.order, s[i], s[j])}}

---------------------------------------------------------------------------
orphans(w) ==
    {i \in DOMAIN w.facts :
        \A j \in DOMAIN w.customers : w.customers[j].customer # w.facts[i].customer}

periods(w, grain) ==
    {DATE_TRUNC(grain, w.facts[i].day) : i \in DOMAIN w.facts} \ {Null}

\* DATE_DIFF(grain, MIN(order_date), MAX(order_date)) + 1
calendar(w, grain) ==
    IF periods(w, grain) = {} THEN Null
    ELSE Max(periods(w, grain)) - Min(periods(w, grain)) + 1

\* The scalar queries of the reconcilers, by their names in AuditPlan.
scalar(w, sql) ==
    CASE sql = "revenue_total" -> SUM(w, source(w, FALSE))
      [] sql = "fact_rows" -> Len(w.facts)
      [] sql = "null_rows" -> Len(w.facts) - Cardinality(priced(w, source(w, FALSE)))
      [] sql = "orphan_rows" -> Cardinality(orphans(w))
      [] sql = "members_region" -> Cardinality({w.facts[i].region : i \in DOMAIN w.facts})
      [] sql = "members_category" -> Cardinality({w.facts[i].category : i \in DOMAIN w.facts})
      [] sql = "members_segment" ->
            Cardinality({w.customers[j].segment : j \in DOMAIN w.customers})
      [] sql = "calendar_month" -> calendar(w, "month")
      [] sql = "calendar_day" -> calendar(w, "day")
=============================================================================
