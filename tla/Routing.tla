------------------------------ MODULE Routing ------------------------------
(***************************************************************************)
(* From the words of a question to a governed query: agents/planner.py and *)
(* agents/sqlbuilder.py.  No state.                                        *)
(*                                                                         *)
(* A question is the set of keyword classes it contains; a query is what   *)
(* the SQL text says: the aggregate, the join, the grouping, the order and *)
(* the LIMIT.                                                              *)
(***************************************************************************)
EXTENDS Integers, Sequences, AuditPlan

\* METRICS and DIMENSIONS are searched in this order.
METRIC_ORDER    == <<"revenue", "orders", "aov">>
DIMENSION_ORDER == <<"region", "category", "segment">>

\* TREND_WORDS by the grain they ask for; "month" alone asks for no trend.
MONTHLY_WORDS == {"trend", "over time", "monthly", "by month"}
DAILY_WORDS   == {"daily", "by day", "over the year"}
PeriodWords   == MONTHLY_WORDS \cup DAILY_WORDS \cup {"month"}

NoNumber == -1   \* TOPN_RE does not match

\* "top" and "most" are the two words of rank.
QuestionOK(q) ==
    /\ q.metrics \subseteq Metrics
    /\ q.dimensions \subseteq Dimensions
    /\ q.period \subseteq PeriodWords
    /\ q.rank \in BOOLEAN
    /\ q.number = NoNumber \/ q.number \in Nat

\* next((m for m in order if any(k in q ...)), default)
firstOf(order, found, default) ==
    IF found = {} THEN default
    ELSE order[CHOOSE i \in DOMAIN order :
                 order[i] \in found /\ \A j \in 1..(i - 1) : order[j] \notin found]

\* A top_n of 0 stands for None too: both mean no LIMIT to build_sql.
plan(q) ==
    LET dimension == firstOf(DIMENSION_ORDER, q.dimensions, NoDimension)
        ranked    == q.rank /\ dimension # NoDimension
        intent    == IF q.number # NoNumber \/ ranked THEN "top_n"
                     ELSE IF q.period \ {"month"} # {} THEN "trend"
                     ELSE IF dimension # NoDimension THEN "breakdown" ELSE "kpi"
    IN [intent    |-> intent,
        metric    |-> firstOf(METRIC_ORDER, q.metrics, "revenue"),
        dimension |-> dimension,
        top_n     |-> IF intent # "top_n" THEN 0
                      ELSE IF q.number # NoNumber THEN q.number ELSE 5,
        grain     |-> IF q.period \cap (MONTHLY_WORDS \cup {"month"}) # {}
                      THEN "month" ELSE "day"]

\* build_sql does not raise: there is something to group by.
accepts(p) == p.intent \in {"kpi", "trend"} \/ p.dimension # NoDimension

\* A LIMIT of 0 is no LIMIT clause.
build_sql(p) ==
    [root   |-> "Select",
     nodes  |-> {"Select"},
     metric |-> p.metric,
     join   |-> p.dimension = "segment",
     group  |-> CASE p.intent = "kpi" -> "nothing"
                  [] p.intent = "trend" -> p.grain
                  [] OTHER -> p.dimension,
     order  |-> CASE p.intent = "kpi" -> "none"
                  [] p.intent = "trend" -> "period"
                  [] OTHER -> "metric",
     limit  |-> IF p.intent = "top_n" THEN p.top_n ELSE 0]

FORBIDDEN == {"Insert", "Update", "Delete", "Drop", "Create", "Alter", "Command"}

\* One statement, a SELECT at its root, nothing forbidden anywhere in the tree.
\* (Text that does not parse has no statement.)
governed(statements) ==
    /\ Len(statements) = 1
    /\ statements[1].root = "Select"
    /\ statements[1].nodes \cap FORBIDDEN = {}

\* Fault: no LIMIT is injected.
guard_sql_NoLimit(statements, row_limit) ==
    [ok |-> governed(statements), sql |-> statements[1]]

guard_sql(statements, row_limit) ==
    IF ~governed(statements) THEN [ok |-> FALSE, sql |-> statements]
    ELSE [ok |-> TRUE, sql |-> IF statements[1].limit # 0 THEN statements[1]
                               ELSE [statements[1] EXCEPT !.limit = row_limit]]
=============================================================================
