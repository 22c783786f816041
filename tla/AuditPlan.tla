----------------------------- MODULE AuditPlan -----------------------------
(***************************************************************************)
(* Which cross-checks settle an answer, and which population figures each  *)
(* of them asks the warehouse for: orchestrator/planner.py over the four   *)
(* reconcilers of agents/reconcilers.py.  No state: the audit's control.   *)
(***************************************************************************)
EXTENDS Naturals, Sequences

Intents    == {"kpi", "breakdown", "trend", "top_n"}
Metrics    == {"revenue", "orders", "aov"}
Dimensions == {"region", "category", "segment"}
Grains     == {"month", "day"}
NoDimension == "no dimension"

ADDITIVE_METRICS == {"revenue", "orders"}

\* The plans that reach the audit: build_sql refuses a top_n without a
\* dimension, and plan() calls a question with a dimension anything but kpi.
Plans == {p \in [intent : Intents, metric : Metrics,
                 dimension : Dimensions \cup {NoDimension}, grain : Grains] :
            /\ p.intent = "kpi" => p.dimension = NoDimension
            /\ p.intent \in {"breakdown", "top_n"} => p.dimension # NoDimension}

Checks == {"population", "null_metric", "join_integrity", "continuity"}

\* Reconciler.handles: a check that names no intents handles them all.
handles(check, intent) ==
    CASE check = "population" -> intent \in {"breakdown", "top_n"}
      [] check = "continuity" -> intent = "trend"
      [] OTHER -> TRUE

\* skip_reason(ctx) is not None.
declines(check, p) ==
    CASE check = "population" -> p.metric \notin ADDITIVE_METRICS
                                 \/ p.dimension = NoDimension
      [] check = "null_metric" -> p.metric = "orders"
      [] check = "join_integrity" -> p.dimension # "segment"
      [] OTHER -> FALSE

OnlyIf(condition, check) == IF condition THEN <<check>> ELSE <<>>

runs(check, p) == handles(check, p.intent) /\ ~declines(check, p)

\* AuditPlanner.plan(...).selected, in the order of build_reconcilers().
selected(p) ==
    OnlyIf(runs("population", p), "population")
    \o OnlyIf(runs("null_metric", p), "null_metric")
    \o OnlyIf(runs("join_integrity", p), "join_integrity")
    \o OnlyIf(runs("continuity", p), "continuity")

\* AuditPlan.skipped: the candidates that decline.  A check that does not
\* handle the intent is none, and is not mentioned.
skipped(p) == {c \in Checks : handles(c, p.intent) /\ declines(c, p)}

---------------------------------------------------------------------------
\* The distinct scalar queries of the reconcilers, named for what they count.
Sqls == {"revenue_total", "fact_rows", "null_rows", "orphan_rows",
         "members_region", "members_category", "members_segment",
         "calendar_month", "calendar_day"}

MEMBER_SOURCE == [region |-> "members_region", category |-> "members_category",
                  segment |-> "members_segment"]

POPULATION_SQL == [revenue |-> "revenue_total", orders |-> "fact_rows"]

\* The scalar() calls one check makes, in order.  Only null_metric branches:
\* it asks for the total as well when the metric is aov and there are NULLs.
scalarCalls(check, p) ==
    CASE check = "population" ->
           {<<POPULATION_SQL[p.metric], MEMBER_SOURCE[p.dimension]>>}
      [] check = "null_metric" ->
           {<<"fact_rows", "null_rows">>}
           \cup (IF p.metric = "aov"
                 THEN {<<"fact_rows", "null_rows", "revenue_total">>} ELSE {})
      [] check = "join_integrity" -> {<<"fact_rows", "orphan_rows">>}
      [] check = "continuity" ->
           {<<IF p.grain = "month" THEN "calendar_month" ELSE "calendar_day">>}

\* The queries that are NULL where there is nothing to add up or to span.
NullableSqls == {"revenue_total", "calendar_month", "calendar_day"}

\* How many of the warehouse's tables must exist for a query to bind:
\* dim_customers is the first one written, fact_orders the last.
tablesRead(sql) == IF sql = "members_segment" THEN 1 ELSE 3
=============================================================================
