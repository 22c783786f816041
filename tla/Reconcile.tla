----------------------------- MODULE Reconcile -----------------------------
(***************************************************************************)
(* The four cross-checks of agents/reconcilers.py with their arithmetic,   *)
(* and orchestrator/executor.py's fold of their findings into a verdict.   *)
(* No state: AskService has the interleavings, this has the numbers.       *)
(***************************************************************************)
EXTENDS StarSchema

OK   == "ok"
WARN == "warn"

\* _run_one on a check that raised: float(None), int(None).
couldNotRun(check, calls) ==
    [check |-> check, status |-> WARN, calls |-> calls, evidence |-> <<>>]

finding(check, warns, calls, evidence) ==
    [check |-> check, status |-> IF warns THEN WARN ELSE OK, calls |-> calls,
     evidence |-> evidence]

total(frame) ==
    MapThenSumSet(LAMBDA i : frame[i].value, {i \in DOMAIN frame : frame[i].value # Null})

\* Fault: no allowance for the rounding of the groups.
tolerance_None(frame) == 0

\* One cent for each row shown.
tolerance(frame) == 2 * (IF frame = <<>> THEN 1 ELSE Len(frame))

\* Only a top_n may leave members out.  (The frame's keys are distinct, so
\* nunique() is its length.)
isTruncated(p, frame, members) == p.intent = "top_n" /\ Len(frame) < members

\* Fault: a truncated answer passes before the overcount is looked for.
disagrees_TruncatedFirst(shown, figure, slack, truncated) ==
    ~truncated /\ (shown > figure + slack \/ shown < figure - slack)

\* Fault: nobody looks for members that are missing.
disagrees_OnlyOver(shown, figure, slack, truncated) == shown > figure + slack

disagrees(shown, figure, slack, truncated) ==
    \/ shown > figure + slack
    \/ ~truncated /\ shown < figure - slack

population(w, p, frame) ==
    LET calls     == <<POPULATION_SQL[p.metric], MEMBER_SOURCE[p.dimension]>>
        read      == scalar(w, calls[1])
        figure    == IF p.metric = "orders" THEN ONE * read ELSE read
        members   == scalar(w, calls[2])
        truncated == isTruncated(p, frame, members)
    IN IF read = Null THEN couldNotRun("population", <<calls[1]>>)
       ELSE finding("population",
                    disagrees(total(frame), figure, tolerance(frame), truncated),
                    calls,
                    [population_total |-> ROUND(figure, 1),
                     members_total |-> members, truncated |-> truncated])

\* Fault: only an aov asks for NULLs.
null_metric_AovOnly(w, p, frame) ==
    LET nulls == scalar(w, "null_rows")
    IN finding("null_metric", nulls # 0 /\ p.metric = "aov",
               <<"fact_rows", "null_rows">>
               \o OnlyIf(nulls # 0 /\ p.metric = "aov", "revenue_total"), <<>>)

\* Fault: the total is asked for whenever there are NULLs.
null_metric_AlwaysTotal(w, p, frame) ==
    LET nulls == scalar(w, "null_rows")
    IN finding("null_metric", nulls # 0,
               <<"fact_rows", "null_rows">> \o OnlyIf(nulls # 0, "revenue_total"), <<>>)

null_metric(w, p, frame) ==
    LET nulls == scalar(w, "null_rows")
    IN finding("null_metric", nulls # 0,
               <<"fact_rows", "null_rows">>
               \o OnlyIf(nulls # 0 /\ p.metric = "aov", "revenue_total"), <<>>)

join_integrity(w, p, frame) ==
    finding("join_integrity", scalar(w, "orphan_rows") # 0,
            <<"fact_rows", "orphan_rows">>, <<>>)

continuity(w, p, frame) ==
    LET sql      == IF p.grain = "month" THEN "calendar_month" ELSE "calendar_day"
        expected == scalar(w, sql)
    IN IF expected = Null THEN couldNotRun("continuity", <<sql>>)
       ELSE finding("continuity", Len(frame) < expected, <<sql>>, <<>>)

\* audit.selected, each run on the frame.
audit(w, p, frame) ==
    [i \in DOMAIN selected(p) |->
        CASE selected(p)[i] = "population" -> population(w, p, frame)
          [] selected(p)[i] = "null_metric" -> null_metric(w, p, frame)
          [] selected(p)[i] = "join_integrity" -> join_integrity(w, p, frame)
          [] selected(p)[i] = "continuity" -> continuity(w, p, frame)]

warned(findings) == {findings[i].check : i \in {i \in DOMAIN findings :
                                                  findings[i].status = WARN}}

VERIFIED   == "verified"
QUALIFIED  == "qualified"
UNVERIFIED == "unverified"

verdict(findings) == IF warned(findings) # {} THEN QUALIFIED
                     ELSE IF findings # <<>> THEN VERIFIED ELSE UNVERIFIED
=============================================================================
