--------------------------- MODULE MCAskService ----------------------------
(* Small instances of AskService for TLC. *)
EXTENDS AskInvariant, TLC

Symmetric == Permutations(Requests)

Asking(i, m, d) == [intent |-> i, metric |-> m, dimension |-> d, grain |-> "day"]

\* "Orders over time by segment": two checks, three figures.
SegmentQuestion == {Asking("trend", "orders", "segment")}

\* "Revenue by segment": three checks.  The first may meet a NULL between its
\* two figures, the second of which is the one that a half-built warehouse can
\* give.  "Average order value": the only check may need a third figure.
TwoQuestions == {Asking("breakdown", "revenue", "segment"),
                 Asking("kpi", "aov", NoDimension)}

\* "Revenue": one check, two figures.
OneQuestion == {Asking("kpi", "revenue", NoDimension)}

\* "Orders over time by day": the shortest audit, one check and one figure.
ShortQuestion == {Asking("trend", "orders", NoDimension)}
=============================================================================
