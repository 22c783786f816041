--------------------------- MODULE VerdictProofs ----------------------------
(***************************************************************************)
(* What the verdict promises: that nobody is counted twice unnoticed, that *)
(* a verified answer is right, that a share quoted without a caveat can be *)
(* defended, and that no alarm is false.                                   *)
(***************************************************************************)
EXTENDS FigureProofs

\* Nothing counts nothing.
LEMMA CountedNone == ASSUME WarehouseOK(warehouse) PROVE counted({}) = 0
<1>1. amount(warehouse, {}) = 0
  BY AmountOfNone DEF priced
<1>2. ONE * Cardinality({}) = 0
  BY FS_EmptySet DEF ONE
<1>3. QED
  BY <1>1, <1>2 DEF counted

\* A cent for each row shown.
LEMMA AllowanceIs ==
    ASSUME AnswerInv, delivered(4)
    PROVE  /\ Len(frame_) \in Nat /\ allowance \in Nat /\ Len(frame_) <= allowance
           /\ frame_ = <<>> => Len(frame_) = 0
           /\ frame_ # <<>> => Len(frame_) # 0 /\ allowance = 2 * Len(frame_)
BY FrameKnown DEF allowance, tolerance

\* Every additive answer about members is checked against the population.
LEMMA PopulationRuns ==
    ASSUME AnswerInv, delivered(4), Additive, p_.intent \in {"breakdown", "top_n"}
    PROVE  runs("population", p_) /\ "population" \in Checks
<1>1. p_.dimension # NoDimension
  BY FrameKnown, QueryKnown DEF PlanOK, accepts
<1>2. QED
  BY <1>1 DEF runs, handles, declines, Checks, Additive

\* An answer is qualified if and only if some check warned.
LEMMA VerdictIs ==
    ASSUME delivered(6)
    PROVE  payload.verdict = QUALIFIED <=> warned(payload.checks) # {}
BY DEF delivered, verdict, VERIFIED, QUALIFIED, UNVERIFIED

\* reconcilers.py, PopulationReconciler: a breakdown or a ranking by an additive
\* metric that goes beyond what the warehouse has, because a join multiplied
\* facts, is found out, whatever it leaves out elsewhere.
THEOREM OvercountFlagged == Spec => []OvercountIsFlagged
<1>1. AnswerInv => OvercountIsFlagged
  <2> SUFFICES ASSUME AnswerInv, response = "answered", Additive,
                      p_.intent \in {"breakdown", "top_n"},
                      counted(behind) > counted(everyone) + 3 * Len(frame_)
               PROVE  payload.verdict = QUALIFIED
    <3> SUFFICES ASSUME AnswerInv, response = "answered", Additive,
                        p_.intent \in {"breakdown", "top_n"}
                 PROVE  LET pairs == behind
                            here  == IF p_.metric = "orders" THEN ONE * Cardinality(pairs)
                                     ELSE amount(warehouse, pairs)
                            all   == IF p_.metric = "orders" THEN ONE * Len(facts)
                                     ELSE amount(warehouse, (DOMAIN facts) \X {0})
                        IN here > all + 3 * Len(frame_) => payload.verdict = QUALIFIED
      BY Zenon DEF OvercountIsFlagged, behind, Additive
    <3>1. WarehouseOK(warehouse)
      BY AnsweredKnown, FrameKnown
    <3>2. counted(everyone) = IF p_.metric = "orders" THEN ONE * Len(facts)
                              ELSE amount(warehouse, (DOMAIN facts) \X {0})
      BY <3>1, EveryoneOK DEF counted, everyone
    <3>3. QED
      BY <3>2 DEF counted
  <2>1. delivered(4) /\ delivered(6)
    BY AnsweredKnown
  <2>2. WarehouseOK(warehouse)
    BY <2>1, FrameKnown
  <2>3. /\ total(frame_) \in Int /\ counted(behind) \in Nat
        /\ counted(behind) <= total(frame_) + Len(frame_)
    BY <2>1, TotalNear
  <2>4. counted(everyone) \in Nat
    BY <2>2, EveryoneOK, CountedIsNat
  <2>5. frame_ # <<>>
    <3> SUFFICES ASSUME frame_ = <<>> PROVE FALSE
      OBVIOUS
    <3>1. Len(frame_) = 0 /\ DOMAIN frame_ = {}
      BY <2>1, AllowanceIs, FrameKnown
    <3>2. behind = {}
      BY <2>1, <3>1, BehindParts
    <3>3. counted(behind) = 0
      BY <2>2, <3>2, CountedNone, Zenon
    <3>4. QED
      BY <2>4, <3>1, <3>3
  <2>6. allowance = 2 * Len(frame_) /\ Len(frame_) \in Nat
    BY <2>1, <2>5, AllowanceIs
  <2>7. total(frame_) > counted(everyone) + allowance
    BY <2>3, <2>4, <2>6
  <2>8. populationFinds.status = WARN
    <3>1. \A cut : disagrees(total(frame_), counted(everyone), allowance, cut)
      BY <2>7 DEF disagrees
    <3>2. QED
      BY <2>1, <3>1, PopulationIs
  <2>9. warned(payload.checks) # {}
    BY <2>1, <2>8, PopulationRuns, NoneWarned DEF foundBy, populationFinds
  <2>10. QED
    BY <2>1, <2>9, VerdictIs
<1>2. QED
  BY <1>1, AnswerHolds, PTL

---------------------------------------------------------------------------
(* Nobody is lost.                                                         *)

\* A count over rows that are there once does not depend on the join.
LEMMA CountedByRows ==
    ASSUME WarehouseOK(warehouse), NEW pairs, PairsOK(warehouse, pairs),
           OncePerFact(pairs), NEW rows, rows = {p[1] : p \in pairs}
    PROVE  counted(pairs) = counted(rows \X {0})
<1> DEFINE Q == rows \X {0}
<1>1. /\ rows \subseteq DOMAIN facts
      /\ Cardinality(pairs) = Cardinality(rows)
      /\ amount(warehouse, pairs) = SumOf(revenues(warehouse), pricedRows(warehouse, rows))
  BY ByRows DEF facts
<1>2. /\ PairsOK(warehouse, Q) /\ OncePerFact(Q) /\ rows = {p[1] : p \in Q}
      /\ Cardinality(Q) = Cardinality(rows)
  BY <1>1, RowsAsPairs DEF facts
<1> HIDE DEF Q
<1>3. amount(warehouse, Q) = SumOf(revenues(warehouse), pricedRows(warehouse, rows))
  BY <1>2, ByRows
<1>4. counted(pairs) = counted(Q)
  BY <1>1, <1>2, <1>3 DEF counted
<1>5. QED
  BY <1>4 DEF Q

\* If customers are keyed, no join counts a fact twice.
LEMMA SourceOnce ==
    ASSUME Keyed, NEW join
    PROVE  OncePerFact(source(warehouse, join))
<1> SUFFICES ASSUME NEW p \in source(warehouse, join), NEW q \in source(warehouse, join),
                    p[1] = q[1]
             PROVE  p = q
  BY DEF OncePerFact
<1>1. CASE join
  BY <1>1 DEF source, Keyed
<1>2. CASE ~join
  BY <1>2 DEF source
<1>3. QED
  BY <1>1, <1>2

\* If nobody is orphaned, no join loses a fact.
LEMMA SourceFacts ==
    ASSUME NEW join, orphans(warehouse) = {} \/ ~join
    PROVE  DOMAIN facts = {p[1] : p \in source(warehouse, join)}
<1>1. CASE join
  <2>1. ASSUME NEW i \in DOMAIN facts
        PROVE  \E p \in source(warehouse, join) : p[1] = i
    <3>1. PICK j \in DOMAIN warehouse.customers :
             warehouse.customers[j].customer = facts[i].customer
      BY <1>1 DEF orphans, facts
    <3>2. <<i, j>> \in source(warehouse, join) /\ <<i, j>>[1] = i
      BY <1>1, <3>1 DEF source, facts
    <3>3. QED
      BY <3>2
  <2>2. \A p \in source(warehouse, join) : p[1] \in DOMAIN facts
    BY <1>1 DEF source, facts
  <2>3. QED
    BY <2>1, <2>2
<1>2. CASE ~join
  <2>1. source(warehouse, join) = (DOMAIN facts) \X {0}
    BY <1>2 DEF source, facts
  <2>2. \A i \in DOMAIN facts : <<i, 0>> \in source(warehouse, join) /\ <<i, 0>>[1] = i
    BY <2>1
  <2>3. \A p \in source(warehouse, join) : p[1] \in DOMAIN facts
    BY <2>1
  <2>4. QED
    BY <2>2, <2>3
<1>3. QED
  BY <1>1, <1>2

\* Over some facts there is something to show.
LEMMA SomethingShown ==
    ASSUME AnswerInv, delivered(4), facts # <<>>,
           p_.dimension = "segment" => orphans(warehouse) = {}
    PROVE  Len(frame_) \in Nat /\ Len(frame_) # 0 /\ frame_ # <<>>
<1> DEFINE S == source(warehouse, payload.sql.join)
           B == bucketsOf(warehouse, payload.sql)
           all == groups(warehouse, payload.sql)
<1>1. /\ WarehouseOK(warehouse) /\ frame_ \in results(warehouse, payload.sql)
      /\ Len(frame_) \in Nat /\ DOMAIN frame_ = 1..Len(frame_)
      /\ payload.sql.limit \in Nat \ {0} /\ payload.sql.join = (p_.dimension = "segment")
  BY FrameKnown, QueryKnown
<1>2. DOMAIN facts = {p[1] : p \in S}
  BY <1>1, SourceFacts
<1>3. DOMAIN facts # {}
  <2>1. facts \in Seq(Range(facts)) /\ DOMAIN facts = 1..Len(facts) /\ Len(facts) \in Nat
    BY <1>1, Tables DEF facts, WarehouseOK
  <2>2. Len(facts) # 0
    BY <2>1
  <2>3. 1 \in 1..Len(facts)
    BY <2>1, <2>2
  <2>4. QED
    BY <2>1, <2>3
<1>4. S # {}
  BY <1>2, <1>3
<1>5. B # {}
  BY <1>4 DEF bucketsOf
<1>6. all # {} /\ IsFiniteSet(all)
  BY <1>1, <1>5, GroupsAre, GroupsFinite
<1>7. Cardinality(all) \in Nat \ {0}
  BY <1>6, FS_EmptySet, FS_CardinalityType
<1>8. Len(frame_) = IF payload.sql.limit <= Cardinality(all) THEN payload.sql.limit
                    ELSE Cardinality(all)
  <2> HIDE DEF all
  <2>1. all = groups(warehouse, payload.sql)
    BY DEF all
  <2>2. QED
    BY <1>1, <2>1, ResultsAre
<1>9. Len(frame_) # 0
  BY <1>1, <1>7, <1>8
<1>10. QED
  BY <1>1, <1>9

\* The rows behind an answer, each once.
LEMMA BehindRows ==
    ASSUME AnswerInv, delivered(4), Keyed, NothingLost,
           p_.intent # "kpi", NEW rows,
           rows = {i \in DOMAIN facts : \E k \in shownKeys : i \in belonging(k)}
    PROVE  OncePerFact(behind) /\ rows = {p[1] : p \in behind}
<1>1. OncePerFact(behind)
  BY SourceOnce DEF OncePerFact, behind
<1>2. \A k \in shownKeys :
         /\ belonging(k) \subseteq DOMAIN facts
         /\ belonging(k) = {p[1] : p \in pairsOf(warehouse, payload.sql, k)}
  BY BelongingIs
<1>3. \A k \in shownKeys : \A p \in source(warehouse, payload.sql.join) :
         p \in pairsOf(warehouse, payload.sql, k)
            <=> bucket(warehouse, payload.sql.group, p) = k
  BY DEF pairsOf
<1>4. \A k : pairsOf(warehouse, payload.sql, k) \subseteq source(warehouse, payload.sql.join)
  BY DEF pairsOf
<1>5. ASSUME NEW i \in rows PROVE i \in {p[1] : p \in behind}
  <2>1. PICK k \in shownKeys : i \in belonging(k)
    OBVIOUS
  <2>2. PICK p \in pairsOf(warehouse, payload.sql, k) : i = p[1]
    BY <1>2, <2>1
  <2>3. p \in behind
    BY <1>3, <1>4, <2>2 DEF behind
  <2>4. QED
    BY <2>2, <2>3
<1>6. ASSUME NEW p \in behind PROVE p[1] \in rows
  <2>1. PICK k \in shownKeys : bucket(warehouse, payload.sql.group, p) = k
    BY DEF behind
  <2>2. p \in pairsOf(warehouse, payload.sql, k)
    BY <1>3, <2>1 DEF behind
  <2>3. p[1] \in belonging(k)
    BY <1>2, <2>2
  <2>4. QED
    BY <1>2, <2>3
<1>7. QED
  BY <1>1, <1>5, <1>6

\* A breakdown loses no more than the rounding.
LEMMA LittleIsLost ==
    ASSUME AnswerInv, delivered(6), Keyed, warned(payload.checks) = {}, Additive,
           p_.intent = "breakdown", NEW lost,
           lost = {i \in DOMAIN facts : \A k \in shownKeys : i \notin belonging(k)}
    PROVE  /\ counted(lost \X {0}) <= 3 * Len(frame_)
           /\ Cardinality(lost \X {0}) = Cardinality(lost)
<1> SUFFICES ASSUME facts # <<>>
             PROVE  /\ counted(lost \X {0}) <= 3 * Len(frame_)
                    /\ Cardinality(lost \X {0}) = Cardinality(lost)
  <2> SUFFICES ASSUME facts = <<>>
               PROVE  /\ counted(lost \X {0}) <= 3 * Len(frame_)
                      /\ Cardinality(lost \X {0}) = Cardinality(lost)
    OBVIOUS
  <2>1. lost = {} /\ lost \X {0} = {}
    OBVIOUS
  <2>2. WarehouseOK(warehouse) /\ Len(frame_) \in Nat
    BY FrameKnown, DeliveredBefore
  <2>3. counted({}) = 0
    BY <2>2, CountedNone
  <2>4. QED
    BY <2>1, <2>2, <2>3
<1> DEFINE rows == {i \in DOMAIN facts : \E k \in shownKeys : i \in belonging(k)}
<1>1. delivered(4) /\ WarehouseOK(warehouse) /\ NothingLost
  BY DeliveredBefore, FrameKnown DEF NothingLost
<1>2. /\ rows \subseteq DOMAIN facts /\ lost \subseteq DOMAIN facts
      /\ DOMAIN facts = rows \cup lost /\ rows \cap lost = {}
  OBVIOUS
<1>3. OncePerFact(behind) /\ rows = {p[1] : p \in behind}
  <2> HIDE DEF rows
  <2>1. rows = {i \in DOMAIN facts : \E k \in shownKeys : i \in belonging(k)}
    BY DEF rows
  <2>2. QED
    BY <1>1, <2>1, BehindRows
<1> HIDE DEF rows
<1>4. /\ PairsOK(warehouse, rows \X {0}) /\ PairsOK(warehouse, lost \X {0})
      /\ Cardinality(lost \X {0}) = Cardinality(lost)
  BY <1>1, <1>2, RowsAsPairs DEF facts
<1>5. PairsOK(warehouse, behind)
  BY <1>1, BehindParts
<1>6. counted(behind) = counted(rows \X {0})
  BY <1>1, <1>3, <1>5, CountedByRows
<1>7. everyone = (rows \X {0}) \cup (lost \X {0}) /\ (rows \X {0}) \cap (lost \X {0}) = {}
  BY <1>2 DEF everyone
<1>8. counted((rows \X {0}) \cup (lost \X {0})) = counted(rows \X {0}) + counted(lost \X {0})
  BY <1>1, <1>4, <1>7, CountedSplit
<1>9. counted(everyone) = counted(rows \X {0}) + counted(lost \X {0})
  BY <1>7, <1>8, Zenon
<1>10. populationFinds.status # WARN
  BY <1>1, PopulationRuns, NoneWarned DEF foundBy, populationFinds
<1>11. ~disagrees(total(frame_), counted(everyone), allowance, FALSE)
  <2>1. (p_.intent = "top_n" /\ Len(frame_) < Cardinality(members)) = FALSE
    OBVIOUS
  <2>2. QED
    BY <1>1, <1>10, <2>1, PopulationIs
<1>12. /\ total(frame_) \in Int /\ counted(behind) \in Nat
       /\ total(frame_) <= counted(behind) + Len(frame_)
  BY <1>1, TotalNear
<1>13. counted(everyone) \in Nat /\ counted(rows \X {0}) \in Nat /\ counted(lost \X {0}) \in Nat
  BY <1>1, <1>4, EveryoneOK, CountedIsNat
<1>14. frame_ # <<>> /\ Len(frame_) \in Nat
  BY <1>1, NoOrphans, SomethingShown
<1>15. allowance = 2 * Len(frame_)
  BY <1>1, <1>14, AllowanceIs
<1>16. ~(total(frame_) < counted(everyone) - allowance)
  BY <1>11 DEF disagrees
<1>17. QED
  BY <1>4, <1>6, <1>9, <1>12, <1>13, <1>14, <1>15, <1>16

\* Whoever has facts is shown in a breakdown, unless the row limit cut it.
LEMMA ShownUnlessCut ==
    ASSUME AnswerInv, delivered(4), Keyed, p_.intent = "breakdown",
           NEW m, belonging(m) # {}, m \notin shownKeys
    PROVE  CutByRowLimit
<1> DEFINE row == rowOf(warehouse, payload.sql, m)
<1>1. row \in groups(warehouse, payload.sql) /\ row.key = m
  BY MemberIsGroup DEF rowOf
<1>2. \A i \in DOMAIN frame_ : frame_[i] # row
  BY <1>1 DEF shownKeys
<1> HIDE DEF row
<1>3. Cardinality(groups(warehouse, payload.sql)) > payload.sql.limit
  BY <1>1, <1>2, OrderKnown
<1>4. QED
  BY <1>3 DEF CutByRowLimit

\* reconcilers.py, what "verified" promises of every warehouse with one row per
\* customer, the empty one included: every figure is right to the cent, a trend
\* has every period but for one beside undated rows, a breakdown by any metric
\* leaves a member out only at the row limit, one by an additive metric loses
\* nothing beyond the rounding, and a ranking leaves nobody greater out.
THEOREM VerifiedCanBeTrusted == Spec => []VerifiedIsRight
<1>1. AnswerInv => VerifiedIsRight
  <2> SUFFICES ASSUME AnswerInv, Done(VERIFIED), Keyed
               PROVE  VerifiedIsRight
    BY DEF VerifiedIsRight
  <2>1. delivered(6) /\ delivered(4) /\ warned(payload.checks) = {}
    BY VerifiedKnown, DeliveredBefore
  <2>2. \A i \in DOMAIN frame_ : isRight(frame_[i])
    BY <2>1, ShownIsRight
  <2>3. ASSUME p_.intent = "trend",
               NEW due, due = Min(periods(warehouse, p_.grain))..
                              Max(periods(warehouse, p_.grain))
        PROVE  Cardinality(due \ shownKeys) <= IF Null \in shownKeys THEN 1 ELSE 0
    BY <2>1, <2>3, TrendIsComplete
  <2>4. ASSUME p_.intent = "breakdown", NEW m \in members \ shownKeys, belonging(m) # {}
        PROVE  CutByRowLimit
    BY <2>1, <2>4, ShownUnlessCut
  <2>5. ASSUME p_.intent = "breakdown", p_.metric \in ADDITIVE_METRICS, NEW lost,
               lost = {i \in DOMAIN facts : \A k \in shownKeys : i \notin belonging(k)}
        PROVE  (IF p_.metric = "orders" THEN ONE * Cardinality(lost)
                ELSE amount(warehouse, lost \X {0})) <= 3 * Len(frame_)
    <3>1. /\ counted(lost \X {0}) <= 3 * Len(frame_)
          /\ Cardinality(lost \X {0}) = Cardinality(lost)
      BY <2>1, <2>5, LittleIsLost DEF Additive
    <3>2. QED
      BY <3>1 DEF counted
  <2>6. ASSUME p_.intent = "top_n", NEW m \in members \ shownKeys, NEW i \in DOMAIN frame_,
               belonging(m) # {}
        PROVE  value(belonging(m)) <= frame_[i].value
    BY <2>1, <2>6, RankedBehind
  <2>7. QED
    BY <2>2, <2>3, <2>5, <2>6, <2>4, Zenon DEF VerifiedIsRight
<1>2. QED
  BY <1>1, AnswerHolds, PTL

---------------------------------------------------------------------------
(* What the narrator quotes.                                               *)

\* Population evidence is what the population check found.
LEMMA EvidenceIs ==
    ASSUME AnswerInv, delivered(6), "population" \in DOMAIN payload.evidence
    PROVE  /\ runs("population", p_)
           /\ payload.evidence["population"] = populationFinds.evidence
<1> DEFINE C == payload.checks
           i == CHOOSE i \in DOMAIN C : C[i].check = "population"
<1>1. /\ DOMAIN C = 1..Len(selected(p_)) /\ PlanOK(p_)
      /\ \A n \in DOMAIN C : /\ selected(p_)[n] \in Checks /\ runs(selected(p_)[n], p_)
                             /\ C[n] = foundBy(selected(p_)[n], warehouse, p_, frame_)
  BY AuditKnown, DeliveredBefore, PlanKnown
<1>2. \A n \in DOMAIN C : C[n].check = selected(p_)[n]
  BY <1>1, Reported
<1>3. payload.evidence = evidenceOf(C)
  BY DEF delivered
<1>4. \E n \in DOMAIN C : C[n].check = "population"
  BY <1>3 DEF evidenceOf, ran
<1>5. i \in DOMAIN C /\ C[i].check = "population"
  BY <1>4, Zenon
<1>6. payload.evidence["population"] = C[i].evidence
  BY <1>3, Zenon DEF evidenceOf
<1>7. selected(p_)[i] = "population"
  BY <1>2, <1>5
<1>8. C[i] = populationFinds /\ runs("population", p_)
  <2> HIDE DEF i, C
  <2>1. C[i] = foundBy("population", warehouse, p_, frame_) /\ runs("population", p_)
    BY <1>1, <1>5, <1>7
  <2>2. QED
    BY <2>1 DEF foundBy, populationFinds
<1>9. QED
  BY <1>6, <1>8

\* An answer without rows quotes no share.
LEMMA Says == ASSUME NEW h, h = [says |-> "no rows"] PROVE h.says # "share"
OBVIOUS

\* A share is told of a leader, from the population's figures.
LEMMA ShareIs ==
    ASSUME AnswerInv, delivered(7), payload.narrative.headline.says = "share"
    PROVE  /\ p_.intent \in {"breakdown", "top_n"} /\ Additive
           /\ Len(frame_) \in Nat /\ Len(frame_) # 0 /\ 1 \in DOMAIN frame_
           /\ payload.narrative.caveats = warned(payload.checks)
           /\ payload.narrative.headline =
                [says |-> "share", leader |-> frame_[1], members |-> Cardinality(members),
                 of |-> ROUND(counted(everyone), 1)]
<1>1. delivered(6) /\ delivered(4) /\ delivered(3)
  BY DeliveredBefore
<1>2. payload.narrative = narrate
  BY DEF delivered
<1>3. frame_ # <<>>
  <2> SUFFICES ASSUME frame_ = <<>> PROVE FALSE
    OBVIOUS
  <2>1. narrate = [headline |-> [says |-> "no rows"], caveats |-> {}]
    BY Zenon DEF narrate, frame_
  <2>2. narrate.headline = [says |-> "no rows"]
    BY <2>1, Zenon
  <2>3. narrate.headline.says # "share"
    BY <2>2, Says, Zenon
  <2>4. QED
    BY <1>2, <2>3, Zenon
<1>4. /\ payload.narrative.headline = headline(p_, frame_, payload.evidence)
      /\ payload.narrative.caveats = warned(payload.checks)
  BY <1>2, <1>3 DEF narrate, frame_, p_
<1>5. /\ p_.intent # "kpi" /\ p_.intent # "trend"
      /\ "population" \in DOMAIN payload.evidence /\ payload.evidence["population"] # <<>>
      /\ payload.narrative.headline =
           [says |-> "share", leader |-> frame_[1],
            members |-> payload.evidence["population"].members_total,
            of |-> payload.evidence["population"].population_total]
  BY <1>4 DEF headline
<1>6. runs("population", p_) /\ payload.evidence["population"] = populationFinds.evidence
  BY <1>1, <1>5, EvidenceIs
<1>7. p_.intent \in {"breakdown", "top_n"} /\ Additive
  <2>1. p_.intent \in Intents
    BY <1>1, QueryKnown DEF PlanOK
  <2>2. QED
    BY <1>5, <1>6, <2>1 DEF Intents, runs, handles, declines, Additive
<1>8. populationFinds.evidence =
        [population_total |-> ROUND(counted(everyone), 1),
         members_total |-> Cardinality(members),
         truncated |-> p_.intent = "top_n" /\ Len(frame_) < Cardinality(members)]
  BY <1>1, <1>5, <1>6, <1>7, PopulationIs
<1>9. Len(frame_) \in Nat /\ Len(frame_) # 0 /\ 1 \in DOMAIN frame_
  BY <1>1, <1>3, FrameKnown, AllowanceIs
<1>10. QED
  BY <1>4, <1>5, <1>6, <1>7, <1>8, <1>9

\* The leader is ahead of every member.
LEMMA LeaderLeads ==
    ASSUME AnswerInv, delivered(6), Keyed, warned(payload.checks) = {},
           p_.intent \in {"breakdown", "top_n"}, 1 \in DOMAIN frame_,
           NEW m, belonging(m) # {}
    PROVE  value(belonging(m)) <= frame_[1].value
<1>1. delivered(4) /\ delivered(3) /\ NothingLost /\ facts # <<>>
  BY DeliveredBefore DEF NothingLost, belonging
<1>2. CASE m \notin shownKeys
  BY <1>1, <1>2, RankedBehind
<1>3. CASE m \in shownKeys
  <2>1. PICK j \in DOMAIN frame_ : m = frame_[j].key
    BY <1>3 DEF shownKeys
  <2>2. frame_[j].value = value(belonging(m))
    BY <1>1, <2>1, ValueShown
  <2>3. frame_[j].value \in Nat /\ frame_[1].value \in Nat
    BY <1>1, FigureKnown
  <2>4. CASE j = 1
    BY <2>2, <2>3, <2>4
  <2>5. CASE j # 1
    <3>1. 1 < j
      BY <1>1, <2>1, <2>5, FrameKnown
    <3>2. payload.sql.order = "metric"
      BY <1>1, QueryKnown
    <3>3. inOrder(payload.sql.order, frame_[1], frame_[j])
      BY <1>1, <3>1, OrderKnown
    <3>4. frame_[1].value >= frame_[j].value
      BY <3>2, <3>3 DEF inOrder
    <3>5. QED
      BY <2>2, <2>3, <3>4
  <2>6. QED
    BY <2>4, <2>5
<1>4. QED
  BY <1>2, <1>3

\* What the leader has is no more than the whole, rounded.
LEMMA LeaderInWhole ==
    ASSUME AnswerInv, delivered(6), Keyed, warned(payload.checks) = {}, Additive,
           p_.intent \in {"breakdown", "top_n"}, facts # <<>>, NEW i \in DOMAIN frame_,
           NEW all, all = counted(everyone)
    PROVE  frame_[i].value <= ROUND(all, 1) + 1 /\ all \in Nat
<1> DEFINE rows == belonging(frame_[i].key)
           own == rows \X {0}
           t == counted(own)
           v == frame_[i].value
<1>1. delivered(4) /\ NothingLost /\ WarehouseOK(warehouse)
  BY DeliveredBefore, FrameKnown DEF NothingLost
<1>2. rows \subseteq DOMAIN facts /\ v = value(rows)
  BY <1>1, ValueShown
<1>3. v \in Nat
  BY FigureKnown
<1>4. own \subseteq everyone
  BY <1>2 DEF everyone
<1>5. PairsOK(warehouse, own) /\ PairsOK(warehouse, everyone)
  <2> HIDE DEF rows
  <2>1. QED
    BY <1>1, <1>2, RowsAsPairs, EveryoneOK DEF facts
<1>6. v = METRIC_SQL(warehouse, p_.metric, own)
  BY <1>2 DEF value
<1> HIDE DEF rows, own, v
<1>7. t <= all /\ t \in Nat /\ all \in Nat
  BY <1>1, <1>4, <1>5, CountedMonotone, CountedIsNat
<1>8. ROUND(all, 1) \in Nat /\ all <= ROUND(all, 1) + 1 /\ ROUND(t, 1) <= ROUND(all, 1)
  <2> HIDE DEF t
  <2>1. QED
    BY <1>7, RoundOne, RoundMonotone
<1>9. CASE p_.metric = "orders"
  <2>1. v = t
    BY <1>5, <1>6, <1>9, OrdersAre DEF counted
  <2>2. QED
    BY <1>7, <1>8, <2>1 DEF v
<1>10. CASE p_.metric = "revenue"
  <2>1. t = amount(warehouse, own)
    BY <1>10 DEF counted
  <2> HIDE DEF t
  <2>2. v = METRIC_SQL(warehouse, "revenue", own) /\ v # Null
    BY <1>3, <1>6, <1>10 DEF Null
  <2>3. v = ROUND(t, 1)
    BY <1>1, <1>5, <2>1, <2>2, RevenueIs
  <2>4. QED
    BY <1>3, <1>7, <1>8, <2>3 DEF v
<1>11. QED
  BY <1>9, <1>10 DEF Additive, ADDITIVE_METRICS

\* The whole, rounded, is the figure of all the facts.
LEMMA WholeIsNear ==
    ASSUME WarehouseOK(warehouse), Additive, NEW all, all = counted(everyone)
    PROVE  distance(ROUND(all, 1), DOMAIN facts) <= 1
<1> DEFINE r == ROUND(all, 1)
<1>1. PairsOK(warehouse, everyone)
  BY EveryoneOK
<1>2. all \in Nat
  BY <1>1, CountedIsNat
<1>3. r \in Nat /\ r <= all + 1 /\ all <= r + 1
  BY <1>2, RoundOne
<1>4. Cardinality(everyone) = Cardinality(DOMAIN facts)
  BY EveryoneOK, Tables DEF facts
<1> HIDE DEF r
<1>5. distance(r, DOMAIN facts) = IF r - all < 0 THEN -(r - all) ELSE r - all
  <2>1. CASE p_.metric = "orders"
    <3>1. all = ONE * Cardinality(DOMAIN facts)
      BY <1>4, <2>1 DEF counted
    <3>2. QED
      BY <2>1, <3>1 DEF distance
  <2>2. CASE p_.metric = "revenue"
    <3>1. all = amount(warehouse, (DOMAIN facts) \X {0})
      BY <2>2 DEF counted, everyone
    <3>2. QED
      BY <2>2, <3>1 DEF distance
  <2>3. QED
    BY <2>1, <2>2 DEF Additive, ADDITIVE_METRICS
<1>6. QED
  BY <1>2, <1>3, <1>5 DEF r

\* A leader has facts.
LEMMA LeaderHasFacts ==
    ASSUME AnswerInv, delivered(4), p_.intent \in {"breakdown", "top_n"},
           1 \in DOMAIN frame_
    PROVE  facts # <<>>
<1>1. /\ delivered(3) /\ WarehouseOK(warehouse)
      /\ frame_[1].key \in bucketsOf(warehouse, payload.sql)
  BY FrameKnown, RowKnown
<1>2. payload.sql.group = p_.dimension /\ p_.dimension \in Dimensions
  BY <1>1, QueryKnown DEF PlanOK, accepts
<1>3. PICK p \in source(warehouse, payload.sql.join) : TRUE
  BY <1>1, <1>2 DEF bucketsOf, Dimensions
<1>4. p[1] \in DOMAIN facts
  BY <1>1, SourceFinite DEF facts
<1>5. QED
  BY <1>4

\* filters.py, _headline: if every customer has one row, a share quoted without
\* a caveat is the share of the whole warehouse, and its leader leads, however
\* few members are shown.
THEOREM SharesCanBeQuoted == Spec => []SharesAreDefended
<1>1. AnswerInv => SharesAreDefended
  <2> DEFINE told == payload.narrative.headline
  <2> SUFFICES ASSUME AnswerInv, quoted, Keyed PROVE ShareHolds
    BY DEF SharesAreDefended
  <2>1. /\ delivered(7) /\ delivered(6) /\ delivered(4) /\ WarehouseOK(warehouse)
        /\ payload.narrative.caveats = {} /\ told.says = "share"
    BY AnsweredKnown, FrameKnown DEF quoted
  <2>2. /\ p_.intent \in {"breakdown", "top_n"} /\ Additive /\ 1 \in DOMAIN frame_
        /\ warned(payload.checks) = {}
        /\ told = [says |-> "share", leader |-> frame_[1], members |-> Cardinality(members),
                   of |-> ROUND(counted(everyone), 1)]
    BY <2>1, ShareIs
  <2>3. /\ told.leader = frame_[1] /\ told.members = Cardinality(members)
        /\ told.of = ROUND(counted(everyone), 1)
    BY <2>2
  <2> HIDE DEF told
  <2>4. isRight(frame_[1])
    BY <2>1, <2>2, ShownIsRight
  <2>5. distance(ROUND(counted(everyone), 1), DOMAIN facts) <= 1
    BY <2>1, <2>2, WholeIsNear
  <2>6. frame_[1].value <= ROUND(counted(everyone), 1) + 1
    BY <2>1, <2>2, LeaderHasFacts, LeaderInWhole
  <2>7. \A m \in members : belonging(m) # {} => value(belonging(m)) <= frame_[1].value
    BY <2>1, <2>2, LeaderLeads
  <2>8. QED
    BY <2>3, <2>4, <2>5, <2>6, <2>7 DEF ShareHolds, told
<1>2. QED
  BY <1>1, AnswerHolds, PTL

---------------------------------------------------------------------------
(* An undamaged warehouse.                                                 *)

\* In an undamaged warehouse there are facts, and all of them are priced.
LEMMA UndamagedIs ==
    ASSUME Undamaged, WarehouseOK(warehouse)
    PROVE  /\ Keyed /\ facts # <<>> /\ orphans(warehouse) = {}
           /\ \A pairs : PairsOK(warehouse, pairs) => priced(warehouse, pairs) = pairs
           /\ PairsOK(warehouse, everyone) /\ everyone # {}
<1>1. Keyed /\ facts # <<>> /\ orphans(warehouse) = {}
  BY DEF Undamaged
<1>2. \A i \in DOMAIN facts : facts[i].revenue # Null
  BY DEF Undamaged
<1>3. ASSUME NEW pairs, PairsOK(warehouse, pairs) PROVE priced(warehouse, pairs) = pairs
  BY <1>2, <1>3 DEF priced, PairsOK, facts
<1>4. PairsOK(warehouse, everyone) /\ Cardinality(everyone) = Len(facts)
  BY EveryoneOK
<1>5. Len(facts) # 0
  BY <1>1 DEF facts, WarehouseOK
<1>6. everyone # {}
  BY <1>4, <1>5, FS_EmptySet
<1>7. QED
  BY <1>1, <1>3, <1>4, <1>6

\* Where the limit cuts nothing off, every group is shown.
LEMMA AllShown ==
    ASSUME AnswerInv, delivered(4), ~CutByRowLimit, p_.intent # "top_n",
           NEW b \in bucketsOf(warehouse, payload.sql)
    PROVE  b \in shownKeys
<1> DEFINE row == rowOf(warehouse, payload.sql, b)
<1>1. row \in groups(warehouse, payload.sql)
  BY GroupsAre
<1>2. ~(Cardinality(groups(warehouse, payload.sql)) > payload.sql.limit)
  BY DEF CutByRowLimit
<1>3. row.key = b
  BY DEF rowOf
<1> HIDE DEF row
<1>4. \E i \in DOMAIN frame_ : frame_[i] = row
  BY <1>1, <1>2, OrderKnown
<1>5. QED
  BY <1>3, <1>4 DEF shownKeys

\* There are finitely many members.
LEMMA MembersFinite ==
    ASSUME WarehouseOK(warehouse)
    PROVE  IsFiniteSet(members) /\ Cardinality(members) \in Nat
<1> DEFINE C == DOMAIN warehouse.customers
           F == DOMAIN facts
           h == [j \in C |-> warehouse.customers[j].segment]
           g == [i \in F |-> facts[i][p_.dimension]]
<1>1. IsFiniteSet(C) /\ IsFiniteSet(F)
  BY Tables DEF facts
<1>2. {warehouse.customers[j].segment : j \in C} = {h[j] : j \in C}
  OBVIOUS
<1>3. {facts[i][p_.dimension] : i \in F} = {g[i] : i \in F}
  OBVIOUS
<1>4. members = {h[j] : j \in C} \/ members = {g[i] : i \in F}
  BY <1>2, <1>3, Zenon DEF members
<1> HIDE DEF C, F, h, g
<1>5. IsFiniteSet({h[j] : j \in C}) /\ IsFiniteSet({g[i] : i \in F})
  BY <1>1, ImageFinite
<1>6. IsFiniteSet(members)
  BY <1>4, <1>5, Zenon
<1>7. QED
  BY <1>6, FS_CardinalityType

\* Only members are grouped by.
LEMMA GroupsAreMembers ==
    ASSUME AnswerInv, delivered(4), p_.intent \in {"breakdown", "top_n"},
           NEW p \in source(warehouse, payload.sql.join)
    PROVE  bucket(warehouse, payload.sql.group, p) \in members
           /\ bucket(warehouse, payload.sql.group, p) \in bucketsOf(warehouse, payload.sql)
<1>1. /\ payload.sql.group = p_.dimension /\ p_.dimension \in Dimensions
      /\ payload.sql.join = (p_.dimension = "segment") /\ WarehouseOK(warehouse)
  BY FrameKnown, QueryKnown DEF PlanOK, accepts
<1>2. bucket(warehouse, payload.sql.group, p) \in bucketsOf(warehouse, payload.sql)
  BY <1>1 DEF bucketsOf, Dimensions
<1>3. p[1] \in DOMAIN facts
  BY <1>1, SourceFinite DEF facts
<1>4. CASE p_.dimension = "segment"
  <2>1. bucket(warehouse, "segment", p) = warehouse.customers[p[2]].segment
    BY DEF bucket, Grains
  <2>2. p[2] \in DOMAIN warehouse.customers
    BY <1>1, <1>4 DEF source
  <2>3. QED
    BY <1>1, <1>2, <1>4, <2>1, <2>2 DEF members
<1>5. CASE p_.dimension \in {"region", "category"}
  <2>1. bucket(warehouse, p_.dimension, p) = facts[p[1]][p_.dimension]
    BY <1>5 DEF bucket, Grains, facts
  <2>2. members = {facts[i][p_.dimension] : i \in DOMAIN facts}
    BY <1>5 DEF members
  <2>3. QED
    BY <1>1, <1>2, <1>3, <2>1, <2>2
<1>6. QED
  BY <1>1, <1>4, <1>5 DEF Dimensions

\* A ranking that has as many as there are members has all of them.
LEMMA RankingComplete ==
    ASSUME AnswerInv, delivered(4), p_.intent \in {"breakdown", "top_n"},
           ~(Len(frame_) < Cardinality(members))
    PROVE  shownKeys = members
<1>1. WarehouseOK(warehouse)
  BY FrameKnown
<1>2. IsFiniteSet(members) /\ Cardinality(members) \in Nat
  BY <1>1, MembersFinite
<1>3. ASSUME NEW i \in DOMAIN frame_ PROVE frame_[i].key \in members
  <2>1. /\ payload.sql.group = p_.dimension /\ p_.dimension \in Dimensions
    BY FrameKnown, QueryKnown DEF PlanOK, accepts
  <2>2. frame_[i].key \in bucketsOf(warehouse, payload.sql)
    BY RowKnown
  <2>3. PICK p \in source(warehouse, payload.sql.join) :
           frame_[i].key = bucket(warehouse, payload.sql.group, p)
    BY <2>1, <2>2 DEF bucketsOf, Dimensions
  <2>4. QED
    BY <2>3, GroupsAreMembers
<1>4. shownKeys \subseteq members
  BY <1>3 DEF shownKeys
<1>5. Cardinality(shownKeys) = Len(frame_) /\ Len(frame_) \in Nat
  BY KeysShown, FrameKnown
<1>6. Cardinality(shownKeys) <= Cardinality(members)
  BY <1>2, <1>4, FS_Subset
<1>7. Cardinality(shownKeys) = Cardinality(members)
  BY <1>2, <1>5, <1>6
<1>8. QED
  BY <1>2, <1>4, <1>7, FS_Subset

---------------------------------------------------------------------------
(* No check warns of it.                                                   *)

\* Nothing is NULL that null_metric could warn of.
LEMMA NullsQuiet ==
    ASSUME Undamaged, WarehouseOK(warehouse), NEW p, NEW frame
    PROVE  null_metric(warehouse, p, frame).status # WARN
<1>1. priced(warehouse, everyone) = everyone /\ everyone = source(warehouse, FALSE)
  BY UndamagedIs, EveryoneOK
<1>2. Cardinality(everyone) = Len(warehouse.facts) /\ Len(warehouse.facts) \in Nat
  BY EveryoneOK, Tables DEF facts
<1>3. scalar(warehouse, "null_rows") = 0
  <2>1. scalar(warehouse, "null_rows") =
          Len(warehouse.facts) - Cardinality(priced(warehouse, source(warehouse, FALSE)))
    BY DEF scalar
  <2>2. Cardinality(priced(warehouse, source(warehouse, FALSE))) = Len(warehouse.facts)
    BY <1>1, <1>2, Zenon
  <2>3. \A n \in Nat : \A c : c = n => n - c = 0
    OBVIOUS
  <2>4. Len(warehouse.facts) - Cardinality(priced(warehouse, source(warehouse, FALSE))) = 0
    BY <1>2, <2>2, <2>3, Zenon
  <2>5. QED
    BY <2>1, <2>4, Zenon
<1>4. QED
  BY <1>3 DEF null_metric, finding, OK, WARN

\* Nobody is orphaned that join_integrity could warn of.
LEMMA JoinQuiet ==
    ASSUME Undamaged, NEW p, NEW frame
    PROVE  join_integrity(warehouse, p, frame).status # WARN
<1>1. scalar(warehouse, "orphan_rows") = 0
  BY FS_EmptySet DEF Undamaged, scalar
<1>2. QED
  BY <1>1 DEF join_integrity, finding, OK, WARN

\* No period is missing that continuity could warn of.
LEMMA CalendarQuiet ==
    ASSUME AnswerInv, delivered(4), Undamaged, ~CutByRowLimit, p_.intent = "trend"
    PROVE  continuity(warehouse, p_, frame_).status # WARN
<1> DEFINE P == periods(warehouse, p_.grain)
           sql == IF p_.grain = "month" THEN "calendar_month" ELSE "calendar_day"
<1>1. /\ WarehouseOK(warehouse) /\ payload.sql.group = p_.grain /\ p_.grain \in Grains
      /\ Len(frame_) \in Nat
  BY FrameKnown, QueryKnown DEF PlanOK
<1>2. Cardinality(P) = calendar(warehouse, p_.grain)
  BY <1>1 DEF Undamaged
<1>3. IsFiniteSet(P) /\ Cardinality(P) \in Nat
  <2> HIDE DEF P
  <2>1. IsFiniteSet(P)
    BY <1>1, PeriodsAre DEF P
  <2>2. QED
    BY <2>1, FS_CardinalityType
<1>4. scalar(warehouse, sql) = Cardinality(P)
  BY <1>1, <1>2 DEF scalar, Grains
<1>5. ASSUME NEW x \in P PROVE x \in shownKeys
  <2>1. PICK i \in DOMAIN warehouse.facts : x = DATE_TRUNC(p_.grain, warehouse.facts[i].day)
    BY DEF periods
  <2>2. orphans(warehouse) = {}
    BY DEF Undamaged
  <2>3. DOMAIN facts = {p[1] : p \in source(warehouse, payload.sql.join)}
    BY <2>2, SourceFacts
  <2>4. PICK p \in source(warehouse, payload.sql.join) : i = p[1]
    BY <2>3 DEF facts
  <2>5. bucket(warehouse, p_.grain, p) = x
    BY <1>1, <2>1, <2>4 DEF bucket, Grains
  <2>6. x \in bucketsOf(warehouse, payload.sql)
    BY <1>1, <2>5 DEF bucketsOf, Grains
  <2>7. QED
    BY <2>6, AllShown
<1>6. P \subseteq shownKeys
  BY <1>5
<1>7. IsFiniteSet(shownKeys) /\ Cardinality(shownKeys) = Len(frame_)
  BY KeysShown
<1> HIDE DEF P
<1>8. Cardinality(P) <= Len(frame_)
  BY <1>6, <1>7, FS_Subset
<1> HIDE DEF sql
<1>9. continuity(warehouse, p_, frame_) =
        IF scalar(warehouse, sql) = Null THEN couldNotRun("continuity", <<sql>>)
        ELSE finding("continuity", Len(frame_) < scalar(warehouse, sql), <<sql>>, <<>>)
  BY Zenon DEF continuity, sql
<1>10. scalar(warehouse, sql) # Null /\ ~(Len(frame_) < scalar(warehouse, sql))
  BY <1>1, <1>3, <1>4, <1>8 DEF Null
<1>11. continuity(warehouse, p_, frame_) =
         finding("continuity", Len(frame_) < scalar(warehouse, sql), <<sql>>, <<>>)
  BY <1>9, <1>10
<1>12. continuity(warehouse, p_, frame_).status = OK
  BY <1>10, <1>11 DEF finding
<1>13. QED
  BY <1>12 DEF OK, WARN

\* All the facts, or as many of them as the ranking leaves.
LEMMA PopulationQuiet ==
    ASSUME AnswerInv, delivered(4), Undamaged, ~CutByRowLimit, Additive,
           p_.intent \in {"breakdown", "top_n"}
    PROVE  populationFinds.status # WARN
<1> DEFINE S == source(warehouse, payload.sql.join)
           cut == p_.intent = "top_n" /\ Len(frame_) < Cardinality(members)
<1>1. /\ WarehouseOK(warehouse) /\ orphans(warehouse) = {} /\ Keyed
      /\ PairsOK(warehouse, everyone)
      /\ priced(warehouse, everyone) = everyone /\ everyone # {}
  BY FrameKnown, UndamagedIs
<1>2. scalar(warehouse, POPULATION_SQL[p_.metric]) # Null
  BY <1>1, PopulationIs
<1>3. populationFinds.status = WARN <=>
        disagrees(total(frame_), counted(everyone), allowance, cut)
  BY <1>2, PopulationIs
<1>4. counted(S) = counted(everyone)
  <2>1. PairsOK(warehouse, S) /\ OncePerFact(S) /\ DOMAIN facts = {p[1] : p \in S}
    BY <1>1, SourceFinite, SourceOnce, SourceFacts DEF PairsOK
  <2> HIDE DEF S
  <2>2. counted(S) = counted((DOMAIN facts) \X {0})
    BY <1>1, <2>1, CountedByRows
  <2>3. QED
    BY <2>2 DEF everyone
<1>5. PairsOK(warehouse, S) /\ behind \subseteq S
  BY <1>1, SourceFinite DEF PairsOK, behind
<1>6. counted(behind) <= counted(S)
  <2> HIDE DEF S
  <2>1. QED
    BY <1>1, <1>5, CountedMonotone
<1>7. /\ total(frame_) \in Int /\ counted(behind) \in Nat
      /\ total(frame_) <= counted(behind) + Len(frame_)
      /\ counted(behind) <= total(frame_) + Len(frame_)
  BY TotalNear
<1>8. /\ counted(everyone) \in Nat /\ Len(frame_) \in Nat /\ allowance \in Nat
      /\ Len(frame_) <= allowance
  BY <1>1, CountedIsNat, AllowanceIs
<1>9. ASSUME ~cut PROVE behind = S
  <2>1. ASSUME NEW p \in S PROVE bucket(warehouse, payload.sql.group, p) \in shownKeys
    <3>1. /\ bucket(warehouse, payload.sql.group, p) \in members
          /\ bucket(warehouse, payload.sql.group, p) \in bucketsOf(warehouse, payload.sql)
      BY GroupsAreMembers
    <3>2. CASE p_.intent = "top_n"
      BY <1>9, <3>1, <3>2, RankingComplete
    <3>3. CASE p_.intent # "top_n"
      BY <3>1, <3>3, AllShown
    <3>4. QED
      BY <3>2, <3>3
  <2>2. QED
    BY <2>1 DEF behind
<1>10. CASE cut
  <2> HIDE DEF S
  <2>1. ~(total(frame_) > counted(everyone) + allowance)
    BY <1>4, <1>6, <1>7, <1>8
  <2>2. QED
    BY <1>3, <1>10, <2>1 DEF disagrees
<1>11. CASE ~cut
  <2>1. counted(behind) = counted(everyone)
    BY <1>4, <1>9, <1>11, Zenon
  <2> HIDE DEF S, cut
  <2>2. /\ ~(total(frame_) > counted(everyone) + allowance)
        /\ ~(total(frame_) < counted(everyone) - allowance)
    BY <1>7, <1>8, <2>1
  <2>3. QED
    BY <1>3, <2>2 DEF disagrees
<1>12. QED
  BY <1>10, <1>11

\* reconcilers.py, an answer over an undamaged warehouse that the row limit
\* does not cut is never qualified: no check of the four cries wolf.
THEOREM AlarmsAreReal == Spec => []NoFalseAlarm
<1>1. AnswerInv => NoFalseAlarm
  <2> SUFFICES ASSUME AnswerInv, Done(QUALIFIED), Undamaged, ~CutByRowLimit
               PROVE  FALSE
    BY DEF NoFalseAlarm
  <2>1. delivered(6) /\ delivered(4) /\ WarehouseOK(warehouse)
    BY AnsweredKnown, FrameKnown DEF Done
  <2>2. warned(payload.checks) # {}
    BY <2>1, VerdictIs DEF Done
  <2>3. PICK c \in Checks :
           runs(c, p_) /\ foundBy(c, warehouse, p_, frame_).status = WARN
    BY <2>1, <2>2, SomeWarned
  <2>4. CASE c = "population"
    <3>1. p_.intent \in {"breakdown", "top_n"} /\ Additive
      BY <2>3, <2>4 DEF runs, handles, declines, Additive
    <3>2. populationFinds.status = WARN
      BY <2>3, <2>4 DEF foundBy, populationFinds
    <3>3. QED
      BY <2>1, <3>1, <3>2, PopulationQuiet
  <2>5. CASE c = "null_metric"
    <3>1. null_metric(warehouse, p_, frame_).status = WARN
      BY <2>3, <2>5 DEF foundBy
    <3>2. QED
      BY <2>1, <3>1, NullsQuiet
  <2>6. CASE c = "join_integrity"
    <3>1. join_integrity(warehouse, p_, frame_).status = WARN
      BY <2>3, <2>6 DEF foundBy
    <3>2. QED
      BY <3>1, JoinQuiet
  <2>7. CASE c = "continuity"
    <3>1. p_.intent = "trend"
      BY <2>3, <2>7 DEF runs, handles
    <3>2. continuity(warehouse, p_, frame_).status = WARN
      BY <2>3, <2>7 DEF foundBy
    <3>3. QED
      BY <2>1, <3>1, <3>2, CalendarQuiet
  <2>8. QED
    BY <2>4, <2>5, <2>6, <2>7 DEF Checks
<1>2. QED
  BY <1>1, AnswerHolds, PTL
=============================================================================
