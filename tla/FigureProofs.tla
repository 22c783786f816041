---------------------------- MODULE FigureProofs ----------------------------
(***************************************************************************)
(* What the figures of an answer are, for every warehouse and question:    *)
(* the amounts of StarSchema and Reconcile are sums (SumTheorems), a row   *)
(* of the answer is the figure of the facts that belong to its key, the    *)
(* rows shown add up to the facts behind them but for the rounding, and    *)
(* the population check says what it says.  VerdictProofs draws the        *)
(* conclusions.                                                            *)
(***************************************************************************)
EXTENDS AnswerProofs

---------------------------------------------------------------------------
(* Amounts are sums.                                                       *)

\* The tables of the sums that StarSchema and Reconcile take.
amounts(g, w, S) ==
    g = [s \in SUBSET S |-> IF s = {} THEN 0
                            ELSE w.facts[pick(s)[1]].revenue + g[s \ {pick(s)}]]

totals(g, frame, S) ==
    g = [s \in SUBSET S |-> IF s = {} THEN 0
                            ELSE frame[pick(s)].value + g[s \ {pick(s)}]]

\* An amount is read off the table that its recursive function chooses.
LEMMA AmountDef ==
    ASSUME NEW w, NEW pairs
    PROVE  amount(w, pairs) =
             (CHOOSE g : amounts(g, w, priced(w, pairs)))[priced(w, pairs)]
BY DEF amount, MapThenSumSet, MapThenFoldSet, amounts, pick

\* An amount is the sum of the revenues that are not NULL.
LEMMA AmountIs ==
    ASSUME NEW w, NEW pairs, NEW S, S = priced(w, pairs), IsFiniteSet(S), NEW f,
           \A p \in S : f[p] = w.facts[p[1]].revenue
    PROVE  amount(w, pairs) = SumOf(f, S)
<1>1. ASSUME NEW g PROVE amounts(g, w, S) <=> sums(g, f, S)
  <2> DEFINE A == [s \in SUBSET S |-> IF s = {} THEN 0
                      ELSE w.facts[pick(s)[1]].revenue + g[s \ {pick(s)}]]
             B == [s \in SUBSET S |-> IF s = {} THEN 0
                      ELSE f[pick(s)] + g[s \ {pick(s)}]]
  <2>1. \A s \in SUBSET S : s # {} => f[pick(s)] = w.facts[pick(s)[1]].revenue
    BY PickIn
  <2>2. A = B
    BY <2>1
  <2>3. QED
    BY <2>2, Zenon DEF amounts, sums
<1>2. PICK h : sums(h, f, S) /\ SumOf(f, S) = h[S]
  BY SumTable
<1> DEFINE g == CHOOSE g : amounts(g, w, S)
<1>3. amounts(g, w, S)
  BY <1>1, <1>2
<1>4. amount(w, pairs) = g[S]
  BY AmountDef
<1> HIDE DEF g
<1>5. sums(g, f, S)
  BY <1>1, <1>3
<1>6. g[S] = h[S]
  BY <1>2, <1>5, SumsAgree
<1>7. QED
  BY <1>2, <1>4, <1>6

valued(frame) == {i \in DOMAIN frame : frame[i].value # Null}

\* So is the total of a frame.
LEMMA TotalDef ==
    ASSUME NEW frame
    PROVE  total(frame) =
             (CHOOSE g : totals(g, frame, valued(frame)))[valued(frame)]
BY DEF total, MapThenSumSet, MapThenFoldSet, totals, pick, valued

\* The total of a frame is the sum of the values that are not NULL.
LEMMA TotalIs ==
    ASSUME NEW frame, NEW S, S = valued(frame), IsFiniteSet(S), NEW f,
           \A i \in S : f[i] = frame[i].value
    PROVE  total(frame) = SumOf(f, S)
<1>1. ASSUME NEW g PROVE totals(g, frame, S) <=> sums(g, f, S)
  <2> DEFINE A == [s \in SUBSET S |-> IF s = {} THEN 0
                      ELSE frame[pick(s)].value + g[s \ {pick(s)}]]
             B == [s \in SUBSET S |-> IF s = {} THEN 0
                      ELSE f[pick(s)] + g[s \ {pick(s)}]]
  <2>1. \A s \in SUBSET S : s # {} => f[pick(s)] = frame[pick(s)].value
    BY PickIn
  <2>2. A = B
    BY <2>1
  <2>3. QED
    BY <2>2, Zenon DEF totals, sums
<1>2. PICK h : sums(h, f, S) /\ SumOf(f, S) = h[S]
  BY SumTable
<1> DEFINE g == CHOOSE g : totals(g, frame, S)
<1>3. totals(g, frame, S)
  BY <1>1, <1>2
<1>4. total(frame) = g[S]
  BY TotalDef
<1> HIDE DEF g
<1>5. sums(g, f, S)
  BY <1>1, <1>3
<1>6. g[S] = h[S]
  BY <1>2, <1>5, SumsAgree
<1>7. QED
  BY <1>2, <1>4, <1>6

---------------------------------------------------------------------------
(* Pairs of row numbers.                                                   *)

\* Rows of a FROM clause, whatever it joins.
PairsOK(w, pairs) == IsFiniteSet(pairs) /\ \A p \in pairs : p[1] \in DOMAIN w.facts

\* Priced rows have revenues.
LEMMA PricedOK ==
    ASSUME NEW w, WarehouseOK(w), NEW pairs, PairsOK(w, pairs)
    PROVE  /\ PairsOK(w, priced(w, pairs))
           /\ \A p \in priced(w, pairs) : w.facts[p[1]].revenue \in Nat
<1>1. IsFiniteSet(priced(w, pairs))
  BY FS_Subset DEF priced, PairsOK
<1>2. QED
  BY <1>1, Tables DEF priced, PairsOK

\* No sum of revenues is negative.
LEMMA AmountIsNat ==
    ASSUME NEW w, WarehouseOK(w), NEW pairs, PairsOK(w, pairs)
    PROVE  amount(w, pairs) \in Nat
<1> DEFINE S == priced(w, pairs)
           f == [p \in S |-> w.facts[p[1]].revenue]
           z == [p \in S |-> 0]
<1>1. IsFiniteSet(S) /\ \A p \in S : f[p] \in Nat /\ z[p] = 0
  BY PricedOK DEF PairsOK
<1>2. \A p \in S : f[p] = w.facts[p[1]].revenue
  OBVIOUS
<1> HIDE DEF S, f, z
<1>3. amount(w, pairs) = SumOf(f, S)
  BY <1>1, <1>2, AmountIs DEF S
<1>4. SumOf(f, S) \in Int
  BY <1>1, SumInt
<1>5. SumOf(z, S) <= SumOf(f, S)
  BY <1>1, SumAtMost
<1>6. SumOf(z, S) = 0 * Cardinality(S)
  BY <1>1, SumConstant
<1>7. Cardinality(S) \in Nat
  BY <1>1, FS_CardinalityType
<1>8. QED
  BY <1>3, <1>4, <1>5, <1>6, <1>7

\* No two pairs have the same row of facts.
OncePerFact(pairs) == \A p \in pairs : \A q \in pairs : p[1] = q[1] => p = q

revenues(w) == [i \in DOMAIN w.facts |-> w.facts[i].revenue]

pricedRows(w, rows) == {i \in rows : w.facts[i].revenue # Null}

\* Pairs that have each row once are as good as the rows.
LEMMA ByRows ==
    ASSUME NEW w, WarehouseOK(w), NEW pairs, PairsOK(w, pairs), OncePerFact(pairs),
           NEW rows, rows = {p[1] : p \in pairs}
    PROVE  /\ IsFiniteSet(rows) /\ rows \subseteq DOMAIN w.facts
           /\ Cardinality(pairs) = Cardinality(rows)
           /\ amount(w, pairs) = SumOf(revenues(w), pricedRows(w, rows))
           /\ priced(w, pairs) = {} <=> pricedRows(w, rows) = {}
           /\ priced(w, pairs) = pairs <=> pricedRows(w, rows) = rows
<1> DEFINE h == [p \in pairs |-> p[1]]
           S == priced(w, pairs)
           e == [p \in S |-> w.facts[p[1]].revenue]
<1>1. rows \subseteq DOMAIN w.facts
  BY DEF PairsOK
<1>2. h \in Bijection(pairs, rows)
  BY DEF OncePerFact, Bijection, Injection, Surjection, IsInjective
<1>3. IsFiniteSet(rows) /\ Cardinality(rows) = Cardinality(pairs)
  BY <1>2, FS_Bijection DEF ExistsBijection, PairsOK
<1>4. S \subseteq pairs /\ {h[p] : p \in S} = pricedRows(w, rows)
  BY DEF priced, pricedRows
<1>5. IsFiniteSet(S) /\ \A p \in S : e[p] \in Int /\ e[p] = revenues(w)[h[p]]
  <2>1. \A p \in S : p \in pairs /\ p[1] \in DOMAIN w.facts
    BY <1>4 DEF PairsOK
  <2>2. IsFiniteSet(S) /\ \A p \in S : e[p] \in Nat
    BY PricedOK DEF PairsOK
  <2>3. QED
    BY <2>1, <2>2 DEF revenues
<1>6. \A p \in S : \A q \in S : h[p] = h[q] => p = q
  BY <1>4 DEF OncePerFact
<1>7. \A p \in S : e[p] = w.facts[p[1]].revenue
  OBVIOUS
<1>8. priced(w, pairs) = {} <=> pricedRows(w, rows) = {}
  BY DEF priced, pricedRows
<1>9. priced(w, pairs) = pairs <=> pricedRows(w, rows) = rows
  BY DEF priced, pricedRows
<1>10. amount(w, pairs) = SumOf(e, S)
  <2> HIDE DEF e
  <2>1. QED
    BY <1>5, <1>7, AmountIs
<1>11. SumOf(revenues(w), pricedRows(w, rows)) = SumOf(e, S)
  <2> DEFINE f == revenues(w)
             image == {h[p] : p \in S}
  <2>1. SumOf(f, image) = SumOf(e, S)
    <3> HIDE DEF e, S, h, f
    <3>1. IsFiniteSet(S) /\ \A p \in S : e[p] \in Int /\ e[p] = f[h[p]]
      BY <1>5 DEF f
    <3>2. QED
      BY <1>6, <3>1, SumRenamed
  <2>2. image = pricedRows(w, rows)
    BY <1>4
  <2> HIDE DEF image, e, S
  <2>3. QED
    BY <2>1, <2>2
<1>12. QED
  BY <1>1, <1>3, <1>8, <1>9, <1>10, <1>11

\* Rows as pairs, the way the properties write them.
LEMMA RowsAsPairs ==
    ASSUME NEW w, WarehouseOK(w), NEW rows, rows \subseteq DOMAIN w.facts
    PROVE  /\ PairsOK(w, rows \X {0}) /\ OncePerFact(rows \X {0})
           /\ rows = {p[1] : p \in rows \X {0}}
           /\ IsFiniteSet(rows) /\ Cardinality(rows \X {0}) = Cardinality(rows)
           /\ rows \X {0} = {} <=> rows = {}
<1>1. IsFiniteSet(rows)
  BY Tables, FS_Subset
<1>2. IsFiniteSet(rows \X {0}) /\ Cardinality(rows \X {0}) = Cardinality(rows) * 1
  <2>1. IsFiniteSet({0}) /\ Cardinality({0}) = 1
    BY FS_Singleton
  <2>2. QED
    BY <1>1, <2>1, FS_Product
<1>3. OncePerFact(rows \X {0})
  BY DEF OncePerFact
<1>4. Cardinality(rows) \in Nat
  BY <1>1, FS_CardinalityType
<1>5. \A i \in rows : <<i, 0>> \in rows \X {0} /\ <<i, 0>>[1] = i
  OBVIOUS
<1>6. rows = {p[1] : p \in rows \X {0}}
  BY <1>5
<1>7. QED
  BY <1>1, <1>2, <1>3, <1>4, <1>6 DEF PairsOK

\* A metric over rows that are there once does not depend on the join.
LEMMA MetricByRows ==
    ASSUME NEW w, WarehouseOK(w), NEW pairs, PairsOK(w, pairs), OncePerFact(pairs),
           NEW rows, rows = {p[1] : p \in pairs}, NEW metric
    PROVE  METRIC_SQL(w, metric, pairs) = METRIC_SQL(w, metric, rows \X {0})
<1> DEFINE Q == rows \X {0}
<1>1. /\ rows \subseteq DOMAIN w.facts
      /\ Cardinality(pairs) = Cardinality(rows)
      /\ amount(w, pairs) = SumOf(revenues(w), pricedRows(w, rows))
      /\ priced(w, pairs) = {} <=> pricedRows(w, rows) = {}
  BY ByRows
<1>2. PairsOK(w, Q) /\ OncePerFact(Q) /\ rows = {p[1] : p \in Q}
      /\ Cardinality(Q) = Cardinality(rows)
  BY <1>1, RowsAsPairs
<1> HIDE DEF Q
<1>3. /\ amount(w, Q) = SumOf(revenues(w), pricedRows(w, rows))
      /\ priced(w, Q) = {} <=> pricedRows(w, rows) = {}
  BY <1>2, ByRows
<1>4. SUM(w, pairs) = SUM(w, Q) /\ Cardinality(pairs) = Cardinality(Q)
  BY <1>1, <1>2, <1>3 DEF SUM
<1>5. METRIC_SQL(w, metric, pairs) = METRIC_SQL(w, metric, Q)
  BY <1>4, Zenon DEF METRIC_SQL
<1>6. QED
  BY <1>5 DEF Q

---------------------------------------------------------------------------
(* ROUND.                                                                  *)

\* ROUND to the cent is off by no more than half a cent.
LEMMA RoundOne ==
    ASSUME NEW t \in Nat
    PROVE  ROUND(t, 1) \in Nat /\ ROUND(t, 1) <= t + 1 /\ t <= ROUND(t, 1) + 1
BY DEF ROUND

\* What the integer quotient is.
LEMMA Quotient ==
    ASSUME NEW a \in Nat, NEW d \in Nat \ {0}
    PROVE  a \div d \in Nat /\ d * (a \div d) <= a /\ a < d * (a \div d) + d
OBVIOUS

\* The ROUND of a mean is off by no more than half a cent a row.
LEMMA RoundMean ==
    ASSUME NEW t \in Nat, NEW n \in Nat \ {0}
    PROVE  /\ ROUND(t, n) \in Nat
           /\ ROUND(t, n) * n <= t + n /\ t <= ROUND(t, n) * n + n
<1> DEFINE d == 2 * n
           q == (t + n) \div d
<1>1. t + n \in Nat /\ d \in Nat \ {0}
  OBVIOUS
<1>2. q \in Nat /\ d * q <= t + n /\ t + n < d * q + d
  <2> HIDE DEF d
  <2>1. QED
    BY <1>1, Quotient
<1>3. ROUND(t, n) = 2 * q
  BY DEF ROUND
<1> HIDE DEF q
<1>4. (2 * q) * n = d * q
  BY <1>2
<1>5. QED
  BY <1>2, <1>3, <1>4

\* ROUND keeps the order.
LEMMA RoundMonotone ==
    ASSUME NEW s \in Nat, NEW t \in Nat, s <= t
    PROVE  ROUND(s, 1) <= ROUND(t, 1)
BY DEF ROUND

---------------------------------------------------------------------------
(* Figures.                                                                *)

\* A number of rows, and not zero of some.
LEMMA CountIsNat ==
    ASSUME NEW w, NEW pairs, PairsOK(w, pairs)
    PROVE  Cardinality(pairs) \in Nat /\ (pairs # {} => Cardinality(pairs) # 0)
BY FS_CardinalityType, FS_EmptySet DEF PairsOK

\* Sums over nothing priced are nothing.
LEMMA AmountOfNone ==
    ASSUME NEW w, WarehouseOK(w), NEW pairs, priced(w, pairs) = {}
    PROVE  amount(w, pairs) = 0
<1> DEFINE f == [p \in {} |-> 0]
<1>1. amount(w, pairs) = SumOf(f, {})
  BY AmountIs, FS_EmptySet
<1>2. QED
  BY <1>1, SumEmpty

\* A revenue is NULL or within half a cent of what it sums.
LEMMA RevenueIs ==
    ASSUME NEW w, WarehouseOK(w), NEW pairs, PairsOK(w, pairs),
           NEW v, v = METRIC_SQL(w, "revenue", pairs), NEW t, t = amount(w, pairs)
    PROVE  /\ t \in Nat
           /\ v = Null <=> priced(w, pairs) = {}
           /\ v = Null => t = 0
           /\ v # Null => v = ROUND(t, 1) /\ v \in Nat /\ v <= t + 1 /\ t <= v + 1
<1>1. t \in Nat
  BY AmountIsNat
<1>2. ROUND(t, 1) \in Nat /\ ROUND(t, 1) <= t + 1 /\ t <= ROUND(t, 1) + 1
  BY <1>1, RoundOne
<1>3. CASE priced(w, pairs) = {}
  <2>1. SUM(w, pairs) = Null
    BY <1>3 DEF SUM
  <2>2. v = Null
    BY <2>1 DEF METRIC_SQL
  <2>3. QED
    BY <1>1, <1>3, <2>2, AmountOfNone
<1>4. CASE priced(w, pairs) # {}
  <2>1. SUM(w, pairs) = t /\ t # Null
    BY <1>1, <1>4 DEF SUM, Null
  <2>2. v = ROUND(t, 1)
    BY <2>1 DEF METRIC_SQL
  <2>3. v # Null
    BY <1>2, <2>2 DEF Null
  <2>4. QED
    BY <1>1, <1>2, <1>4, <2>2, <2>3
<1>5. QED
  BY <1>3, <1>4

\* Orders are a number of rows.
LEMMA OrdersAre ==
    ASSUME NEW w, NEW pairs, PairsOK(w, pairs)
    PROVE  /\ METRIC_SQL(w, "orders", pairs) = ONE * Cardinality(pairs)
           /\ METRIC_SQL(w, "orders", pairs) \in Nat
BY CountIsNat DEF METRIC_SQL, ONE

\* A mean over priced rows, times their number, is within half a cent a row.
LEMMA MeanIs ==
    ASSUME NEW w, WarehouseOK(w), NEW pairs, PairsOK(w, pairs), pairs # {},
           priced(w, pairs) = pairs,
           NEW v, v = METRIC_SQL(w, "aov", pairs), NEW t, t = amount(w, pairs),
           NEW n, n = Cardinality(pairs)
    PROVE  v \in Nat /\ v * n <= t + n /\ t <= v * n + n
<1>1. t \in Nat /\ n \in Nat \ {0}
  BY AmountIsNat, CountIsNat
<1>2. SUM(w, pairs) = t /\ t # Null
  BY <1>1 DEF SUM, Null
<1>3. v = ROUND(t, n)
  BY <1>2 DEF METRIC_SQL
<1>4. QED
  BY <1>1, <1>3, RoundMean

\* No figure over priced rows is NULL.
LEMMA FigureIsNat ==
    ASSUME NEW w, WarehouseOK(w), NEW pairs, PairsOK(w, pairs), pairs # {},
           NEW metric \in Metrics, metric # "orders" => priced(w, pairs) = pairs
    PROVE  METRIC_SQL(w, metric, pairs) \in Nat
<1>1. CASE metric = "orders"
  BY <1>1, OrdersAre
<1>2. CASE metric = "revenue"
  BY <1>2, RevenueIs
<1>3. CASE metric = "aov"
  BY <1>3, MeanIs
<1>4. QED
  BY <1>1, <1>2, <1>3 DEF Metrics

---------------------------------------------------------------------------
(* What a check says when it does not warn.                                *)

\* A response with an answer has everything.
LEMMA AnsweredKnown ==
    ASSUME AnswerInv, response = "answered"
    PROVE  delivered(7) /\ delivered(6) /\ delivered(4) /\ delivered(3)
<1>1. PICK n \in 0..7 : delivered(n) /\ next = n + 1
  BY DEF AnswerInv, Computed
<1>2. next = 8
  BY PipeFacts DEF AnswerInv, Computed
<1>3. delivered(7)
  BY <1>1, <1>2
<1>4. QED
  BY <1>3, DeliveredBefore

\* Without a warning, no check that the plan calls for has warned.
LEMMA NoneWarned ==
    ASSUME AnswerInv, delivered(6), warned(payload.checks) = {},
           NEW c \in Checks, runs(c, p_)
    PROVE  foundBy(c, warehouse, p_, frame_).status # WARN
<1>1. PICK i \in 1..Len(selected(p_)) : selected(p_)[i] = c
  BY AllSelected
<1>2. /\ i \in DOMAIN payload.checks
      /\ payload.checks[i] = foundBy(c, warehouse, p_, frame_)
  BY <1>1, AuditKnown
<1>3. payload.checks[i].status # WARN
  BY <1>2 DEF warned
<1>4. QED
  BY <1>2, <1>3

\* Some check has, otherwise.
LEMMA SomeWarned ==
    ASSUME AnswerInv, delivered(6), warned(payload.checks) # {}
    PROVE  \E c \in Checks : runs(c, p_) /\ foundBy(c, warehouse, p_, frame_).status = WARN
<1>1. PICK i \in DOMAIN payload.checks : payload.checks[i].status = WARN
  BY DEF warned
<1>2. QED
  BY <1>1, AuditKnown

\* A verified answer has had its audit, and no check of it warned.
LEMMA VerifiedKnown ==
    ASSUME AnswerInv, Done(VERIFIED)
    PROVE  delivered(6) /\ warned(payload.checks) = {}
BY AnsweredKnown DEF Done, delivered, verdict, VERIFIED, QUALIFIED, UNVERIFIED

\* If the check for NULLs is content, there are none.
LEMMA AllPriced ==
    ASSUME NEW w, WarehouseOK(w), NEW p, NEW frame,
           null_metric(w, p, frame).status # WARN
    PROVE  /\ \A i \in DOMAIN w.facts : w.facts[i].revenue # Null
           /\ \A pairs : PairsOK(w, pairs) => priced(w, pairs) = pairs
<1> DEFINE S == source(w, FALSE)
           P == priced(w, S)
<1>1. S = (DOMAIN w.facts) \X {0} /\ IsFiniteSet(S) /\ Cardinality(S) = Len(w.facts)
  BY RowsAsPairs, Tables DEF source, PairsOK
<1>2. Len(w.facts) - Cardinality(P) = 0
  BY DEF null_metric, finding, scalar
<1>3. P \subseteq S
  BY DEF priced
<1>4. P = S
  <2> HIDE DEF S, P
  <2>1. Cardinality(P) \in Nat
    BY <1>1, <1>3, FS_Subset, FS_CardinalityType
  <2>2. Cardinality(P) = Cardinality(S)
    BY <1>1, <1>2, <2>1, Tables
  <2>3. QED
    BY <1>1, <1>3, <2>2, FS_Subset
<1>5. ASSUME NEW i \in DOMAIN w.facts PROVE w.facts[i].revenue # Null
  <2>1. <<i, 0>> \in P
    BY <1>1, <1>4
  <2>2. QED
    BY <2>1 DEF priced
<1>6. QED
  BY <1>5 DEF priced, PairsOK

---------------------------------------------------------------------------
(* A verified answer can be served.                                        *)

\* Who belongs to a group, as pairs of rows.
LEMMA PairsOf ==
    ASSUME NEW w, WarehouseOK(w), NEW query, NEW b
    PROVE  PairsOK(w, pairsOf(w, query, b)) /\ pairsOf(w, query, b) \subseteq source(w, query.join)
<1>1. pairsOf(w, query, b) \subseteq source(w, query.join)
  BY DEF pairsOf
<1>2. QED
  BY <1>1, SourceFinite, FS_Subset DEF PairsOK

\* Every row of the answer is a group of its query, over at least one fact.
LEMMA RowKnown ==
    ASSUME AnswerInv, delivered(4), NEW i \in DOMAIN frame_
    PROVE  /\ frame_[i].key \in bucketsOf(warehouse, payload.sql)
           /\ frame_[i] = rowOf(warehouse, payload.sql, frame_[i].key)
           /\ frame_[i].value = METRIC_SQL(warehouse, p_.metric,
                                     pairsOf(warehouse, payload.sql, frame_[i].key))
           /\ facts # <<>> => pairsOf(warehouse, payload.sql, frame_[i].key) # {}
<1> DEFINE row == frame_[i]
           query == payload.sql
<1>1. delivered(3) /\ WarehouseOK(warehouse) /\ row \in groups(warehouse, query)
  BY FrameKnown
<1>2. PICK b \in bucketsOf(warehouse, query) : row = rowOf(warehouse, query, b)
  BY <1>1, GroupsAre
<1>3. row.key = b /\ row.value = METRIC_SQL(warehouse, query.metric, pairsOf(warehouse, query, b))
  BY <1>2 DEF rowOf
<1>4. /\ query.metric = p_.metric /\ query.join = (p_.dimension = "segment")
      /\ query.group = CASE p_.intent = "kpi" -> "nothing"
                         [] p_.intent = "trend" -> p_.grain
                         [] OTHER -> p_.dimension
      /\ PlanOK(p_)
  BY <1>1, QueryKnown
<1>5. facts # <<>> => pairsOf(warehouse, query, b) # {}
  <2>1. CASE p_.intent = "kpi"
    <3>1. query.group = "nothing" /\ query.join = FALSE
      BY <1>4, <2>1 DEF PlanOK, NoDimension
    <3>2. b = "all"
      BY <1>2, <3>1 DEF bucketsOf
    <3>3. pairsOf(warehouse, query, b) = (DOMAIN facts) \X {0}
      <4>1. \A p : bucket(warehouse, query.group, p) = "all"
        BY <3>1 DEF bucket, Grains
      <4>2. source(warehouse, query.join) = (DOMAIN facts) \X {0}
        BY <3>1 DEF source, facts
      <4>3. QED
        BY <3>2, <4>1, <4>2 DEF pairsOf
    <3>4. facts # <<>> => 1 \in DOMAIN facts
      BY <1>1 DEF WarehouseOK, facts
    <3>5. facts # <<>> => <<1, 0>> \in (DOMAIN facts) \X {0}
      BY <3>4
    <3>6. QED
      BY <3>3, <3>5
  <2>2. CASE p_.intent # "kpi"
    <3>1. query.group # "nothing"
      BY <1>1, <1>4, <2>2, QueryKnown DEF PlanOK, accepts, Grains, Dimensions, Intents, NoDimension
    <3>2. PICK p \in source(warehouse, query.join) : b = bucket(warehouse, query.group, p)
      BY <1>2, <3>1 DEF bucketsOf
    <3>3. QED
      BY <3>2 DEF pairsOf
  <2>3. QED
    BY <2>1, <2>2
<1>6. QED
  BY <1>2, <1>3, <1>4, <1>5

\* Where the audit does not warn of NULLs, there are none to be counted.
LEMMA PricedUnlessOrders ==
    ASSUME AnswerInv, delivered(6), warned(payload.checks) = {}, p_.metric # "orders"
    PROVE  /\ \A i \in DOMAIN facts : facts[i].revenue # Null
           /\ \A pairs : PairsOK(warehouse, pairs) => priced(warehouse, pairs) = pairs
<1>1. runs("null_metric", p_) /\ "null_metric" \in Checks
  BY DEF runs, handles, declines, Checks
<1>2. foundBy("null_metric", warehouse, p_, frame_).status # WARN
  BY <1>1, NoneWarned
<1>3. null_metric(warehouse, p_, frame_).status # WARN
  BY <1>2 DEF foundBy
<1>4. WarehouseOK(warehouse)
  BY FrameKnown, DeliveredBefore
<1>5. QED
  BY <1>3, <1>4, AllPriced DEF facts

\* Without a warning no figure shown is NULL.
LEMMA FigureKnown ==
    ASSUME AnswerInv, delivered(6), warned(payload.checks) = {}, facts # <<>>,
           NEW i \in DOMAIN frame_
    PROVE  frame_[i].value \in Nat
<1> DEFINE pairs == pairsOf(warehouse, payload.sql, frame_[i].key)
<1>1. delivered(4) /\ delivered(3)
  BY DeliveredBefore
<1>2. WarehouseOK(warehouse) /\ PairsOK(warehouse, pairs) /\ p_.metric \in Metrics
  BY <1>1, FrameKnown, PairsOf, QueryKnown DEF PlanOK
<1>3. pairs # {} /\ frame_[i].value = METRIC_SQL(warehouse, p_.metric, pairs)
  BY <1>1, RowKnown
<1>4. p_.metric # "orders" => priced(warehouse, pairs) = pairs
  BY <1>2, PricedUnlessOrders
<1> HIDE DEF pairs
<1>5. QED
  BY <1>2, <1>3, <1>4, FigureIsNat

\* filters.py and routes.py, a verified answer about some facts never holds a
\* NaN, which the JSON encoder would refuse after the verdict.
THEOREM VerifiedCanBeServed == Spec => []VerifiedIsServable
<1>1. AnswerInv => VerifiedIsServable
  <2> SUFFICES ASSUME AnswerInv, Done(VERIFIED), facts # <<>>,
                      NEW i \in DOMAIN payload.data
               PROVE  payload.data[i].value # Null
    BY DEF VerifiedIsServable
  <2>1. delivered(6) /\ delivered(4) /\ warned(payload.checks) = {}
    BY VerifiedKnown, DeliveredBefore
  <2>2. payload.data = head(frame_)
    BY <2>1 DEF delivered
  <2>3. /\ frame_ \in Seq(groups(warehouse, payload.sql)) /\ Len(frame_) \in Nat
        /\ DOMAIN frame_ = 1..Len(frame_)
    BY <2>1, FrameKnown
  <2> DEFINE m == Min({PREVIEW_ROWS, Len(frame_)})
             shown == SubSeq(frame_, 1, m)
  <2>4. m \in 0..Len(frame_)
    BY <2>3, MinOfTwo, LimitsAssumption
  <2>5. shown \in Seq(groups(warehouse, payload.sql)) /\ Len(shown) = m
        /\ \A j \in 1..m : shown[j] = frame_[j]
    <3> HIDE DEF m
    <3>1. QED
      BY <2>3, <2>4, Shown
  <2>6. payload.data = shown
    BY <2>2 DEF head
  <2> HIDE DEF m, shown
  <2>7. i \in 1..m /\ payload.data[i] = frame_[i] /\ i \in DOMAIN frame_
    BY <2>3, <2>4, <2>5, <2>6
  <2>8. frame_[i].value \in Nat
    BY <2>1, <2>7, FigureKnown
  <2>9. QED
    BY <2>7, <2>8 DEF Null
<1>2. QED
  BY <1>1, AnswerHolds, PTL

---------------------------------------------------------------------------
(* The figure of a group is the figure of the facts that belong to it.     *)

\* A join with customers loses no fact that the answer is about.
NothingLost == p_.intent = "trend" /\ p_.dimension = "segment" => orphans(warehouse) = {}

\* Without a warning a join with customers has found them all.
LEMMA NoOrphans ==
    ASSUME AnswerInv, delivered(6), warned(payload.checks) = {},
           p_.dimension = "segment"
    PROVE  orphans(warehouse) = {}
<1>1. runs("join_integrity", p_) /\ "join_integrity" \in Checks
  BY DEF runs, handles, declines, Checks
<1>2. foundBy("join_integrity", warehouse, p_, frame_).status # WARN
  BY <1>1, NoneWarned
<1>3. join_integrity(warehouse, p_, frame_).status # WARN
  BY <1>2 DEF foundBy
<1>4. Cardinality(orphans(warehouse)) = 0
  BY <1>3 DEF join_integrity, finding, scalar
<1>5. WarehouseOK(warehouse)
  BY FrameKnown, DeliveredBefore
<1>6. IsFiniteSet(orphans(warehouse))
  BY <1>5, Tables, FS_Subset DEF orphans
<1>7. QED
  BY <1>4, <1>6, FS_EmptySet

\* The facts that belong to a key are those of its group, each once.
LEMMA BelongingIs ==
    ASSUME AnswerInv, delivered(4), Keyed, NothingLost, NEW b,
           p_.intent = "kpi" => b = "all"
    PROVE  /\ belonging(b) \subseteq DOMAIN facts
           /\ OncePerFact(pairsOf(warehouse, payload.sql, b))
           /\ belonging(b) = {p[1] : p \in pairsOf(warehouse, payload.sql, b)}
<1> DEFINE query == payload.sql
           pairs == pairsOf(warehouse, query, b)
           match(i, j) == facts[i].customer = warehouse.customers[j].customer
           in(i) == IF p_.intent = "kpi" THEN TRUE
                    ELSE IF p_.intent = "trend" THEN DATE_TRUNC(p_.grain, facts[i].day) = b
                    ELSE IF p_.dimension = "segment"
                    THEN \E j \in DOMAIN warehouse.customers :
                            /\ warehouse.customers[j].customer = facts[i].customer
                            /\ warehouse.customers[j].segment = b
                    ELSE facts[i][p_.dimension] = b
<1>1. /\ query.join = (p_.dimension = "segment")
      /\ query.group = CASE p_.intent = "kpi" -> "nothing"
                         [] p_.intent = "trend" -> p_.grain
                         [] OTHER -> p_.dimension
      /\ PlanOK(p_) /\ accepts(p_) /\ WarehouseOK(warehouse)
  BY FrameKnown, QueryKnown
<1>2. belonging(b) = {i \in DOMAIN facts : in(i)}
  BY Zenon DEF belonging
<1>3. \A i, j \in DOMAIN warehouse.customers :
         warehouse.customers[i].customer = warehouse.customers[j].customer => i = j
  BY DEF Keyed
<1>4. CASE p_.dimension # "segment"
  <2>1. source(warehouse, query.join) = (DOMAIN facts) \X {0}
    BY <1>1, <1>4 DEF source, facts
  <2>2. \A i \in DOMAIN facts : in(i) <=> bucket(warehouse, query.group, <<i, 0>>) = b
    <3>1. CASE p_.intent = "kpi"
      BY <1>1, <3>1 DEF bucket, Grains
    <3>2. CASE p_.intent = "trend"
      BY <1>1, <3>2 DEF bucket, PlanOK, Grains, facts
    <3>3. CASE p_.intent \notin {"kpi", "trend"}
      <4>1. query.group = p_.dimension /\ p_.dimension \in {"region", "category"}
        BY <1>1, <1>4, <3>3 DEF PlanOK, Dimensions, accepts
      <4>2. QED
        BY <1>4, <3>3, <4>1 DEF bucket, Grains, facts
    <3>4. QED
      BY <3>1, <3>2, <3>3
  <2>3. pairs = {p \in (DOMAIN facts) \X {0} : bucket(warehouse, query.group, p) = b}
    BY <2>1 DEF pairsOf
  <2> HIDE DEF in, query
  <2>4. \A i \in DOMAIN facts : in(i) <=> <<i, 0>> \in pairs
    BY <2>2, <2>3
  <2>5. \A p \in pairs : p[1] \in DOMAIN facts /\ p = <<p[1], 0>>
    BY <2>3
  <2> HIDE DEF pairs
  <2>6. belonging(b) = {p[1] : p \in pairs}
    BY <1>2, <2>4, <2>5
  <2>7. OncePerFact(pairs)
    BY <2>5 DEF OncePerFact
  <2>8. QED
    BY <1>2, <2>6, <2>7 DEF pairs, query
<1>5. CASE p_.dimension = "segment"
  <2>1. source(warehouse, query.join)
           = {p \in (DOMAIN facts) \X (DOMAIN warehouse.customers) : match(p[1], p[2])}
    BY <1>1, <1>5 DEF source, facts
  <2>2. p_.intent # "kpi"
    BY <1>1, <1>5 DEF PlanOK, NoDimension
  <2>3. \A i \in DOMAIN facts : in(i) <=>
           \E j \in DOMAIN warehouse.customers :
              match(i, j) /\ bucket(warehouse, query.group, <<i, j>>) = b
    <3>1. CASE p_.intent = "trend"
      <4>1. \A i \in DOMAIN facts : \E j \in DOMAIN warehouse.customers : match(i, j)
        BY <1>5, <3>1 DEF NothingLost, orphans, facts
      <4>2. \A i \in DOMAIN facts : \A j \in DOMAIN warehouse.customers :
               bucket(warehouse, query.group, <<i, j>>) = DATE_TRUNC(p_.grain, facts[i].day)
        BY <1>1, <3>1 DEF bucket, PlanOK, Grains, facts
      <4>3. QED
        BY <3>1, <4>1, <4>2
    <3>2. CASE p_.intent # "trend"
      <4>1. query.group = "segment"
        BY <1>1, <1>5, <2>2, <3>2
      <4>2. \A i \in DOMAIN facts : \A j \in DOMAIN warehouse.customers :
               bucket(warehouse, query.group, <<i, j>>) = warehouse.customers[j].segment
        BY <4>1 DEF bucket, Grains
      <4>3. QED
        BY <1>5, <2>2, <3>2, <4>2
    <3>3. QED
      BY <3>1, <3>2
  <2>4. pairs = {p \in source(warehouse, query.join) : bucket(warehouse, query.group, p) = b}
    BY DEF pairsOf
  <2> HIDE DEF in, query
  <2>5. \A i \in DOMAIN facts : in(i) <=>
           \E j \in DOMAIN warehouse.customers : <<i, j>> \in pairs
    BY <2>1, <2>3, <2>4
  <2>6. \A p \in pairs : /\ p[1] \in DOMAIN facts /\ p[2] \in DOMAIN warehouse.customers
                         /\ p = <<p[1], p[2]>> /\ match(p[1], p[2])
    BY <2>1, <2>4
  <2> HIDE DEF pairs
  <2>7. \A i \in DOMAIN facts : in(i) <=> \E p \in pairs : p[1] = i
    <3>1. \A i, j : <<i, j>>[1] = i
      OBVIOUS
    <3>2. ASSUME NEW i \in DOMAIN facts, in(i) PROVE \E p \in pairs : p[1] = i
      <4>1. PICK j \in DOMAIN warehouse.customers : <<i, j>> \in pairs
        BY <2>5, <3>2
      <4>2. QED
        BY <3>1, <4>1
    <3>3. ASSUME NEW i \in DOMAIN facts, NEW p \in pairs, p[1] = i PROVE in(i)
      <4>1. p[2] \in DOMAIN warehouse.customers /\ <<i, p[2]>> \in pairs
        BY <2>6, <3>3
      <4>2. QED
        BY <2>5, <4>1
    <3>4. QED
      BY <3>2, <3>3
  <2>8. belonging(b) = {p[1] : p \in pairs}
    BY <1>2, <2>6, <2>7
  <2>9. OncePerFact(pairs)
    <3> SUFFICES ASSUME NEW p \in pairs, NEW q \in pairs, p[1] = q[1] PROVE p = q
      BY DEF OncePerFact
    <3>1. p[2] = q[2]
      BY <1>3, <2>6
    <3>2. QED
      BY <2>6, <3>1
  <2>10. QED
    BY <1>2, <2>8, <2>9 DEF pairs, query
<1>6. QED
  BY <1>4, <1>5

\* The figure of the facts that belong to a bucket is what its group shows.
LEMMA ValueOfBucket ==
    ASSUME AnswerInv, delivered(4), Keyed, NothingLost, NEW b,
           p_.intent = "kpi" => b = "all"
    PROVE  /\ belonging(b) \subseteq DOMAIN facts
           /\ rowOf(warehouse, payload.sql, b).value = value(belonging(b))
           /\ pairsOf(warehouse, payload.sql, b) # {} => belonging(b) # {}
<1> DEFINE pairs == pairsOf(warehouse, payload.sql, b)
           rows == belonging(b)
<1>1. /\ rows \subseteq DOMAIN facts /\ OncePerFact(pairs)
      /\ rows = {p[1] : p \in pairs}
  BY BelongingIs
<1>2. WarehouseOK(warehouse) /\ PairsOK(warehouse, pairs) /\ payload.sql.metric = p_.metric
  BY FrameKnown, PairsOf, QueryKnown
<1>3. rowOf(warehouse, payload.sql, b).value = METRIC_SQL(warehouse, p_.metric, pairs)
  BY <1>2 DEF rowOf
<1> HIDE DEF pairs, rows
<1>4. METRIC_SQL(warehouse, p_.metric, pairs) = METRIC_SQL(warehouse, p_.metric, rows \X {0})
  BY <1>1, <1>2, MetricByRows
<1>5. rows # {} \/ pairs = {}
  BY <1>1
<1>6. QED
  BY <1>1, <1>3, <1>4, <1>5 DEF value, pairs, rows

\* Every figure shown is its facts' figure.
LEMMA ValueShown ==
    ASSUME AnswerInv, delivered(4), Keyed, NothingLost, facts # <<>>,
           NEW i \in DOMAIN frame_
    PROVE  /\ belonging(frame_[i].key) \subseteq DOMAIN facts
           /\ belonging(frame_[i].key) # {}
           /\ frame_[i].value = value(belonging(frame_[i].key))
<1> DEFINE b == frame_[i].key
<1>1. /\ b \in bucketsOf(warehouse, payload.sql)
      /\ frame_[i] = rowOf(warehouse, payload.sql, b)
      /\ pairsOf(warehouse, payload.sql, b) # {}
  BY RowKnown
<1>2. p_.intent = "kpi" => b = "all"
  <2>1. p_.intent = "kpi" => payload.sql.group = "nothing"
    BY FrameKnown, QueryKnown
  <2>2. QED
    BY <1>1, <2>1 DEF bucketsOf
<1> HIDE DEF b
<1>3. QED
  BY <1>1, <1>2, ValueOfBucket DEF b

\* The figure of priced facts is right to the cent.
LEMMA FigureIsRight ==
    ASSUME AnswerInv, delivered(1), NEW rows, rows \subseteq DOMAIN facts, rows # {},
           WarehouseOK(warehouse),
           p_.metric # "orders" => \A i \in rows : facts[i].revenue # Null
    PROVE  /\ value(rows) \in Nat
           /\ distance(value(rows), rows) <=
                CASE p_.metric = "orders" -> 0
                  [] p_.metric = "revenue" -> 1
                  [] p_.metric = "aov" -> Cardinality(rows)
<1> DEFINE pairs == rows \X {0}
           v == value(rows)
           t == amount(warehouse, pairs)
           n == Cardinality(rows)
<1>1. /\ PairsOK(warehouse, pairs) /\ pairs # {}
      /\ Cardinality(pairs) = n /\ IsFiniteSet(rows)
  BY RowsAsPairs DEF facts
<1>2. p_.metric # "orders" => priced(warehouse, pairs) = pairs
  BY DEF priced, facts
<1>3. v = METRIC_SQL(warehouse, p_.metric, pairs)
  BY DEF value
<1>4. n \in Nat \ {0} /\ t \in Nat
  BY <1>1, CountIsNat, AmountIsNat
<1>5. p_.metric \in Metrics
  BY PlanKnown DEF PlanOK
<1>6. v \in Nat
  <2> HIDE DEF pairs, v
  <2>1. QED
    BY <1>1, <1>2, <1>3, <1>5, FigureIsNat
<1>7. CASE p_.metric = "orders"
  <2>1. v - ONE * n = 0
    BY <1>1, <1>3, <1>4, <1>7, OrdersAre DEF ONE
  <2>2. distance(v, rows) = 0
    BY <1>7, <2>1 DEF distance
  <2>3. QED
    BY <1>6, <1>7, <2>2
<1>8. CASE p_.metric = "revenue"
  <2>1. v <= t + 1 /\ t <= v + 1
    <3> HIDE DEF pairs, v, t
    <3>1. v = METRIC_SQL(warehouse, "revenue", pairs) /\ v # Null
      BY <1>3, <1>6, <1>8 DEF Null
    <3>2. QED
      BY <1>1, <3>1, RevenueIs DEF t
  <2>2. distance(v, rows) = IF v - t < 0 THEN -(v - t) ELSE v - t
    BY <1>8 DEF distance
  <2>3. QED
    BY <1>4, <1>6, <1>8, <2>1, <2>2
<1>9. CASE p_.metric = "aov"
  <2>1. v * n <= t + n /\ t <= v * n + n
    <3> HIDE DEF v, t, n, pairs
    <3>1. v = METRIC_SQL(warehouse, "aov", pairs)
      BY <1>3, <1>9
    <3>2. priced(warehouse, pairs) = pairs
      BY <1>2, <1>9
    <3>3. t = amount(warehouse, pairs) /\ n = Cardinality(pairs)
      BY <1>1 DEF t
    <3>4. QED
      BY <1>1, <3>1, <3>2, <3>3, MeanIs
  <2>2. distance(v, rows) = IF v * n - t < 0 THEN -(v * n - t) ELSE v * n - t
    BY <1>9 DEF distance
  <2>3. v * n \in Nat
    <3> HIDE DEF v, n
    <3>1. QED
      BY <1>4, <1>6
  <2>4. distance(v, rows) <= n
    <3> DEFINE x == v * n
    <3>1. x \in Nat /\ x <= t + n /\ t <= x + n
      BY <2>1, <2>3
    <3>2. distance(v, rows) = IF x - t < 0 THEN -(x - t) ELSE x - t
      BY <2>2
    <3> HIDE DEF x, v, t, n
    <3>3. QED
      BY <1>4, <3>1, <3>2
  <2>5. QED
    BY <1>6, <1>9, <2>4
<1>10. QED
  BY <1>5, <1>7, <1>8, <1>9 DEF Metrics

\* A group of no facts has no figure but a count of none.
LEMMA NoFactsIsRight ==
    ASSUME AnswerInv, delivered(4), facts = <<>>, NEW i \in DOMAIN frame_
    PROVE  isRight(frame_[i])
<1> DEFINE pairs == pairsOf(warehouse, payload.sql, frame_[i].key)
           v == frame_[i].value
           rows == belonging(frame_[i].key)
<1>1. delivered(3) /\ WarehouseOK(warehouse) /\ DOMAIN facts = {}
  BY FrameKnown
<1>2. p_.metric \in Metrics
  BY <1>1, QueryKnown DEF PlanOK
<1>3. rows = {}
  BY <1>1 DEF belonging
<1>4. pairs = {}
  BY <1>1, SourceFinite DEF pairsOf, facts
<1>5. v = METRIC_SQL(warehouse, p_.metric, pairs)
  BY RowKnown
<1> HIDE DEF pairs, v, rows
<1>6. Cardinality({}) = 0 /\ ONE * Cardinality({}) = 0
  BY FS_EmptySet DEF ONE
<1>7. CASE p_.metric = "orders"
  <2>1. v = 0
    BY <1>4, <1>5, <1>6, <1>7 DEF METRIC_SQL
  <2>2. distance(v, rows) = 0
    BY <1>3, <1>6, <1>7, <2>1 DEF distance
  <2>3. v # Null
    BY <2>1 DEF Null
  <2>4. QED
    BY <1>7, <2>2, <2>3 DEF isRight, v, rows
<1>8. CASE p_.metric # "orders"
  <2>1. v = Null
    BY <1>4, <1>5, <1>8 DEF METRIC_SQL, SUM, priced
  <2>2. QED
    BY <1>3, <1>8, <2>1 DEF isRight, v, rows
<1>9. QED
  BY <1>7, <1>8

\* A row without a caveat is right.
LEMMA ShownIsRight ==
    ASSUME AnswerInv, delivered(6), Keyed, warned(payload.checks) = {},
           NEW i \in DOMAIN frame_
    PROVE  isRight(frame_[i])
<1>1. delivered(4) /\ delivered(1) /\ NothingLost
  BY DeliveredBefore, NoOrphans DEF NothingLost
<1> DEFINE rows == belonging(frame_[i].key)
<1>2. CASE facts = <<>>
  BY <1>1, <1>2, NoFactsIsRight
<1>3. CASE facts # <<>>
  <2>1. rows \subseteq DOMAIN facts /\ rows # {} /\ frame_[i].value = value(rows)
    BY <1>1, <1>3, ValueShown
  <2>2. p_.metric # "orders" => \A k \in rows : facts[k].revenue # Null
    BY <2>1, PricedUnlessOrders
  <2>3. WarehouseOK(warehouse)
    BY <1>1, FrameKnown
  <2>4. /\ value(rows) \in Nat
        /\ distance(value(rows), rows) <=
             CASE p_.metric = "orders" -> 0
               [] p_.metric = "revenue" -> 1
               [] p_.metric = "aov" -> Cardinality(rows)
    <3> HIDE DEF rows
    <3>1. QED
      BY <1>1, <2>1, <2>2, <2>3, FigureIsRight
  <2>5. frame_[i].value # Null
    BY <2>1, <2>4 DEF Null
  <2>6. distance(frame_[i].value, rows) <=
          CASE p_.metric = "orders" -> 0
            [] p_.metric = "revenue" -> 1
            [] p_.metric = "aov" -> Cardinality(rows)
    <3> HIDE DEF rows
    <3>1. QED
      BY <2>1, <2>4
  <2>7. QED
    BY <2>5, <2>6, Zenon DEF isRight
<1>4. QED
  BY <1>2, <1>3

---------------------------------------------------------------------------
(* Which keys are shown.                                                   *)

\* The frame is in order; whoever is not shown is behind, and there were too many.
LEMMA OrderKnown ==
    ASSUME AnswerInv, delivered(4)
    PROVE  /\ \A i \in DOMAIN frame_ : \A j \in DOMAIN frame_ :
                 /\ i # j => frame_[i] # frame_[j]
                 /\ i < j => inOrder(payload.sql.order, frame_[i], frame_[j])
           /\ \A row \in groups(warehouse, payload.sql) :
                 (\A i \in DOMAIN frame_ : frame_[i] # row) =>
                    /\ Cardinality(groups(warehouse, payload.sql)) > payload.sql.limit
                    /\ \A i \in DOMAIN frame_ : inOrder(payload.sql.order, frame_[i], row)
<1>1. /\ WarehouseOK(warehouse) /\ delivered(3) /\ DOMAIN frame_ = 1..Len(frame_)
      /\ frame_ \in results(warehouse, payload.sql)
  BY FrameKnown
<1>2. payload.sql.limit \in Nat \ {0}
  BY <1>1, QueryKnown
<1> DEFINE all == groups(warehouse, payload.sql)
           n == Len(frame_)
<1>3. /\ \A i \in 1..n : \A j \in 1..n :
            /\ i # j => frame_[i] # frame_[j]
            /\ i < j => inOrder(payload.sql.order, frame_[i], frame_[j])
      /\ \A row \in all : (\A i \in 1..n : frame_[i] # row) =>
            /\ Cardinality(all) > payload.sql.limit
            /\ \A i \in 1..n : inOrder(payload.sql.order, frame_[i], row)
  BY <1>1, <1>2, ResultsAre, Zenon
<1>4. QED
  BY <1>1, <1>3

\* No key is shown twice.
LEMMA KeysShown ==
    ASSUME AnswerInv, delivered(4)
    PROVE  /\ \A i \in DOMAIN frame_ : \A j \in DOMAIN frame_ :
                 frame_[i].key = frame_[j].key => i = j
           /\ IsFiniteSet(shownKeys) /\ Cardinality(shownKeys) = Len(frame_)
           /\ IsFiniteSet(DOMAIN frame_) /\ Cardinality(DOMAIN frame_) = Len(frame_)
<1>1. \A i \in DOMAIN frame_ : \A j \in DOMAIN frame_ :
         frame_[i].key = frame_[j].key => i = j
  BY OrderKnown, RowKnown
<1> DEFINE D == DOMAIN frame_
           h == [i \in D |-> frame_[i].key]
<1>2. D = 1..Len(frame_) /\ Len(frame_) \in Nat
  BY FrameKnown
<1>3. IsFiniteSet(D) /\ Cardinality(D) = Len(frame_)
  <2> HIDE DEF D
  <2>1. \A n \in Nat : IsFiniteSet(1..n) /\ Cardinality(1..n) = n
    BY FS_Interval
  <2>2. QED
    BY <1>2, <2>1
<1>4. h \in Bijection(D, shownKeys)
  BY <1>1 DEF Bijection, Injection, Surjection, IsInjective, shownKeys
<1> HIDE DEF D, h
<1>5. IsFiniteSet(shownKeys) /\ Cardinality(shownKeys) = Cardinality(D)
  BY <1>3, <1>4, FS_Bijection DEF ExistsBijection
<1>6. QED
  BY <1>1, <1>3, <1>5 DEF D

---------------------------------------------------------------------------
(* The extremes of a set of numbers.                                       *)

\* The greatest of a finite set of integers.
LEMMA MaxOfSet ==
    ASSUME NEW S, IsFiniteSet(S), S \subseteq Int, S # {}
    PROVE  Max(S) \in S /\ \A y \in S : Max(S) >= y
<1> DEFINE T == {s \in SUBSET S : s # {} => \E x \in s : \A y \in s : x >= y}
<1>1. {} \in T
  OBVIOUS
<1>2. ASSUME NEW s \in SUBSET S, NEW x \in S \ s, s \in T
      PROVE  s \cup {x} \in T
  <2>1. CASE s = {}
    BY <1>2, <2>1
  <2>2. CASE s # {}
    <3>1. PICK z \in s : \A y \in s : z >= y
      BY <1>2, <2>2
    <3>2. CASE z >= x
      <4>1. \A y \in s \cup {x} : z >= y
        BY <3>1, <3>2
      <4>2. QED
        BY <4>1
    <3>3. CASE ~(z >= x)
      <4>1. \A y \in s \cup {x} : x >= y
        BY <3>1, <3>3
      <4>2. QED
        BY <4>1
    <3>4. QED
      BY <3>2, <3>3
  <2>3. QED
    BY <2>1, <2>2
<1>3. S \in T
  <2> HIDE DEF T
  <2>1. QED
    BY <1>1, <1>2, SetsGrow
<1>4. \E x \in S : \A y \in S : x >= y
  BY <1>3
<1>5. QED
  BY <1>4 DEF Max

\* The least of a finite set of integers.
LEMMA MinOfSet ==
    ASSUME NEW S, IsFiniteSet(S), S \subseteq Int, S # {}
    PROVE  Min(S) \in S /\ \A y \in S : Min(S) <= y
<1> DEFINE T == {s \in SUBSET S : s # {} => \E x \in s : \A y \in s : x <= y}
<1>1. {} \in T
  OBVIOUS
<1>2. ASSUME NEW s \in SUBSET S, NEW x \in S \ s, s \in T
      PROVE  s \cup {x} \in T
  <2>1. CASE s = {}
    BY <1>2, <2>1
  <2>2. CASE s # {}
    <3>1. PICK z \in s : \A y \in s : z <= y
      BY <1>2, <2>2
    <3>2. CASE z <= x
      <4>1. \A y \in s \cup {x} : z <= y
        BY <3>1, <3>2
      <4>2. QED
        BY <4>1
    <3>3. CASE ~(z <= x)
      <4>1. \A y \in s \cup {x} : x <= y
        BY <3>1, <3>3
      <4>2. QED
        BY <4>1
    <3>4. QED
      BY <3>2, <3>3
  <2>3. QED
    BY <2>1, <2>2
<1>3. S \in T
  <2> HIDE DEF T
  <2>1. QED
    BY <1>1, <1>2, SetsGrow
<1>4. \E x \in S : \A y \in S : x <= y
  BY <1>3
<1>5. QED
  BY <1>4 DEF Min

---------------------------------------------------------------------------
(* Trends.                                                                 *)

\* The periods of finitely many orders.
LEMMA PeriodsAre ==
    ASSUME NEW w, WarehouseOK(w), NEW grain
    PROVE  /\ IsFiniteSet(periods(w, grain)) /\ periods(w, grain) \subseteq Nat
           /\ \A i \in DOMAIN w.facts : DATE_TRUNC(grain, w.facts[i].day) \in Nat \cup {Null}
<1>1. ASSUME NEW i \in DOMAIN w.facts
      PROVE  DATE_TRUNC(grain, w.facts[i].day) \in Nat \cup {Null}
  <2>1. w.facts[i].day \in Nat \cup {Null}
    BY Tables
  <2>2. \A d \in Nat : d \div DaysPerMonth \in Nat
    BY DaysPerMonthAssumption, Quotient
  <2>3. QED
    BY <2>1, <2>2 DEF DATE_TRUNC
<1> DEFINE h == [i \in DOMAIN w.facts |-> DATE_TRUNC(grain, w.facts[i].day)]
<1>2. IsFiniteSet({h[i] : i \in DOMAIN w.facts})
  BY Tables, ImageFinite
<1>3. periods(w, grain) \subseteq {h[i] : i \in DOMAIN w.facts}
  BY DEF periods
<1>4. IsFiniteSet(periods(w, grain))
  <2> HIDE DEF h
  <2>1. QED
    BY <1>2, <1>3, FS_Subset
<1>5. QED
  BY <1>1, <1>4 DEF periods

\* The calendar, if there is one, runs from the first period to the last.
LEMMA CalendarIs ==
    ASSUME NEW w, WarehouseOK(w), NEW grain, calendar(w, grain) # Null,
           NEW due, due = Min(periods(w, grain))..Max(periods(w, grain))
    PROVE  /\ periods(w, grain) # {} /\ periods(w, grain) \subseteq due /\ Null \notin due
           /\ IsFiniteSet(due) /\ Cardinality(due) = calendar(w, grain)
<1> DEFINE P == periods(w, grain)
<1>1. P # {} /\ calendar(w, grain) = Max(P) - Min(P) + 1
  BY DEF calendar
<1>2. IsFiniteSet(P) /\ P \subseteq Nat
  BY PeriodsAre
<1> HIDE DEF P
<1>3. Max(P) \in P /\ Min(P) \in P /\ (\A y \in P : Min(P) <= y /\ Max(P) >= y)
  <2>1. P \subseteq Int
    BY <1>2
  <2>2. Max(P) \in P /\ \A y \in P : Max(P) >= y
    BY <1>1, <1>2, <2>1, MaxOfSet
  <2>3. Min(P) \in P /\ \A y \in P : Min(P) <= y
    BY <1>1, <1>2, <2>1, MinOfSet
  <2>4. QED
    BY <2>2, <2>3
<1> DEFINE a == Min(P)
           b == Max(P)
<1>4. a \in Nat /\ b \in Nat /\ a <= b
  BY <1>2, <1>3
<1>5. due = a..b
  BY DEF P
<1>6. calendar(w, grain) = b - a + 1
  BY <1>1
<1>7. P \subseteq a..b
  BY <1>2, <1>3, <1>4
<1> HIDE DEF a, b
<1>8. IsFiniteSet(a..b) /\ Cardinality(a..b) = b - a + 1 /\ Null \notin a..b
  BY <1>4, FS_Interval DEF Null
<1>9. QED
  BY <1>1, <1>5, <1>6, <1>7, <1>8 DEF P

\* The keys of a trend are periods, or stand for undated orders.
LEMMA TrendKeys ==
    ASSUME AnswerInv, delivered(4), p_.intent = "trend"
    PROVE  shownKeys \subseteq periods(warehouse, p_.grain) \cup {Null}
<1>1. payload.sql.group = p_.grain /\ p_.grain \in Grains /\ WarehouseOK(warehouse)
  BY FrameKnown, QueryKnown DEF PlanOK
<1>2. ASSUME NEW i \in DOMAIN frame_
      PROVE  frame_[i].key \in periods(warehouse, p_.grain) \cup {Null}
  <2>1. frame_[i].key \in bucketsOf(warehouse, payload.sql)
    BY RowKnown
  <2>2. PICK p \in source(warehouse, payload.sql.join) :
           frame_[i].key = bucket(warehouse, p_.grain, p)
    BY <1>1, <2>1 DEF bucketsOf, Grains
  <2>3. frame_[i].key = DATE_TRUNC(p_.grain, warehouse.facts[p[1]].day)
    BY <1>1, <2>2 DEF bucket, Grains
  <2>4. p[1] \in DOMAIN warehouse.facts
    BY <1>1, <2>2, SourceFinite
  <2>5. QED
    BY <2>3, <2>4 DEF periods
<1>3. QED
  BY <1>2 DEF shownKeys

\* A trend without a warning has every period, but for one that a NULL may hide.
LEMMA TrendIsComplete ==
    ASSUME AnswerInv, delivered(6), warned(payload.checks) = {}, p_.intent = "trend",
           NEW due, due = Min(periods(warehouse, p_.grain))..Max(periods(warehouse, p_.grain))
    PROVE  Cardinality(due \ shownKeys) <= IF Null \in shownKeys THEN 1 ELSE 0
<1>1. delivered(4) /\ delivered(3)
  BY DeliveredBefore
<1>2. WarehouseOK(warehouse) /\ p_.grain \in Grains
  BY <1>1, FrameKnown, QueryKnown DEF PlanOK
<1> DEFINE expected == calendar(warehouse, p_.grain)
<1>3. expected # Null /\ ~(Len(frame_) < expected)
  <2>1. runs("continuity", p_) /\ "continuity" \in Checks
    BY DEF runs, handles, declines, Checks
  <2>2. continuity(warehouse, p_, frame_).status # WARN
    BY <2>1, NoneWarned DEF foundBy
  <2>3. scalar(warehouse, IF p_.grain = "month" THEN "calendar_month" ELSE "calendar_day")
           = expected
    BY <1>2 DEF scalar, Grains
  <2> HIDE DEF expected
  <2>4. QED
    BY <2>2, <2>3, Zenon DEF continuity, couldNotRun, finding
<1>4. /\ periods(warehouse, p_.grain) \subseteq due /\ Null \notin due
      /\ IsFiniteSet(due) /\ Cardinality(due) = expected
  BY <1>2, <1>3, CalendarIs
<1> HIDE DEF expected
<1>5. due \cap shownKeys = shownKeys \ {Null}
  BY <1>1, <1>4, TrendKeys
<1>6. IsFiniteSet(shownKeys) /\ Cardinality(shownKeys) = Len(frame_) /\ Len(frame_) \in Nat
  BY <1>1, KeysShown, FrameKnown
<1>7. Cardinality(due \ shownKeys) = Cardinality(due) - Cardinality(due \cap shownKeys)
  BY <1>4, FS_Difference
<1>8. Cardinality(shownKeys \ {Null}) = IF Null \in shownKeys THEN Len(frame_) - 1
                                        ELSE Len(frame_)
  BY <1>6, FS_RemoveElement
<1>9. expected \in Nat
  BY <1>4, FS_CardinalityType
<1>10. QED
  <2>1. Cardinality(due \cap shownKeys) = Cardinality(shownKeys \ {Null})
    BY <1>5
  <2>2. CASE Null \in shownKeys
    <3>1. Cardinality(due \ shownKeys) = expected - (Len(frame_) - 1)
      BY <1>4, <1>7, <1>8, <2>1, <2>2
    <3>2. QED
      BY <1>3, <1>6, <1>9, <2>2, <3>1
  <2>3. CASE Null \notin shownKeys
    <3>1. Cardinality(due \ shownKeys) = expected - Len(frame_)
      BY <1>4, <1>7, <1>8, <2>1, <2>3
    <3>2. QED
      BY <1>3, <1>6, <1>9, <2>3, <3>1
  <2>4. QED
    BY <2>2, <2>3

---------------------------------------------------------------------------
(* Rankings.                                                               *)

\* A member somebody belongs to is a group of the query.
LEMMA MemberIsGroup ==
    ASSUME AnswerInv, delivered(4), Keyed, p_.intent \in {"breakdown", "top_n"},
           NEW m, belonging(m) # {}
    PROVE  /\ m \in bucketsOf(warehouse, payload.sql)
           /\ rowOf(warehouse, payload.sql, m) \in groups(warehouse, payload.sql)
           /\ rowOf(warehouse, payload.sql, m).value = value(belonging(m))
<1>1. NothingLost /\ p_.intent # "kpi"
  BY DEF NothingLost
<1>2. rowOf(warehouse, payload.sql, m).value = value(belonging(m))
  BY <1>1, ValueOfBucket
<1>3. belonging(m) = {p[1] : p \in pairsOf(warehouse, payload.sql, m)}
  BY <1>1, BelongingIs
<1>4. PICK p \in source(warehouse, payload.sql.join) :
         bucket(warehouse, payload.sql.group, p) = m
  BY <1>3 DEF pairsOf
<1>5. payload.sql.group # "nothing"
  <2>1. payload.sql.group = p_.dimension /\ p_.dimension \in Dimensions
    BY <1>1, FrameKnown, QueryKnown DEF PlanOK, accepts
  <2>2. QED
    BY <2>1 DEF Dimensions
<1>6. m \in bucketsOf(warehouse, payload.sql)
  BY <1>4, <1>5 DEF bucketsOf
<1>7. QED
  BY <1>2, <1>6, GroupsAre

\* Whoever is not shown has no greater figure than anybody shown.
LEMMA RankedBehind ==
    ASSUME AnswerInv, delivered(4), Keyed, p_.intent \in {"breakdown", "top_n"},
           NEW m, belonging(m) # {}, m \notin shownKeys, NEW i \in DOMAIN frame_
    PROVE  value(belonging(m)) <= frame_[i].value
<1> DEFINE row == rowOf(warehouse, payload.sql, m)
<1>1. /\ row \in groups(warehouse, payload.sql) /\ row.value = value(belonging(m))
  BY MemberIsGroup
<1>2. row.key = m
  BY DEF rowOf
<1>3. \A j \in DOMAIN frame_ : frame_[j] # row
  BY <1>2 DEF shownKeys
<1> HIDE DEF row
<1>4. inOrder(payload.sql.order, frame_[i], row)
  BY <1>1, <1>3, OrderKnown
<1>5. payload.sql.order = "metric"
  BY FrameKnown, QueryKnown
<1>6. frame_[i].value >= row.value
  BY <1>4, <1>5 DEF inOrder
<1>7. QED
  BY <1>1, <1>6

---------------------------------------------------------------------------
(* What an additive metric counts.                                         *)

Additive == p_.metric \in ADDITIVE_METRICS

counted(pairs) == IF p_.metric = "orders" THEN ONE * Cardinality(pairs)
                  ELSE amount(warehouse, pairs)

\* No count is negative.
LEMMA CountedIsNat ==
    ASSUME WarehouseOK(warehouse), NEW pairs, PairsOK(warehouse, pairs)
    PROVE  counted(pairs) \in Nat
BY CountIsNat, AmountIsNat DEF counted, ONE

\* A count is a sum too: every pair adds its revenue, or a dollar.
weights(pairs) ==
    [p \in pairs |-> IF p_.metric = "orders" THEN ONE ELSE warehouse.facts[p[1]].revenue]

weighed(pairs) == IF p_.metric = "orders" THEN pairs ELSE priced(warehouse, pairs)

\* The rows that weigh in, and what they weigh.
LEMMA WeighedFacts ==
    ASSUME WarehouseOK(warehouse), NEW all, PairsOK(warehouse, all),
           NEW pairs, pairs \subseteq all
    PROVE  /\ PairsOK(warehouse, pairs) /\ IsFiniteSet(weighed(pairs))
           /\ weighed(pairs) = pairs \cap weighed(all)
           /\ \A p \in weighed(pairs) : weights(all)[p] \in Int
<1>1. PairsOK(warehouse, pairs)
  BY FS_Subset DEF PairsOK
<1>2. IsFiniteSet(weighed(pairs))
  BY <1>1, PricedOK DEF weighed, PairsOK
<1>3. weighed(pairs) = pairs \cap weighed(all)
  BY DEF weighed, priced
<1>4. \A p \in weighed(pairs) : weights(all)[p] \in Int
  <2>1. \A p \in weighed(pairs) : p \in all
    BY <1>3
  <2>2. CASE p_.metric = "orders"
    BY <2>1, <2>2 DEF weights, ONE
  <2>3. CASE p_.metric # "orders"
    <3>1. \A p \in priced(warehouse, pairs) : warehouse.facts[p[1]].revenue \in Nat
      BY <1>1, PricedOK
    <3>2. QED
      BY <2>1, <2>3, <3>1 DEF weights, weighed
  <2>4. QED
    BY <2>2, <2>3
<1>5. QED
  BY <1>1, <1>2, <1>3, <1>4

\* A count is the sum of the weights.
LEMMA CountedIs ==
    ASSUME WarehouseOK(warehouse), NEW all, PairsOK(warehouse, all),
           NEW pairs, pairs \subseteq all
    PROVE  counted(pairs) = SumOf(weights(all), weighed(pairs))
<1> DEFINE f == weights(all)
<1>1. PairsOK(warehouse, pairs) /\ IsFiniteSet(weighed(pairs))
  BY WeighedFacts
<1>2. CASE p_.metric = "orders"
  <2>1. weighed(pairs) = pairs /\ IsFiniteSet(pairs) /\ \A p \in pairs : f[p] = ONE
    BY <1>1, <1>2 DEF weighed, weights
  <2> HIDE DEF f
  <2>2. SumOf(f, pairs) = ONE * Cardinality(pairs)
    BY <2>1, SumConstant DEF ONE
  <2>3. QED
    BY <1>2, <2>1, <2>2 DEF counted, f
<1>3. CASE p_.metric # "orders"
  <2> DEFINE S == priced(warehouse, pairs)
  <2>1. weighed(pairs) = S /\ \A p \in S : f[p] = warehouse.facts[p[1]].revenue
    BY <1>3 DEF weighed, weights, priced
  <2> HIDE DEF f
  <2>2. amount(warehouse, pairs) = SumOf(f, S)
    <3> HIDE DEF S
    <3>1. S = priced(warehouse, pairs) /\ IsFiniteSet(S)
      BY <1>1, <2>1 DEF S
    <3>2. QED
      BY <2>1, <3>1, AmountIs
  <2>3. QED
    BY <1>3, <2>1, <2>2 DEF counted, f
<1>4. QED
  BY <1>2, <1>3

\* Two parts that share nothing add up.
LEMMA CountedSplit ==
    ASSUME WarehouseOK(warehouse), NEW A, PairsOK(warehouse, A),
           NEW B, PairsOK(warehouse, B), A \cap B = {}
    PROVE  PairsOK(warehouse, A \cup B) /\ counted(A \cup B) = counted(A) + counted(B)
<1> DEFINE all == A \cup B
           f == weights(all)
<1>1. PairsOK(warehouse, all)
  BY FS_Union DEF PairsOK
<1>2. /\ counted(all) = SumOf(f, weighed(all))
      /\ counted(A) = SumOf(f, weighed(A)) /\ counted(B) = SumOf(f, weighed(B))
  <2>1. A \subseteq all /\ B \subseteq all /\ all \subseteq all
    OBVIOUS
  <2> HIDE DEF all
  <2>2. QED
    BY <1>1, <2>1, CountedIs
<1>3. /\ IsFiniteSet(weighed(A)) /\ IsFiniteSet(weighed(B))
      /\ weighed(A) = A \cap weighed(all) /\ weighed(B) = B \cap weighed(all)
      /\ weighed(all) = all \cap weighed(all)
      /\ (\A p \in weighed(A) : f[p] \in Int) /\ (\A p \in weighed(B) : f[p] \in Int)
  <2>1. A \subseteq all /\ B \subseteq all /\ all \subseteq all
    OBVIOUS
  <2> HIDE DEF all
  <2>2. QED
    BY <1>1, <2>1, WeighedFacts
<1>4. weighed(all) = weighed(A) \cup weighed(B) /\ weighed(A) \cap weighed(B) = {}
  BY <1>3
<1>5. SumOf(f, weighed(A) \cup weighed(B)) = SumOf(f, weighed(A)) + SumOf(f, weighed(B))
  <2> HIDE DEF f, all
  <2>1. QED
    BY <1>3, <1>4, SumSplit
<1>6. QED
  BY <1>1, <1>2, <1>4, <1>5

\* More rows never count less.
LEMMA CountedMonotone ==
    ASSUME WarehouseOK(warehouse), NEW B, PairsOK(warehouse, B), NEW A, A \subseteq B
    PROVE  counted(A) <= counted(B)
<1>1. PairsOK(warehouse, A) /\ PairsOK(warehouse, B \ A)
  BY FS_Subset DEF PairsOK
<1>2. counted(A) \in Nat /\ counted(B \ A) \in Nat
  BY <1>1, CountedIsNat
<1>3. A \cup (B \ A) = B /\ A \cap (B \ A) = {}
  OBVIOUS
<1>4. counted(A \cup (B \ A)) = counted(A) + counted(B \ A)
  BY <1>1, <1>3, CountedSplit
<1>5. counted(A \cup (B \ A)) = counted(B)
  BY <1>3, Zenon
<1>6. QED
  BY <1>2, <1>4, <1>5

\* Parts that share nothing add up.
LEMMA CountedByParts ==
    ASSUME WarehouseOK(warehouse), NEW all, PairsOK(warehouse, all),
           NEW K, IsFiniteSet(K), NEW P, NEW e,
           \A k \in K : P[k] \subseteq all /\ e[k] = counted(P[k]),
           \A j \in K : \A k \in K : j # k => P[j] \cap P[k] = {},
           all = UNION {P[k] : k \in K}
    PROVE  counted(all) = SumOf(e, K)
<1> DEFINE f == weights(all)
           W == [k \in K |-> weighed(P[k])]
<1>1. \A k \in K : /\ IsFiniteSet(W[k]) /\ e[k] = SumOf(f, W[k])
                   /\ W[k] = P[k] \cap weighed(all)
                   /\ \A p \in W[k] : f[p] \in Int
  <2> SUFFICES ASSUME NEW k \in K
               PROVE  /\ IsFiniteSet(W[k]) /\ e[k] = SumOf(f, W[k])
                      /\ W[k] = P[k] \cap weighed(all)
                      /\ \A p \in W[k] : f[p] \in Int
    OBVIOUS
  <2>1. W[k] = weighed(P[k])
    OBVIOUS
  <2> HIDE DEF f, W
  <2>2. /\ IsFiniteSet(weighed(P[k])) /\ weighed(P[k]) = P[k] \cap weighed(all)
        /\ \A p \in weighed(P[k]) : f[p] \in Int
    BY WeighedFacts DEF f
  <2>3. counted(P[k]) = SumOf(f, weighed(P[k]))
    BY CountedIs DEF f
  <2>4. QED
    BY <2>1, <2>2, <2>3
<1>2. \A j \in K : \A k \in K : j # k => W[j] \cap W[k] = {}
  <2> HIDE DEF W, f
  <2>1. \A k \in K : W[k] \subseteq P[k]
    BY <1>1
  <2>2. QED
    BY <2>1
<1>3. UNION {W[k] : k \in K} = weighed(all)
  <2> HIDE DEF W
  <2>1. weighed(all) \subseteq all
    BY DEF weighed, priced
  <2>2. QED
    BY <1>1, <2>1
<1>4. SumOf(f, UNION {W[k] : k \in K}) = SumOf(e, K)
  <2> HIDE DEF f, W
  <2>1. QED
    BY <1>1, <1>2, SumOfParts
<1>5. counted(all) = SumOf(f, weighed(all))
  <2> HIDE DEF f, W
  <2>1. QED
    BY CountedIs DEF f
<1>6. QED
  BY <1>3, <1>4, <1>5

---------------------------------------------------------------------------
(* The figures of an answer add up to what they count, give or take half a *)
(* cent a row.                                                             *)

\* The pairs of rows behind the rows shown.
behind == {p \in source(warehouse, payload.sql.join) :
             bucket(warehouse, payload.sql.group, p) \in shownKeys}

pairsAt == [i \in DOMAIN frame_ |-> pairsOf(warehouse, payload.sql, frame_[i].key)]

\* The rows behind an answer are those of its groups, which share none.
LEMMA BehindParts ==
    ASSUME AnswerInv, delivered(4)
    PROVE  /\ PairsOK(warehouse, behind)
           /\ behind \subseteq source(warehouse, payload.sql.join)
           /\ behind = UNION {pairsAt[i] : i \in DOMAIN frame_}
           /\ \A i \in DOMAIN frame_ : pairsAt[i] \subseteq behind
           /\ \A i \in DOMAIN frame_ : \A j \in DOMAIN frame_ :
                 i # j => pairsAt[i] \cap pairsAt[j] = {}
<1>1. WarehouseOK(warehouse)
  BY FrameKnown
<1>2. behind \subseteq source(warehouse, payload.sql.join)
  BY DEF behind
<1>3. PairsOK(warehouse, behind)
  BY <1>1, <1>2, SourceFinite, FS_Subset DEF PairsOK
<1>4. \A i \in DOMAIN frame_ :
         pairsAt[i] = {p \in source(warehouse, payload.sql.join) :
                         bucket(warehouse, payload.sql.group, p) = frame_[i].key}
  BY DEF pairsAt, pairsOf
<1>5. \A i \in DOMAIN frame_ : pairsAt[i] \subseteq behind
  BY <1>4 DEF behind, shownKeys
<1>6. \A p \in behind : \E i \in DOMAIN frame_ : p \in pairsAt[i]
  BY <1>4 DEF behind, shownKeys
<1>7. \A i \in DOMAIN frame_ : \A j \in DOMAIN frame_ :
         i # j => pairsAt[i] \cap pairsAt[j] = {}
  BY <1>4, KeysShown
<1>8. behind = UNION {pairsAt[i] : i \in DOMAIN frame_}
  BY <1>5, <1>6
<1>9. QED
  BY <1>2, <1>3, <1>5, <1>7, <1>8

\* One figure and what it counts.
LEMMA ValueNear ==
    ASSUME AnswerInv, delivered(4), Additive, NEW i \in DOMAIN frame_
    PROVE  /\ counted(pairsAt[i]) \in Nat
           /\ frame_[i].value = Null => counted(pairsAt[i]) = 0
           /\ frame_[i].value # Null =>
                 /\ frame_[i].value \in Nat
                 /\ frame_[i].value <= counted(pairsAt[i]) + 1
                 /\ counted(pairsAt[i]) <= frame_[i].value + 1
<1> DEFINE pairs == pairsOf(warehouse, payload.sql, frame_[i].key)
           v == frame_[i].value
<1>1. WarehouseOK(warehouse) /\ PairsOK(warehouse, pairs) /\ pairsAt[i] = pairs
  BY FrameKnown, PairsOf DEF pairsAt
<1>2. v = METRIC_SQL(warehouse, p_.metric, pairs)
  BY RowKnown
<1> HIDE DEF pairs, v
<1>3. counted(pairs) \in Nat
  BY <1>1, CountedIsNat
<1>4. CASE p_.metric = "orders"
  <2>1. v = counted(pairs)
    BY <1>1, <1>2, <1>4, OrdersAre DEF counted
  <2>2. v # Null
    BY <1>3, <2>1 DEF Null
  <2>3. QED
    BY <1>1, <1>3, <2>1, <2>2 DEF v
<1>5. CASE p_.metric = "revenue"
  <2> DEFINE t == amount(warehouse, pairs)
  <2>1. counted(pairs) = t
    BY <1>5 DEF counted
  <2>2. v = METRIC_SQL(warehouse, "revenue", pairs)
    BY <1>2, <1>5
  <2>3. /\ v = Null => t = 0
        /\ v # Null => v \in Nat /\ v <= t + 1 /\ t <= v + 1
    <3> HIDE DEF t
    <3>1. t = amount(warehouse, pairs)
      BY DEF t
    <3>2. QED
      BY <1>1, <2>2, <3>1, RevenueIs
  <2>4. QED
    BY <1>1, <1>3, <2>1, <2>3 DEF v
<1>6. QED
  BY <1>4, <1>5 DEF Additive, ADDITIVE_METRICS

\* The total shown is off by no more than half a cent for each row shown.
LEMMA TotalNear ==
    ASSUME AnswerInv, delivered(4), Additive
    PROVE  /\ total(frame_) \in Int /\ counted(behind) \in Nat
           /\ total(frame_) <= counted(behind) + Len(frame_)
           /\ counted(behind) <= total(frame_) + Len(frame_)
<1> DEFINE K == DOMAIN frame_
           V == valued(frame_)
           g == [i \in K |-> IF frame_[i].value = Null THEN 0 ELSE frame_[i].value]
           e == [i \in K |-> counted(pairsAt[i])]
<1>1. WarehouseOK(warehouse) /\ Len(frame_) \in Nat
  BY FrameKnown
<1>2. IsFiniteSet(K) /\ Cardinality(K) = Len(frame_)
  BY KeysShown
<1>3. counted(behind) = SumOf(e, K)
  <2>1. /\ \A k \in K : pairsAt[k] \subseteq behind /\ e[k] = counted(pairsAt[k])
        /\ \A j \in K : \A k \in K : j # k => pairsAt[j] \cap pairsAt[k] = {}
        /\ behind = UNION {pairsAt[k] : k \in K} /\ PairsOK(warehouse, behind)
    BY BehindParts
  <2> HIDE DEF e, K
  <2>2. QED
    BY <1>1, <1>2, <2>1, CountedByParts
<1>4. \A i \in K : /\ e[i] \in Int /\ g[i] \in Int
                   /\ g[i] <= e[i] + 1 /\ e[i] <= g[i] + 1
  <2> SUFFICES ASSUME NEW i \in K
               PROVE  /\ e[i] \in Int /\ g[i] \in Int
                      /\ g[i] <= e[i] + 1 /\ e[i] <= g[i] + 1
    OBVIOUS
  <2>1. e[i] = counted(pairsAt[i])
        /\ g[i] = IF frame_[i].value = Null THEN 0 ELSE frame_[i].value
    OBVIOUS
  <2> HIDE DEF e, g
  <2>2. QED
    BY <2>1, ValueNear
<1>5. V \subseteq K /\ V \cup (K \ V) = K /\ V \cap (K \ V) = {}
  BY DEF valued
<1>6. IsFiniteSet(V) /\ IsFiniteSet(K \ V)
  BY <1>2, <1>5, FS_Subset
<1>7. total(frame_) = SumOf(g, V)
  <2>1. \A i \in V : g[i] = frame_[i].value
    BY DEF valued
  <2> HIDE DEF g
  <2>2. QED
    BY <1>6, <2>1, TotalIs
<1>8. SumOf(g, K) = SumOf(g, V) + SumOf(g, K \ V)
  <2> HIDE DEF g, V, K
  <2>1. (\A i \in V : g[i] \in Int) /\ (\A i \in K \ V : g[i] \in Int)
    BY <1>4, <1>5
  <2>2. SumOf(g, V \cup (K \ V)) = SumOf(g, V) + SumOf(g, K \ V)
    BY <1>5, <1>6, <2>1, SumSplit
  <2>3. SumOf(g, V \cup (K \ V)) = SumOf(g, K)
    BY <1>5, Zenon
  <2>4. QED
    BY <2>2, <2>3
<1>9. SumOf(g, K \ V) = 0 * Cardinality(K \ V)
  <2>1. \A i \in K \ V : g[i] = 0
    BY DEF valued
  <2> HIDE DEF g, V, K
  <2>2. QED
    BY <1>6, <2>1, SumConstant
<1>10. /\ SumOf(g, K) <= SumOf(e, K) + Cardinality(K)
       /\ SumOf(e, K) <= SumOf(g, K) + Cardinality(K)
       /\ SumOf(g, V) \in Int /\ SumOf(e, K) \in Int
  <2> HIDE DEF g, e, V, K
  <2>1. (\A i \in K : g[i] \in Int) /\ (\A i \in V : g[i] \in Int)
    BY <1>4, <1>5
  <2>2. SumOf(g, V) \in Int /\ SumOf(e, K) \in Int
    BY <1>2, <1>4, <1>6, <2>1, SumInt
  <2>3. SumOf(g, K) <= SumOf(e, K) + Cardinality(K)
    BY <1>2, <1>4, SumClose
  <2>4. SumOf(e, K) <= SumOf(g, K) + Cardinality(K)
    BY <1>2, <1>4, SumClose
  <2>5. QED
    BY <2>2, <2>3, <2>4
<1>11. Cardinality(K \ V) \in Nat
  BY <1>6, FS_CardinalityType
<1> HIDE DEF g, e, V, K
<1>12. SumOf(g, K) = SumOf(g, V)
  BY <1>8, <1>9, <1>10, <1>11
<1>13. counted(behind) \in Nat
  BY <1>1, BehindParts, CountedIsNat
<1>14. QED
  BY <1>1, <1>2, <1>3, <1>7, <1>10, <1>12, <1>13

---------------------------------------------------------------------------
(* What the population check says.                                         *)

everyone == (DOMAIN facts) \X {0}

\* The facts as rows, without any join.
LEMMA EveryoneOK ==
    ASSUME WarehouseOK(warehouse)
    PROVE  /\ PairsOK(warehouse, everyone) /\ OncePerFact(everyone)
           /\ DOMAIN facts = {p[1] : p \in everyone}
           /\ everyone = source(warehouse, FALSE)
           /\ Cardinality(everyone) = Len(facts)
BY RowsAsPairs, Tables DEF everyone, facts, source

allowance == tolerance(frame_)

populationFinds == population(warehouse, p_, frame_)

\* The population's own figure, and the members it has.
LEMMA PopulationIs ==
    ASSUME AnswerInv, delivered(4), Additive, p_.intent \in {"breakdown", "top_n"}
    PROVE  LET read == scalar(warehouse, POPULATION_SQL[p_.metric])
               cut  == p_.intent = "top_n" /\ Len(frame_) < Cardinality(members)
               all  == counted(everyone)
           IN /\ read = Null => /\ populationFinds.status = WARN
                                /\ populationFinds.evidence = <<>>
                                /\ p_.metric = "revenue"
                                /\ priced(warehouse, everyone) = {}
              /\ read # Null =>
                    /\ populationFinds.status = WARN <=>
                          disagrees(total(frame_), all, allowance, cut)
                    /\ populationFinds.evidence =
                          [population_total |-> ROUND(all, 1),
                           members_total |-> Cardinality(members), truncated |-> cut]
<1> DEFINE read == scalar(warehouse, POPULATION_SQL[p_.metric])
           figure == IF p_.metric = "orders" THEN ONE * read ELSE read
           counts == scalar(warehouse, MEMBER_SOURCE[p_.dimension])
           cut == p_.intent = "top_n" /\ Len(frame_) < Cardinality(members)
           calls == <<POPULATION_SQL[p_.metric], MEMBER_SOURCE[p_.dimension]>>
<1>1. WarehouseOK(warehouse) /\ PlanOK(p_) /\ p_.dimension \in Dimensions
  BY FrameKnown, QueryKnown DEF PlanOK, accepts
<1>2. counts = Cardinality(members)
  <2>1. CASE p_.dimension = "segment"
    BY <2>1 DEF scalar, MEMBER_SOURCE, members
  <2>2. CASE p_.dimension = "region"
    <3>1. members = {warehouse.facts[i].region : i \in DOMAIN warehouse.facts}
      BY <2>2 DEF members, facts
    <3>2. counts = Cardinality({warehouse.facts[i].region : i \in DOMAIN warehouse.facts})
      BY <2>2 DEF scalar, MEMBER_SOURCE
    <3>3. QED
      BY <3>1, <3>2
  <2>3. CASE p_.dimension = "category"
    <3>1. members = {warehouse.facts[i].category : i \in DOMAIN warehouse.facts}
      BY <2>3 DEF members, facts
    <3>2. counts = Cardinality({warehouse.facts[i].category : i \in DOMAIN warehouse.facts})
      BY <2>3 DEF scalar, MEMBER_SOURCE
    <3>3. QED
      BY <3>1, <3>2
  <2>4. QED
    BY <1>1, <2>1, <2>2, <2>3 DEF Dimensions
<1>3. /\ calls[1] = POPULATION_SQL[p_.metric] /\ calls[2] = MEMBER_SOURCE[p_.dimension]
  OBVIOUS
<1>4. CASE p_.metric = "orders"
  <2>1. read = Len(facts)
    BY <1>4 DEF scalar, POPULATION_SQL, facts
  <2>2. figure = counted(everyone) /\ read # Null
    <3>1. Cardinality(everyone) = Len(facts) /\ Len(facts) \in Nat
      BY <1>1, EveryoneOK, Tables DEF facts
    <3>2. figure = ONE * read
      BY <1>4
    <3> HIDE DEF read, figure
    <3>3. QED
      BY <1>4, <2>1, <3>1, <3>2 DEF counted, Null
  <2> HIDE DEF read, figure, counts
  <2>3. /\ populationFinds.status = WARN <=>
              disagrees(total(frame_), figure, allowance, cut)
        /\ populationFinds.evidence = [population_total |-> ROUND(figure, 1),
                                       members_total |-> counts, truncated |-> cut]
    BY <1>2, <2>2 DEF populationFinds, population, finding, isTruncated, allowance,
       read, figure, counts, WARN, OK
  <2>4. QED
    BY <1>2, <2>2, <2>3 DEF read
<1>5. CASE p_.metric = "revenue"
  <2>1. read = SUM(warehouse, everyone)
    BY <1>1, <1>5, EveryoneOK DEF scalar, POPULATION_SQL
  <2>2. counted(everyone) = amount(warehouse, everyone) /\ counted(everyone) \in Nat
    BY <1>1, <1>5, EveryoneOK, AmountIsNat DEF counted
  <2>3. CASE read = Null
    <3>1. priced(warehouse, everyone) = {}
      BY <2>1, <2>2, <2>3 DEF SUM, Null
    <3>2. populationFinds.status = WARN /\ populationFinds.evidence = <<>>
      BY <2>3 DEF populationFinds, population, couldNotRun
    <3>3. QED
      BY <1>5, <2>3, <3>1, <3>2
  <2>4. CASE read # Null
    <3>1. figure = counted(everyone)
      BY <1>5, <2>1, <2>2, <2>4 DEF SUM
    <3> HIDE DEF read, figure, counts
    <3>2. /\ populationFinds.status = WARN <=>
                disagrees(total(frame_), figure, allowance, cut)
          /\ populationFinds.evidence = [population_total |-> ROUND(figure, 1),
                                         members_total |-> counts, truncated |-> cut]
      BY <1>2, <2>4 DEF populationFinds, population, finding, isTruncated, allowance,
         read, figure, counts, WARN, OK
    <3>3. QED
      BY <1>2, <2>4, <3>1, <3>2 DEF read
  <2>5. QED
    BY <2>3, <2>4
<1>6. QED
  BY <1>4, <1>5 DEF Additive, ADDITIVE_METRICS
=============================================================================
