---------------------------- MODULE SumTheorems ----------------------------
(***************************************************************************)
(* What the proofs of Answer need of sums over finite sets (MapThenSumSet  *)
(* of the community modules) and of the order of a finite set.  The        *)
(* library's induction theorems take an operator; the one here, SetsGrow,  *)
(* takes the set of the subsets for which something holds, and is proved   *)
(* by looking at a smallest subset for which it does not.                  *)
(***************************************************************************)
EXTENDS Integers, FiniteSets, FiniteSetsExt, TLAPS, FiniteSetTheorems,
        WellFoundedInduction

\* T has S if it has every subset all of whose own parts it has.
LEMMA PartsFirst ==
    ASSUME NEW S, IsFiniteSet(S), NEW T,
           \A s \in SUBSET S : (\A t \in SUBSET s : t # s => t \in T) => s \in T
    PROVE  S \in T
<1> DEFINE Bad == {s \in SUBSET S : s \notin T}
           R   == StrictSubsetOrdering(S)
<1>1. IsWellFoundedOn(R, SUBSET S)
  BY FS_StrictSubsetOrderingWellFounded, FS_FiniteSubsetsOfFinite
<1>2. SUFFICES ASSUME Bad # {} PROVE FALSE
  OBVIOUS
<1>3. PICK s \in Bad : \A t \in Bad : ~(<<t, s>> \in R)
  <2> HIDE DEF R
  <2>1. Bad \subseteq SUBSET S
    OBVIOUS
  <2> HIDE DEF Bad
  <2>2. QED
    BY <1>1, <1>2, <2>1, WFMin
<1>4. ASSUME NEW t \in SUBSET s, t # s PROVE t \in T
  <2>1. t \in SUBSET S /\ s \in SUBSET S
    OBVIOUS
  <2>2. <<t, s>> \in R
    BY <1>4, <2>1 DEF StrictSubsetOrdering
  <2>3. QED
    BY <1>3, <2>1, <2>2
<1>5. QED
  BY <1>3, <1>4

\* Induction over a finite set: T has {}, and whatever T has, T has with one
\* element more.
LEMMA SetsGrow ==
    ASSUME NEW S, IsFiniteSet(S), NEW T, {} \in T,
           \A s \in SUBSET S : \A x \in S \ s : s \in T => s \cup {x} \in T
    PROVE  S \in T
<1>1. ASSUME NEW s \in SUBSET S, \A t \in SUBSET s : t # s => t \in T
      PROVE  s \in T
  <2>1. CASE s = {}
    BY <2>1
  <2>2. CASE s # {}
    <3>1. PICK x \in s : TRUE
      BY <2>2
    <3>2. s \ {x} \in T /\ s \ {x} \in SUBSET S /\ x \in S \ (s \ {x})
      BY <1>1, <3>1
    <3>3. (s \ {x}) \cup {x} = s
      BY <3>1
    <3>4. (s \ {x}) \cup {x} \in T
      BY <3>2
    <3>5. QED
      BY <3>3, <3>4
  <2>3. QED
    BY <2>1, <2>2
<1>2. QED
  BY <1>1, PartsFirst

---------------------------------------------------------------------------
(* The sum of a function over a finite part of its domain.                 *)

SumOf(f, S) == MapThenSumSet(LAMBDA x : f[x], S)

pick(s) == CHOOSE x \in s : TRUE

\* g is the table of the sums of f over all the subsets of S.
sums(g, f, S) ==
    g = [s \in SUBSET S |-> IF s = {} THEN 0 ELSE f[pick(s)] + g[s \ {pick(s)}]]

\* A sum is read off the table that its recursive function chooses.
LEMMA SumOfDef ==
    ASSUME NEW f, NEW S
    PROVE  SumOf(f, S) = (CHOOSE g : sums(g, f, S))[S]
BY DEF SumOf, MapThenSumSet, MapThenFoldSet, sums, pick

\* An element picked from a set is in it.
LEMMA PickIn == ASSUME NEW s, s # {} PROVE pick(s) \in s
BY DEF pick

\* What a table says of one subset.
LEMMA SumsOfNone ==
    ASSUME NEW f, NEW S, NEW g, sums(g, f, S)
    PROVE  g[{}] = 0
BY DEF sums

\* What a table says of one subset that is not empty.
LEMMA SumsOfSome ==
    ASSUME NEW f, NEW S, NEW g, sums(g, f, S)
    PROVE  \A s \in SUBSET S : s # {} => g[s] = f[pick(s)] + g[s \ {pick(s)}]
BY DEF sums

\* Two tables agree wherever their functions do.
LEMMA SumsAgree ==
    ASSUME NEW f, NEW g, NEW S, sums(g, f, S),
           NEW e, NEW h, NEW R, sums(h, e, R),
           NEW V, IsFiniteSet(V), V \subseteq S, V \subseteq R,
           \A x \in V : f[x] = e[x]
    PROVE  g[V] = h[V]
<1> DEFINE T == {s \in SUBSET V : g[s] = h[s]}
<1>1. ASSUME NEW s \in SUBSET V, \A t \in SUBSET s : t # s => t \in T
      PROVE  s \in T
  <2> DEFINE x == pick(s)
  <2>1. s \in SUBSET S /\ s \in SUBSET R
    OBVIOUS
  <2>2. CASE s = {}
    <3>1. g[s] = 0 /\ h[s] = 0
      BY <2>1, <2>2, SumsOfNone
    <3>2. QED
      BY <3>1
  <2>3. CASE s # {}
    <3>1. x \in s
      BY <2>3, PickIn
    <3>2. g[s \ {x}] = h[s \ {x}]
      BY <1>1, <3>1
    <3>3. f[x] = e[x]
      BY <3>1
    <3>4. g[s] = f[x] + g[s \ {x}]
      BY <2>1, <2>3, SumsOfSome
    <3>5. h[s] = e[x] + h[s \ {x}]
      <4>1. \A t \in SUBSET R : t # {} => h[t] = e[pick(t)] + h[t \ {pick(t)}]
        BY SumsOfSome, SMTT(30)
      <4>2. QED
        BY <2>1, <2>3, <4>1
    <3>6. QED
      BY <3>2, <3>3, <3>4, <3>5
  <2>4. QED
    BY <2>2, <2>3
<1>2. V \in T
  <2> HIDE DEF T
  <2>1. QED
    BY <1>1, PartsFirst
<1>3. QED
  BY <1>2

\* There is a table of the sums.
LEMMA SumsExist ==
    ASSUME NEW f, NEW S, IsFiniteSet(S)
    PROVE  \E g : sums(g, f, S)
<1> DEFINE T == {s \in SUBSET S : \E g : sums(g, f, s)}
<1>1. ASSUME NEW s \in SUBSET S, \A t \in SUBSET s : t # s => t \in T
      PROVE  s \in T
  <2> DEFINE tab(u) == CHOOSE g : sums(g, f, u)
             rest(t) == t \ {pick(t)}
             G == [t \in SUBSET s |->
                     IF t = {} THEN 0 ELSE f[pick(t)] + tab(rest(t))[rest(t)]]
  <2>1. ASSUME NEW u \in SUBSET s, u # s PROVE sums(tab(u), f, u)
    BY <1>1, <2>1
  <2>2. ASSUME NEW t \in SUBSET s, t # {}
        PROVE  rest(t) \in SUBSET s /\ rest(t) # s /\ pick(t) \in t
    BY <2>2, PickIn
  <2>3. ASSUME NEW t \in SUBSET s, t # {}
        PROVE  tab(rest(t))[rest(t)] = G[rest(t)]
    <3> DEFINE u == rest(t)
    <3>1. u \in SUBSET s /\ u # s /\ sums(tab(u), f, u)
      BY <2>1, <2>2, <2>3
    <3>2. CASE u = {}
      <4>1. G[u] = 0
        BY <3>1, <3>2
      <4>2. tab(u)[u] = 0
        BY <3>1, <3>2, SumsOfNone
      <4>3. QED
        BY <4>1, <4>2
    <3>3. CASE u # {}
      <4> DEFINE v == rest(u)
      <4>1. v \in SUBSET s /\ v # s /\ sums(tab(v), f, v) /\ v \subseteq u
        BY <2>1, <2>2, <3>1, <3>3
      <4>2. G[u] = f[pick(u)] + tab(v)[v]
        BY <3>1, <3>3
      <4>3. tab(u)[u] = f[pick(u)] + tab(u)[v]
        <5> DEFINE g == tab(u)
        <5>1. sums(g, f, u)
          BY <3>1
        <5>2. u \in SUBSET u
          OBVIOUS
        <5> HIDE DEF g, u
        <5>3. \A x \in SUBSET u : x # {} => g[x] = f[pick(x)] + g[x \ {pick(x)}]
          BY <5>1, SumsOfSome
        <5>4. QED
          BY <3>3, <5>2, <5>3 DEF g
      <4>4. IsFiniteSet(v)
        BY <4>1, FS_Subset
      <4>5. tab(u)[v] = tab(v)[v]
        <5> HIDE DEF u, v, tab
        <5>1. QED
          BY <3>1, <4>1, <4>4, SumsAgree
      <4>6. QED
        BY <4>2, <4>3, <4>5
    <3>4. QED
      BY <3>2, <3>3
  <2>4. sums(G, f, s)
    <3> DEFINE A(t) == IF t = {} THEN 0 ELSE f[pick(t)] + tab(rest(t))[rest(t)]
               B(t) == IF t = {} THEN 0 ELSE f[pick(t)] + G[t \ {pick(t)}]
    <3>1. \A t \in SUBSET s : A(t) = B(t)
      <4> HIDE DEF G, tab
      <4>1. QED
        BY <2>3
    <3>2. G = [t \in SUBSET s |-> A(t)]
      OBVIOUS
    <3>3. G = [t \in SUBSET s |-> B(t)]
      <4> HIDE DEF G, A, B
      <4>1. QED
        BY <3>1, <3>2
    <3>4. QED
      BY <3>3 DEF sums
  <2>5. QED
    <3> HIDE DEF G
    <3>1. QED
      BY <2>4
<1>2. S \in T
  <2> HIDE DEF T
  <2>1. QED
    BY <1>1, PartsFirst
<1>3. QED
  BY <1>2

\* A sum is an entry of some table of the sums.
LEMMA SumTable ==
    ASSUME NEW f, NEW S, IsFiniteSet(S)
    PROVE  \E g : sums(g, f, S) /\ SumOf(f, S) = g[S]
<1> DEFINE g == CHOOSE g : sums(g, f, S)
<1>1. sums(g, f, S)
  BY SumsExist
<1>2. SumOf(f, S) = g[S]
  BY SumOfDef
<1> HIDE DEF g
<1>3. QED
  BY <1>1, <1>2

\* The sum over nothing.
LEMMA SumEmpty == ASSUME NEW f PROVE SumOf(f, {}) = 0
<1>1. PICK g : sums(g, f, {}) /\ SumOf(f, {}) = g[{}]
  BY SumTable, FS_EmptySet
<1>2. QED
  BY <1>1, SumsOfNone

\* The sum depends on the values in the set only.
LEMMA SumSame ==
    ASSUME NEW S, IsFiniteSet(S), NEW f, NEW e, \A x \in S : f[x] = e[x]
    PROVE  SumOf(f, S) = SumOf(e, S)
<1>1. PICK g : sums(g, f, S) /\ SumOf(f, S) = g[S]
  BY SumTable
<1>2. PICK h : sums(h, e, S) /\ SumOf(e, S) = h[S]
  BY SumTable
<1>3. g[S] = h[S]
  BY <1>1, <1>2, SumsAgree
<1>4. QED
  BY <1>1, <1>2, <1>3

\* The picked element first.
LEMMA SumPick ==
    ASSUME NEW f, NEW S, IsFiniteSet(S), S # {}
    PROVE  SumOf(f, S) = f[pick(S)] + SumOf(f, S \ {pick(S)})
<1> DEFINE R == S \ {pick(S)}
<1>1. PICK g : sums(g, f, S) /\ SumOf(f, S) = g[S]
  BY SumTable
<1>2. IsFiniteSet(R) /\ R \subseteq S
  BY FS_Subset
<1>3. PICK h : sums(h, f, R) /\ SumOf(f, R) = h[R]
  <2> HIDE DEF R
  <2>1. QED
    BY <1>2, SumTable
<1>4. g[R] = h[R]
  <2> HIDE DEF R
  <2>1. QED
    BY <1>1, <1>2, <1>3, SumsAgree
<1>5. g[S] = f[pick(S)] + g[R]
  <2>1. \A s \in SUBSET S : s # {} => g[s] = f[pick(s)] + g[s \ {pick(s)}]
    BY <1>1, SumsOfSome
  <2>2. QED
    BY <2>1
<1> HIDE DEF R
<1>6. QED
  BY <1>1, <1>3, <1>4, <1>5 DEF R

\* Sums of integers are integers.
LEMMA SumInt ==
    ASSUME NEW f, NEW S, IsFiniteSet(S), \A x \in S : f[x] \in Int
    PROVE  SumOf(f, S) \in Int
<1> DEFINE T == {s \in SUBSET S : SumOf(f, s) \in Int}
<1>1. ASSUME NEW s \in SUBSET S, \A t \in SUBSET s : t # s => t \in T
      PROVE  s \in T
  <2>1. CASE s = {}
    BY <2>1, SumEmpty
  <2>2. CASE s # {}
    <3>1. pick(s) \in s
      BY <2>2, PickIn
    <3>2. f[pick(s)] \in Int /\ SumOf(f, s \ {pick(s)}) \in Int
      BY <1>1, <3>1
    <3>3. SumOf(f, s) = f[pick(s)] + SumOf(f, s \ {pick(s)})
      BY <2>2, SumPick, FS_Subset
    <3>4. QED
      BY <3>2, <3>3
  <2>3. QED
    BY <2>1, <2>2
<1>2. S \in T
  <2> HIDE DEF T
  <2>1. QED
    BY <1>1, PartsFirst
<1>3. QED
  BY <1>2

\* Any element may be taken out first.
LEMMA SumRemove ==
    ASSUME NEW f, NEW S, IsFiniteSet(S), \A x \in S : f[x] \in Int, NEW y \in S
    PROVE  SumOf(f, S) = f[y] + SumOf(f, S \ {y})
<1> DEFINE T == {s \in SUBSET S :
                   \A x \in s : SumOf(f, s) = f[x] + SumOf(f, s \ {x})}
<1>1. ASSUME NEW s \in SUBSET S, \A t \in SUBSET s : t # s => t \in T
      PROVE  s \in T
  <2> SUFFICES ASSUME NEW x \in s
               PROVE  SumOf(f, s) = f[x] + SumOf(f, s \ {x})
    OBVIOUS
  <2> DEFINE p == pick(s)
             r == s \ {p}
             u == s \ {x}
  <2>1. p \in s
    BY PickIn
  <2>2. IsFiniteSet(s)
    BY FS_Subset
  <2>3. SumOf(f, s) = f[p] + SumOf(f, r)
    BY <2>2, SumPick
  <2>4. CASE x = p
    BY <2>3, <2>4
  <2>5. CASE x # p
    <3>1. SumOf(f, r) = f[x] + SumOf(f, r \ {x})
      BY <1>1, <2>1, <2>5
    <3>2. SumOf(f, u) = f[p] + SumOf(f, u \ {p})
      BY <1>1, <2>1, <2>5
    <3>3. r \ {x} = u \ {p}
      OBVIOUS
    <3>4. f[x] \in Int /\ f[p] \in Int /\ SumOf(f, r \ {x}) \in Int
      <4> DEFINE v == r \ {x}
      <4>1. IsFiniteSet(v) /\ \A z \in v : f[z] \in Int
        BY <2>2, FS_Subset
      <4> HIDE DEF v
      <4>2. SumOf(f, v) \in Int
        BY <4>1, SumInt
      <4>3. QED
        BY <2>1, <4>2 DEF v
    <3> HIDE DEF p, r, u
    <3>4a. SumOf(f, r \ {x}) = SumOf(f, u \ {p})
      BY <3>3
    <3>5. QED
      BY <2>3, <3>1, <3>2, <3>4, <3>4a DEF u
  <2>6. QED
    BY <2>4, <2>5
<1>2. S \in T
  <2> HIDE DEF T
  <2>1. QED
    BY <1>1, PartsFirst
<1>3. QED
  BY <1>2

\* One element more adds its value.
LEMMA SumAdd ==
    ASSUME NEW f, NEW S, IsFiniteSet(S), \A x \in S : f[x] \in Int,
           NEW y, y \notin S, f[y] \in Int
    PROVE  SumOf(f, S \cup {y}) = f[y] + SumOf(f, S)
<1> DEFINE R == S \cup {y}
<1>1. IsFiniteSet(R) /\ y \in R /\ R \ {y} = S /\ \A x \in R : f[x] \in Int
  BY FS_AddElement
<1> HIDE DEF R
<1>2. SumOf(f, R) = f[y] + SumOf(f, R \ {y})
  BY <1>1, SumRemove
<1>3. QED
  BY <1>1, <1>2 DEF R

\* Two parts add up.
LEMMA SumSplit ==
    ASSUME NEW f, NEW A, IsFiniteSet(A), \A x \in A : f[x] \in Int,
           NEW B, IsFiniteSet(B), \A x \in B : f[x] \in Int, A \cap B = {}
    PROVE  SumOf(f, A \cup B) = SumOf(f, A) + SumOf(f, B)
<1> DEFINE T == {s \in SUBSET B : SumOf(f, A \cup s) = SumOf(f, A) + SumOf(f, s)}
<1>0. SumOf(f, A) \in Int
  BY SumInt
<1>1. {} \in T
  <2>1. A \cup {} = A
    OBVIOUS
  <2>2. QED
    BY <1>0, <2>1, SumEmpty
<1>2. ASSUME NEW s \in SUBSET B, NEW x \in B \ s, s \in T
      PROVE  s \cup {x} \in T
  <2>1. IsFiniteSet(s) /\ \A y \in s : f[y] \in Int
    BY FS_Subset
  <2>2. SumOf(f, s) \in Int /\ SumOf(f, s \cup {x}) = f[x] + SumOf(f, s)
    BY <2>1, SumInt, SumAdd
  <2> DEFINE R == A \cup s
  <2>3. IsFiniteSet(R) /\ x \notin R /\ \A y \in R : f[y] \in Int
    BY <2>1, FS_Union
  <2>4. SumOf(f, R) = SumOf(f, A) + SumOf(f, s)
    BY <1>2
  <2>5. A \cup (s \cup {x}) = R \cup {x}
    OBVIOUS
  <2> HIDE DEF R
  <2>6. SumOf(f, R \cup {x}) = f[x] + SumOf(f, R)
    BY <2>3, SumAdd
  <2>7. f[x] \in Int
    OBVIOUS
  <2>8. SumOf(f, A \cup (s \cup {x})) = SumOf(f, A) + SumOf(f, s \cup {x})
    <3>1. SumOf(f, A \cup (s \cup {x})) = SumOf(f, R \cup {x})
      BY <2>5, Zenon
    <3>2. QED
      BY <1>0, <2>2, <2>4, <2>6, <2>7, <3>1
  <2>9. QED
    BY <2>8
<1>3. B \in T
  <2> HIDE DEF T
  <2>1. QED
    BY <1>1, <1>2, SetsGrow
<1>4. QED
  BY <1>3

\* One summand each at most one more: the sum at most the cardinality more.
LEMMA SumClose ==
    ASSUME NEW S, IsFiniteSet(S), NEW f, NEW e,
           \A x \in S : f[x] \in Int /\ e[x] \in Int /\ f[x] <= e[x] + 1
    PROVE  SumOf(f, S) <= SumOf(e, S) + Cardinality(S)
<1> DEFINE T == {s \in SUBSET S : SumOf(f, s) <= SumOf(e, s) + Cardinality(s)}
<1>1. {} \in T
  BY SumEmpty, FS_EmptySet
<1>2. ASSUME NEW s \in SUBSET S, NEW x \in S \ s, s \in T
      PROVE  s \cup {x} \in T
  <2>1. IsFiniteSet(s) /\ \A y \in s : f[y] \in Int /\ e[y] \in Int
    BY FS_Subset
  <2>2. SumOf(f, s) \in Int /\ SumOf(e, s) \in Int
    BY <2>1, SumInt
  <2>3. SumOf(f, s \cup {x}) = f[x] + SumOf(f, s)
    BY <2>1, SumAdd
  <2>4. SumOf(e, s \cup {x}) = e[x] + SumOf(e, s)
    BY <2>1, SumAdd
  <2>5. Cardinality(s) \in Nat /\ Cardinality(s \cup {x}) = Cardinality(s) + 1
    BY <2>1, FS_AddElement, FS_CardinalityType
  <2>6. SumOf(f, s) <= SumOf(e, s) + Cardinality(s)
    BY <1>2
  <2>7. f[x] \in Int /\ e[x] \in Int /\ f[x] <= e[x] + 1
    OBVIOUS
  <2>8. SumOf(f, s \cup {x}) <= SumOf(e, s \cup {x}) + Cardinality(s \cup {x})
    BY <2>2, <2>3, <2>4, <2>5, <2>6, <2>7
  <2>9. QED
    BY <2>8
<1>3. S \in T
  <2> HIDE DEF T
  <2>1. QED
    BY <1>1, <1>2, SetsGrow
<1>4. QED
  BY <1>3

\* No summand greater: the sum no greater.
LEMMA SumAtMost ==
    ASSUME NEW S, IsFiniteSet(S), NEW f, NEW e,
           \A x \in S : f[x] \in Int /\ e[x] \in Int /\ f[x] <= e[x]
    PROVE  SumOf(f, S) <= SumOf(e, S)
<1> DEFINE T == {s \in SUBSET S : SumOf(f, s) <= SumOf(e, s)}
<1>1. {} \in T
  BY SumEmpty
<1>2. ASSUME NEW s \in SUBSET S, NEW x \in S \ s, s \in T
      PROVE  s \cup {x} \in T
  <2>1. IsFiniteSet(s) /\ \A y \in s : f[y] \in Int /\ e[y] \in Int
    BY FS_Subset
  <2>2. SumOf(f, s) \in Int /\ SumOf(e, s) \in Int
    BY <2>1, SumInt
  <2>3. SumOf(f, s \cup {x}) = f[x] + SumOf(f, s)
    BY <2>1, SumAdd
  <2>4. SumOf(e, s \cup {x}) = e[x] + SumOf(e, s)
    BY <2>1, SumAdd
  <2>5. SumOf(f, s) <= SumOf(e, s)
    BY <1>2
  <2>6. f[x] \in Int /\ e[x] \in Int /\ f[x] <= e[x]
    OBVIOUS
  <2>7. SumOf(f, s \cup {x}) <= SumOf(e, s \cup {x})
    BY <2>2, <2>3, <2>4, <2>5, <2>6
  <2>8. QED
    BY <2>7
<1>3. S \in T
  <2> HIDE DEF T
  <2>1. QED
    BY <1>1, <1>2, SetsGrow
<1>4. QED
  BY <1>3

\* Equal summands.
LEMMA SumConstant ==
    ASSUME NEW S, IsFiniteSet(S), NEW f, NEW c \in Int, \A x \in S : f[x] = c
    PROVE  SumOf(f, S) = c * Cardinality(S)
<1> DEFINE T == {s \in SUBSET S : SumOf(f, s) = c * Cardinality(s)}
<1>1. {} \in T
  BY SumEmpty, FS_EmptySet
<1>2. ASSUME NEW s \in SUBSET S, NEW x \in S \ s, s \in T
      PROVE  s \cup {x} \in T
  <2>1. IsFiniteSet(s) /\ \A y \in s : f[y] \in Int
    BY FS_Subset
  <2>2. SumOf(f, s \cup {x}) = c + SumOf(f, s)
    BY <2>1, SumAdd
  <2>3. Cardinality(s) \in Nat /\ Cardinality(s \cup {x}) = Cardinality(s) + 1
    BY <2>1, FS_AddElement, FS_CardinalityType
  <2>4. \A n \in Nat : c * (n + 1) = c + c * n
    OBVIOUS
  <2>5. SumOf(f, s) = c * Cardinality(s)
    BY <1>2
  <2>6. SumOf(f, s \cup {x}) = c * Cardinality(s \cup {x})
    BY <2>2, <2>3, <2>4, <2>5
  <2>7. QED
    BY <2>6
<1>3. S \in T
  <2> HIDE DEF T
  <2>1. QED
    BY <1>1, <1>2, SetsGrow
<1>4. QED
  BY <1>3

\* An image of a finite set is finite.
LEMMA ImageFinite ==
    ASSUME NEW S, IsFiniteSet(S), NEW h
    PROVE  IsFiniteSet({h[x] : x \in S})
<1> DEFINE T == {s \in SUBSET S : IsFiniteSet({h[x] : x \in s})}
<1>1. {} \in T
  <2>1. {h[x] : x \in {}} = {}
    OBVIOUS
  <2>2. QED
    BY <2>1, FS_EmptySet
<1>2. ASSUME NEW s \in SUBSET S, NEW x \in S \ s, s \in T
      PROVE  s \cup {x} \in T
  <2> DEFINE R == {h[y] : y \in s}
  <2>1. {h[y] : y \in s \cup {x}} = R \cup {h[x]}
    OBVIOUS
  <2>2. IsFiniteSet(R)
    BY <1>2
  <2> HIDE DEF R
  <2>3. IsFiniteSet(R \cup {h[x]})
    BY <2>2, FS_AddElement
  <2>4. QED
    BY <2>1, <2>3
<1>3. S \in T
  <2> HIDE DEF T
  <2>1. QED
    BY <1>1, <1>2, SetsGrow
<1>4. QED
  BY <1>3

\* Renaming the elements changes nothing.
LEMMA SumRenamed ==
    ASSUME NEW S, IsFiniteSet(S), NEW h, NEW f, NEW e,
           \A x \in S : \A y \in S : h[x] = h[y] => x = y,
           \A x \in S : e[x] \in Int /\ e[x] = f[h[x]]
    PROVE  SumOf(f, {h[x] : x \in S}) = SumOf(e, S)
<1> DEFINE image(s) == {h[x] : x \in s}
           T == {s \in SUBSET S : SumOf(f, image(s)) = SumOf(e, s)}
<1>1. {} \in T
  <2>1. image({}) = {}
    OBVIOUS
  <2>2. QED
    BY <2>1, SumEmpty
<1>2. ASSUME NEW s \in SUBSET S, NEW x \in S \ s, s \in T
      PROVE  s \cup {x} \in T
  <2>1. IsFiniteSet(s) /\ \A y \in s : e[y] \in Int
    BY FS_Subset
  <2>2. SumOf(e, s \cup {x}) = e[x] + SumOf(e, s)
    BY <2>1, SumAdd
  <2> DEFINE R == image(s)
             y == h[x]
  <2>3. IsFiniteSet(R)
    BY <2>1, ImageFinite
  <2>4. y \notin R /\ f[y] = e[x] /\ \A z \in R : f[z] \in Int
    OBVIOUS
  <2>5. image(s \cup {x}) = R \cup {y}
    OBVIOUS
  <2>6. SumOf(f, R) = SumOf(e, s)
    BY <1>2
  <2>7. f[y] \in Int
    BY <2>4
  <2> HIDE DEF R, y, image
  <2>8. SumOf(f, R \cup {y}) = f[y] + SumOf(f, R)
    BY <2>3, <2>4, <2>7, SumAdd
  <2>9. QED
    BY <2>2, <2>4, <2>5, <2>6, <2>8
<1>3. S \in T
  <2> HIDE DEF T
  <2>1. QED
    BY <1>1, <1>2, SetsGrow
<1>4. QED
  BY <1>3

\* The sum over the union of disjoint parts is the sum of the parts' sums.
LEMMA SumOfParts ==
    ASSUME NEW K, IsFiniteSet(K), NEW P, NEW f, NEW e,
           \A k \in K : /\ IsFiniteSet(P[k]) /\ e[k] = SumOf(f, P[k])
                       /\ \A x \in P[k] : f[x] \in Int,
           \A j \in K : \A k \in K : j # k => P[j] \cap P[k] = {}
    PROVE  /\ IsFiniteSet(UNION {P[k] : k \in K})
           /\ SumOf(f, UNION {P[k] : k \in K}) = SumOf(e, K)
<1> DEFINE all(s) == UNION {P[k] : k \in s}
           T == {s \in SUBSET K : IsFiniteSet(all(s)) /\ SumOf(f, all(s)) = SumOf(e, s)}
<1>0. \A k \in K : e[k] \in Int
  BY SumInt
<1>1. {} \in T
  <2>1. all({}) = {}
    OBVIOUS
  <2>2. QED
    BY <2>1, SumEmpty, FS_EmptySet
<1>2. ASSUME NEW s \in SUBSET K, NEW x \in K \ s, s \in T
      PROVE  s \cup {x} \in T
  <2>1. IsFiniteSet(s) /\ \A y \in s : e[y] \in Int
    BY <1>0, FS_Subset
  <2>2. SumOf(e, s \cup {x}) = e[x] + SumOf(e, s)
    BY <1>0, <2>1, SumAdd
  <2> DEFINE A == all(s)
             B == P[x]
  <2>3. all(s \cup {x}) = A \cup B
    OBVIOUS
  <2>4. IsFiniteSet(A) /\ SumOf(f, A) = SumOf(e, s)
    BY <1>2
  <2>5. IsFiniteSet(B) /\ e[x] = SumOf(f, B) /\ A \cap B = {}
        /\ (\A y \in A : f[y] \in Int) /\ (\A y \in B : f[y] \in Int)
    OBVIOUS
  <2>6. SumOf(e, s) \in Int /\ e[x] \in Int
    BY <1>0, <2>1, SumInt
  <2> HIDE DEF A, B, all
  <2>7. IsFiniteSet(A \cup B) /\ SumOf(f, A \cup B) = SumOf(f, A) + SumOf(f, B)
    <3>1. IsFiniteSet(A \cup B)
      BY <2>4, <2>5, FS_Union
    <3>2. SumOf(f, A \cup B) = SumOf(f, A) + SumOf(f, B)
      BY <2>4, <2>5, SumSplit
    <3>3. QED
      BY <3>1, <3>2
  <2>8. IsFiniteSet(all(s \cup {x})) /\ SumOf(f, all(s \cup {x})) = SumOf(e, s \cup {x})
    <3>1. SumOf(f, A \cup B) = SumOf(e, s \cup {x})
      BY <2>2, <2>4, <2>5, <2>6, <2>7
    <3>2. QED
      BY <2>3, <2>7, <3>1, Zenon
  <2>9. QED
    BY <2>8
<1>3. K \in T
  <2> HIDE DEF T
  <2>1. QED
    BY <1>1, <1>2, SetsGrow
<1>4. QED
  BY <1>3
=============================================================================
