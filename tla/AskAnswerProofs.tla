------------------------- MODULE AskAnswerProofs ---------------------------
(***************************************************************************)
(* More proofs about AskService, for any number of requests, rebuilds,     *)
(* cache entries and plans, each on top of OrderHolds of AskProofs and     *)
(* with nothing assumed of DuckDB: the cache converges (ConvergeInv), its  *)
(* inner dictionaries stay small (RoomInv), a verified answer was read in  *)
(* full (ReadInv), an older figure comes without a file or over a joined   *)
(* instance (RowsBeforeKey), audits that do not overlap do all that        *)
(* memory.py says (SerialInv) and compute nothing twice (OnceInv), and no  *)
(* thread can keep another from finishing (the measure work).              *)
(***************************************************************************)
EXTENDS AskProofs, AskOnce, FiniteSetTheorems

---------------------------------------------------------------------------
(* _CACHE converges to one version.                                        *)

\* There are finitely many keys, whoever holds them.
LEMMA KeysFinite == \A S \in SUBSET Keys : IsFiniteSet(S)
<1>1. MaxStamp \in Int
  BY ConstantsOK
<1>2. IsFiniteSet(0..MaxStamp)
  BY <1>1, FS_Interval
<1>3. IsFiniteSet((0..MaxStamp) \cup {-1})
  BY <1>2, FS_AddElement
<1>4. QED
  BY <1>3, FS_Subset DEF Keys, Stamps, MissingKey

\* A dictionary has room for finitely many figures.
LEMMA CachedFinite == IsFiniteSet(Cached)
BY KeysFinite DEF Cached

\* What is within one key is at most one key.
LEMMA AtMostOne ==
    ASSUME NEW S, NEW k, S \subseteq {k}
    PROVE  Cardinality(S) <= 1
<1>1. S = {} \/ S = {k}
  OBVIOUS
<1>2. Cardinality({}) = 0 /\ Cardinality({k}) = 1
  BY FS_EmptySet, FS_Singleton
<1>3. Cardinality(S) = 0 \/ Cardinality(S) = 1
  BY <1>1, <1>2, Zenon
<1>4. QED
  BY <1>3

\* A thread that does not move stays responsible while nothing is inserted.
LEMMA SettlingStays ==
    ASSUME NEW x \in Requests, settling(x), Cached' \subseteq Cached,
           <<pc[x], listed[x], key[x]>>' = <<pc[x], listed[x], key[x]>>
    PROVE  settling(x)'
BY DEF settling

\* If the one that moves stays responsible, or leaves one version behind, and
\* nothing is inserted, the invariant is kept.
LEMMA ConvergeKept ==
    ASSUME ConvergeInv, NEW r \in Requests, Cached' \subseteq Cached,
           \A x \in Requests \ {r} :
              <<pc[x], listed[x], key[x]>>' = <<pc[x], listed[x], key[x]>>,
           settling(r) => settling(r)' \/ Cardinality(Cached') <= 1
    PROVE  ConvergeInv'
<1>1. CASE Cardinality(Cached) <= 1
  <2>1. Cardinality(Cached') <= Cardinality(Cached)
    BY CachedFinite, FS_Subset
  <2>2. Cardinality(Cached) \in Nat /\ Cardinality(Cached') \in Nat
    <3>1. IsFiniteSet(Cached')
      BY CachedFinite, FS_Subset
    <3>2. QED
      BY <3>1, CachedFinite, FS_CardinalityType
  <2>3. Cardinality(Cached') <= 1
    BY <1>1, <2>1, <2>2
  <2>4. QED
    BY <2>3 DEF ConvergeInv
<1>2. CASE \E x \in Requests : settling(x)
  <2>1. PICK x \in Requests : settling(x)
    BY <1>2
  <2>2. CASE x = r
    BY <2>1, <2>2 DEF ConvergeInv
  <2>3. CASE x # r
    <3>1. settling(x)'
      BY <2>1, <2>3, SettlingStays
    <3>2. QED
      BY <3>1 DEF ConvergeInv
  <2>4. QED
    BY <2>2, <2>3
<1>3. QED
  BY <1>1, <1>2 DEF ConvergeInv

\* Nothing is settling or stored at first.
LEMMA ConvergeInit == Init => ConvergeInv
<1>1. Init => Cached = {}
  BY DEF Init, BaselinesInit, Cached
<1>2. QED
  BY <1>1, FS_EmptySet DEF ConvergeInv

\* Only the constructor of Baselines and forget_all touch _CACHE.
LEMMA ConvergeStep ==
    ASSUME OrderInv, ConvergeInv, [Next]_vars
    PROVE  ConvergeInv'
<1> USE DEF goto, warehouseVars, baselinesVars, askVars
<1>0. /\ pc \in [Requests -> Labels] /\ listed \in [Requests -> SUBSET Keys]
      /\ cache \in [Keys -> Requests \cup {NoStore}]
      /\ key \in [Requests -> Keys \cup {NotTaken}]
  BY DEF OrderInv, TypeOK
<1>1. ASSUME NEW r \in Requests, SetDefault(r)
      PROVE  ConvergeInv'
  <2>1. pc'[r] = "check_len"
    BY <1>0, <1>1 DEF SetDefault
  <2>2. settling(r)'
    BY <2>1 DEF settling
  <2>3. QED
    BY <2>2 DEF ConvergeInv
<1>2. ASSUME NEW r \in Requests, CheckLen(r)
      PROVE  ConvergeInv'
  <2>1. UNCHANGED Cached
    BY <1>2 DEF CheckLen, Cached
  <2>2. settling(r)' \/ Cardinality(Cached) <= 1
    <3>1. CASE Cardinality(Cached) > 1
      BY <1>0, <1>2, <3>1 DEF CheckLen, settling
    <3>2. CASE ~(Cardinality(Cached) > 1)
      <4>1. Cardinality(Cached) \in Nat
        BY CachedFinite, FS_CardinalityType
      <4>2. QED
        BY <3>2, <4>1
    <3>3. QED
      BY <3>1, <3>2
  <2>3. \A x \in Requests \ {r} :
           <<pc[x], listed[x], key[x]>>' = <<pc[x], listed[x], key[x]>>
    BY <1>0, <1>2 DEF CheckLen
  <2>4. QED
    BY <2>1, <2>2, <2>3, ConvergeKept
<1>3. ASSUME NEW r \in Requests, Iterate(r)
      PROVE  ConvergeInv'
  <2>1. UNCHANGED Cached
    BY <1>3 DEF Iterate, Cached
  <2>2. pc'[r] = "list" /\ listed'[r] = Cached
    BY <1>0, <1>3 DEF Iterate
  <2>3. settling(r)'
    BY <2>1, <2>2 DEF settling
  <2>4. QED
    BY <2>3 DEF ConvergeInv
<1>4. ASSUME NEW r \in Requests, ListStale(r)
      PROVE  ConvergeInv'
  <2>1. UNCHANGED <<Cached, key>>
    BY <1>4 DEF ListStale, Cached
  <2>2. \A x \in Requests \ {r} :
           <<pc[x], listed[x], key[x]>>' = <<pc[x], listed[x], key[x]>>
    BY <1>0, <1>4 DEF ListStale
  <2>3. ASSUME settling(r)
        PROVE  settling(r)' \/ Cardinality(Cached) <= 1
    <3>1. Cached \subseteq listed[r]
      BY <1>4, <2>3 DEF ListStale, settling
    <3>2. CASE goto(r, "halted at reconciler")
      BY <1>0, <3>2 DEF settling
    <3>3. CASE ~goto(r, "halted at reconciler")
      <4>1. Cardinality(Cached) = Cardinality(listed[r])
        BY <1>4, <3>3 DEF ListStale
      <4>2. PICK seen \in SUBSET (listed[r] \cup Cached) :
               /\ listed[r] \cap Cached \subseteq seen
               /\ listed' = [listed EXCEPT ![r] = seen \ {key[r]}]
               /\ goto(r, IF seen \subseteq {key[r]} THEN "audit" ELSE "delete")
        BY <1>4, <3>3 DEF ListStale
      <4>3. IsFiniteSet(listed[r])
        BY <1>0, KeysFinite
      <4>4. Cached = listed[r]
        BY <3>1, <4>1, <4>3, FS_Subset
      <4>5. Cached = seen
        BY <4>2, <4>4
      <4>6. CASE seen \subseteq {key[r]}
        BY <4>5, <4>6, AtMostOne
      <4>7. CASE ~(seen \subseteq {key[r]})
        <5>1. pc'[r] = "delete" /\ listed'[r] = Cached \ {key[r]}
          BY <1>0, <4>2, <4>5, <4>7
        <5>2. QED
          BY <2>1, <5>1 DEF settling
      <4>8. QED
        BY <4>6, <4>7
    <3>4. QED
      BY <3>2, <3>3
  <2>4. QED
    BY <2>1, <2>2, <2>3, ConvergeKept
<1>5. ASSUME NEW r \in Requests, DeleteStale(r)
      PROVE  ConvergeInv'
  <2>1. PICK stale \in listed[r] :
           IF cache[stale] = NoStore
           THEN /\ goto(r, "halted at reconciler")
                /\ UNCHANGED <<cache, listed>>
           ELSE /\ cache' = [cache EXCEPT ![stale] = NoStore]
                /\ listed' = [listed EXCEPT ![r] = @ \ {stale}]
                /\ goto(r, IF listed[r] = {stale} THEN "audit" ELSE "delete")
    BY <1>5 DEF DeleteStale
  <2>2. key' = key /\ stale \in Keys
    BY <1>0, <1>5 DEF DeleteStale
  <2>3. CASE cache[stale] = NoStore
    <3>1. pc'[r] = "halted at reconciler"
      BY <1>0, <2>1, <2>3
    <3>2. settling(r)'
      BY <3>1 DEF settling
    <3>3. QED
      BY <3>2 DEF ConvergeInv
  <2>4. CASE cache[stale] # NoStore
    <3>1. /\ cache' = [cache EXCEPT ![stale] = NoStore]
          /\ listed' = [listed EXCEPT ![r] = @ \ {stale}]
          /\ goto(r, IF listed[r] = {stale} THEN "audit" ELSE "delete")
      BY <2>1, <2>4
    <3>2. Cached' = Cached \ {stale}
      BY <1>0, <2>2, <3>1 DEF Cached
    <3>3. listed'[r] = listed[r] \ {stale}
      BY <1>0, <3>1
    <3>4. \A x \in Requests \ {r} :
             <<pc[x], listed[x], key[x]>>' = <<pc[x], listed[x], key[x]>>
      BY <1>0, <2>2, <3>1
    <3>5. ASSUME settling(r)
          PROVE  settling(r)' \/ Cardinality(Cached') <= 1
      <4>1. Cached \subseteq listed[r] \cup {key[r]}
        BY <1>5, <3>5 DEF DeleteStale, settling
      <4>2. CASE listed[r] = {stale}
        <5>1. Cached' \subseteq {key[r]}
          BY <3>2, <4>1, <4>2
        <5>2. QED
          BY <5>1, AtMostOne
      <4>3. CASE listed[r] # {stale}
        <5>1. pc'[r] = "delete" /\ Cached' \subseteq listed'[r] \cup {key'[r]}
          BY <1>0, <2>2, <3>1, <3>2, <3>3, <4>1, <4>3
        <5>2. QED
          BY <5>1 DEF settling
      <4>4. QED
        BY <4>2, <4>3
    <3>6. QED
      BY <3>2, <3>4, <3>5, ConvergeKept
  <2>5. QED
    BY <2>3, <2>4
<1>6. ASSUME Forget
      PROVE  ConvergeInv'
  <2>1. Cached' = {}
    BY <1>6 DEF Forget, ForgetAll, Cached
  <2>2. QED
    BY <2>1, FS_EmptySet DEF ConvergeInv
<1>7. ASSUME NEW r \in Requests, UNCHANGED <<cache, listed>>,
             \A x \in Requests \ {r} : pc'[x] = pc[x] /\ key'[x] = key[x],
             ~settling(r)
      PROVE  ConvergeInv'
  <2>1. UNCHANGED Cached
    BY <1>7 DEF Cached
  <2>2. QED
    BY <1>7, <2>1, ConvergeKept
<1>8. ASSUME NEW r \in Requests,
             \/ Ask(r) \/ Connect(r) \/ Query(r) \/ Audit(r) \/ Scalar(r)
             \/ TakeFingerprint(r)
      PROVE  ConvergeInv'
  <2>1. UNCHANGED <<cache, listed>>
    BY <1>8 DEF Ask, Connect, Query, Audit, Scalar, TakeFingerprint, PlanAudit,
       StartCheck, FigureIsNone, ConcludeCheck, CatchCheck, Close, Lookup, Hit,
       Open, Fetch, PickVictim, PopVictim, Remember
  <2>2. \A x \in Requests \ {r} : pc'[x] = pc[x] /\ key'[x] = key[x]
    BY <1>0, <1>8 DEF Ask, Connect, Query, Audit, Scalar, TakeFingerprint,
       PlanAudit, StartCheck, FigureIsNone, ConcludeCheck, CatchCheck, Close,
       Lookup, Hit, Open, Fetch, PickVictim, PopVictim, Remember, returns,
       reports
  <2>3. ~settling(r)
    BY <1>8 DEF settling, Ask, Connect, Query, Audit, Scalar, TakeFingerprint,
       PlanAudit, StartCheck, FigureIsNone, ConcludeCheck, CatchCheck, Close,
       Lookup, Hit, Open, Fetch, PickVictim, PopVictim, Remember
  <2>4. QED
    BY <1>7, <2>1, <2>2, <2>3
<1>9. ASSUME UNCHANGED <<cache, pc, listed, key>>
      PROVE  ConvergeInv'
  BY <1>9 DEF ConvergeInv, settling, Cached
<1>10. QED
  BY <1>1, <1>2, <1>3, <1>4, <1>5, <1>6, <1>8, <1>9
     DEF Next, RequestStep, Rebuild, Construct, Finished, vars

\* memory.py, "for stale in ...: del _CACHE[stale]": whenever more than one
\* version is in _CACHE, some thread is on its way to delete all but its own,
\* or failed doing so.
THEOREM ConvergeHolds == Spec => []ConvergeInv
<1>1. OrderInv /\ ConvergeInv /\ [Next]_vars => ConvergeInv'
  BY ConvergeStep
<1>2. QED
  BY <1>1, ConvergeInit, OrderHolds, PTL DEF Spec

\* memory.py, "a new fingerprint replaces the map wholesale": for any number
\* of threads, when none is inside the constructor and none failed there, at
\* most one version of the warehouse is left in _CACHE.
THEOREM CacheConvergence == Spec => []CacheConverges
<1>1. ConvergeInv => CacheConverges
  BY DEF ConvergeInv, CacheConverges, settling, Constructing
<1>2. QED
  BY <1>1, ConvergeHolds, PTL

---------------------------------------------------------------------------
(* The inner dictionaries stay small.                                      *)

\* There are as many entries as there are, at most one for every query ...
LEMMA RememberedFinite ==
    \A d \in Requests :
        IsFiniteSet(Remembered(d)) /\ Cardinality(Remembered(d)) \in Nat
<1>1. IsFiniteSet(Sqls)
  <2>1. \A a, b, c : IsFiniteSet({a, b, c})
    <3>1. \A a, b : IsFiniteSet({a} \cup {b})
      <4>1. \A a : IsFiniteSet({a})
        BY FS_Singleton
      <4>2. QED
        BY <4>1, FS_AddElement
    <3>2. \A a, b, c : IsFiniteSet(({a} \cup {b}) \cup {c})
      BY <3>1, FS_AddElement
    <3>3. ASSUME NEW a, NEW b, NEW c PROVE IsFiniteSet({a, b, c})
      <4>1. {a, b, c} = ({a} \cup {b}) \cup {c}
        OBVIOUS
      <4>2. IsFiniteSet(({a} \cup {b}) \cup {c})
        BY <3>2
      <4>3. QED
        BY <4>1, <4>2, Zenon
    <3>4. QED
      BY <3>3
  <2> DEFINE A == {"revenue_total", "fact_rows", "null_rows"}
             B == {"orphan_rows", "members_region", "members_category"}
             C == {"members_segment", "calendar_month", "calendar_day"}
  <2>2. Sqls = (A \cup B) \cup C
    BY DEF Sqls
  <2>3. IsFiniteSet(A) /\ IsFiniteSet(B) /\ IsFiniteSet(C)
    BY <2>1
  <2> HIDE DEF A, B, C
  <2>4. IsFiniteSet((A \cup B) \cup C)
    BY <2>3, FS_Union
  <2>5. QED
    BY <2>2, <2>4
<1>2. \A d \in Requests : Remembered(d) \subseteq Sqls
  BY DEF Remembered
<1>3. QED
  BY <1>1, <1>2, FS_Subset, FS_CardinalityType

\* ... and no more threads about to add one than there are threads.
LEMMA AddingFinite ==
    \A d \in Requests :
        /\ IsFiniteSet(Adding(d)) /\ Cardinality(Adding(d)) \in Nat
        /\ Cardinality(Adding(d)) <= Cardinality(Requests)
<1>1. \A d \in Requests : Adding(d) \subseteq Requests
  BY DEF Adding
<1>2. QED
  BY <1>1, RequestsAssumption, FS_Subset, FS_CardinalityType

\* The numbers of requests and of entries are numbers.
LEMMA SizesOK == Cardinality(Requests) \in Nat /\ MAX_ENTRIES \in Nat \ {0}
BY RequestsAssumption, BaselinesAssumption, FS_CardinalityType

\* Nobody adds anything, or becomes about to.
LEMMA RoomKept ==
    ASSUME RoomInv, UNCHANGED store, \A d \in Requests : Adding(d)' \subseteq Adding(d)
    PROVE  RoomInv'
<1> SUFFICES ASSUME NEW d \in Requests
             PROVE  Cardinality(Remembered(d))' + Cardinality(Adding(d))'
                      < MAX_ENTRIES + Cardinality(Requests)
  BY DEF RoomInv
<1>1. Remembered(d)' = Remembered(d)
  BY DEF Remembered
<1>2. /\ IsFiniteSet(Adding(d)')
      /\ Cardinality(Adding(d)') <= Cardinality(Adding(d))
  BY AddingFinite, FS_Subset
<1>3. Cardinality(Adding(d)') \in Nat
  BY <1>2, FS_CardinalityType
<1>4. QED
  BY <1>1, <1>2, <1>3, RememberedFinite, AddingFinite, SizesOK DEF RoomInv

\* The empty store is within its room.
LEMMA RoomInit == Init => RoomInv
<1> SUFFICES ASSUME Init, NEW d \in Requests
             PROVE  Cardinality(Remembered(d)) + Cardinality(Adding(d))
                      < MAX_ENTRIES + Cardinality(Requests)
  BY DEF RoomInv
<1>1. Remembered(d) = {} /\ Adding(d) = {}
  BY DEF Init, BaselinesInit, Remembered, Adding
<1>2. QED
  BY <1>1, SizesOK, FS_EmptySet

\* Only Fetch and PopVictim make a thread about to add an entry: one when there
\* is room, the other when it has just removed one.
LEMMA RoomStep ==
    ASSUME OrderInv, RoomInv, [Next]_vars
    PROVE  RoomInv'
<1> USE DEF goto, warehouseVars, baselinesVars, askVars
<1>0. /\ pc \in [Requests -> Labels]
      /\ ref \in [Requests -> Requests \cup {NoStore}]
      /\ store \in [Requests -> [Sqls -> Stamps \cup {Absent}]]
  BY DEF OrderInv, TypeOK
<1>1. ASSUME NEW r \in Requests, Fetch(r)
      PROVE  RoomInv'
  <2>1. ref[r] \in Requests
    BY <1>1, RefType DEF Fetch, BeforeStore, BeforeKey
  <2>2. UNCHANGED <<store, ref>>
    BY <1>1 DEF Fetch
  <2>3. CASE pc'[r] # "remember"
    <3>1. \A d \in Requests : Adding(d)' \subseteq Adding(d)
      BY <1>0, <1>1, <2>2, <2>3 DEF Fetch, Adding
    <3>2. QED
      BY <2>2, <3>1, RoomKept
  <2>4. CASE pc'[r] = "remember"
    <3>1. ~(Cardinality(Remembered(ref[r])) >= MAX_ENTRIES)
      BY <1>0, <1>1, <2>4 DEF Fetch
    <3> SUFFICES ASSUME NEW d \in Requests
                 PROVE  Cardinality(Remembered(d))' + Cardinality(Adding(d))'
                          < MAX_ENTRIES + Cardinality(Requests)
      BY DEF RoomInv
    <3>2. Remembered(d)' = Remembered(d)
      BY <2>2 DEF Remembered
    <3>3. CASE d = ref[r]
      <4>1. /\ Cardinality(Adding(d)') <= Cardinality(Requests)
            /\ Cardinality(Adding(d)') \in Nat
        <5>1. Adding(d)' \subseteq Requests
          BY DEF Adding
        <5>2. QED
          BY <5>1, RequestsAssumption, FS_Subset, FS_CardinalityType
      <4>2. Cardinality(Remembered(d)) < MAX_ENTRIES
        BY <3>1, <3>3, RememberedFinite, SizesOK
      <4>3. QED
        BY <3>2, <4>1, <4>2, RememberedFinite, SizesOK
    <3>4. CASE d # ref[r]
      <4>1. Adding(d)' = Adding(d)
        BY <1>0, <1>1, <2>2, <3>4 DEF Fetch, Adding
      <4>2. QED
        BY <3>2, <4>1 DEF RoomInv
    <3>5. QED
      BY <3>3, <3>4
  <2>5. QED
    BY <2>3, <2>4
<1>2. ASSUME NEW r \in Requests, PopVictim(r)
      PROVE  RoomInv'
  <2>1. ref[r] \in Requests /\ victim[r] \in Sqls
    BY <1>2, RefType DEF PopVictim, BeforeStore, BeforeKey, OrderInv, Prepared
  <2>2. UNCHANGED ref
    BY <1>2 DEF PopVictim
  <2>3. CASE store[ref[r]][victim[r]] = Absent
    <3>1. UNCHANGED store /\ \A d \in Requests : Adding(d)' \subseteq Adding(d)
      BY <1>0, <1>2, <2>2, <2>3 DEF PopVictim, Adding
    <3>2. QED
      BY <3>1, RoomKept
  <2>4. CASE store[ref[r]][victim[r]] # Absent
    <3>1. /\ store' = [store EXCEPT ![ref[r]][victim[r]] = Absent]
          /\ pc' = [pc EXCEPT ![r] = "remember"]
          /\ pc[r] = "pop"
      BY <1>2, <2>4 DEF PopVictim
    <3> SUFFICES ASSUME NEW d \in Requests
                 PROVE  Cardinality(Remembered(d))' + Cardinality(Adding(d))'
                          < MAX_ENTRIES + Cardinality(Requests)
      BY DEF RoomInv
    <3>2. CASE d = ref[r]
      <4>1. Remembered(d)' = Remembered(d) \ {victim[r]}
        BY <1>0, <2>1, <3>1, <3>2 DEF Remembered
      <4>2. victim[r] \in Remembered(d)
        BY <2>1, <2>4, <3>2 DEF Remembered
      <4>3. Cardinality(Remembered(d)') = Cardinality(Remembered(d)) - 1
        BY <4>1, <4>2, RememberedFinite, FS_RemoveElement
      <4>4. Adding(d)' = Adding(d) \cup {r} /\ r \notin Adding(d)
        BY <1>0, <2>2, <3>1, <3>2 DEF Adding
      <4>5. Cardinality(Adding(d)') = Cardinality(Adding(d)) + 1
        BY <4>4, AddingFinite, FS_AddElement
      <4>6. QED
        BY <4>3, <4>5, RememberedFinite, AddingFinite, SizesOK DEF RoomInv
    <3>3. CASE d # ref[r]
      <4>1. Remembered(d)' = Remembered(d) /\ Adding(d)' = Adding(d)
        BY <1>0, <2>1, <2>2, <3>1, <3>3 DEF Remembered, Adding
      <4>2. QED
        BY <4>1 DEF RoomInv
    <3>4. QED
      BY <3>2, <3>3
  <2>5. QED
    BY <2>3, <2>4
<1>3. ASSUME NEW r \in Requests, Remember(r)
      PROVE  RoomInv'
  <2>1. ref[r] \in Requests /\ sql(r) \in Sqls
    BY <1>3, RefType, SqlType DEF Remember, OrderInv, Prepared, Calling,
       BeforeStore, BeforeKey
  <2>2. /\ UNCHANGED ref
        /\ store' = [store EXCEPT ![ref[r]][sql(r)] = con[r]]
        /\ pc' = [pc EXCEPT ![r] = "scalar"] /\ pc[r] = "remember"
    BY <1>3 DEF Remember, returns
  <2> SUFFICES ASSUME NEW d \in Requests
               PROVE  Cardinality(Remembered(d))' + Cardinality(Adding(d))'
                        < MAX_ENTRIES + Cardinality(Requests)
    BY DEF RoomInv
  <2>3. CASE d = ref[r]
    <3>1. Remembered(d)' \subseteq Remembered(d) \cup {sql(r)}
      BY <1>0, <2>1, <2>2, <2>3 DEF Remembered
    <3>2. /\ IsFiniteSet(Remembered(d) \cup {sql(r)})
          /\ Cardinality(Remembered(d) \cup {sql(r)}) <= Cardinality(Remembered(d)) + 1
      <4> DEFINE R == Remembered(d)
      <4>1. IsFiniteSet(R) /\ Cardinality(R) \in Nat
        BY RememberedFinite
      <4> HIDE DEF R
      <4>2. /\ IsFiniteSet(R \cup {sql(r)})
            /\ Cardinality(R \cup {sql(r)}) \in {Cardinality(R), Cardinality(R) + 1}
        BY <4>1, FS_AddElement
      <4>3. QED
        BY <4>1, <4>2 DEF R
    <3>3. /\ IsFiniteSet(Remembered(d)')
          /\ Cardinality(Remembered(d)') <= Cardinality(Remembered(d) \cup {sql(r)})
      BY <3>1, <3>2, FS_Subset
    <3>4. /\ Cardinality(Remembered(d)') \in Nat
          /\ Cardinality(Remembered(d) \cup {sql(r)}) \in Nat
      BY <3>2, <3>3, FS_CardinalityType
    <3>5. Adding(d)' = Adding(d) \ {r} /\ r \in Adding(d)
      BY <1>0, <2>2, <2>3 DEF Adding
    <3>6. Cardinality(Adding(d)') = Cardinality(Adding(d)) - 1
      BY <3>5, AddingFinite, FS_RemoveElement
    <3>7. QED
      BY <3>2, <3>3, <3>4, <3>6, RememberedFinite, AddingFinite, SizesOK
         DEF RoomInv
  <2>4. CASE d # ref[r]
    <3>1. Remembered(d)' = Remembered(d) /\ Adding(d)' = Adding(d)
      BY <1>0, <2>1, <2>2, <2>4 DEF Remembered, Adding
    <3>2. QED
      BY <3>1 DEF RoomInv
  <2>5. QED
    BY <2>3, <2>4
<1>4. ASSUME NEW r \in Requests, UNCHANGED store, pc'[r] # "remember",
             \A x \in Requests \ {r} : pc'[x] = pc[x] /\ ref'[x] = ref[x]
      PROVE  RoomInv'
  <2>1. \A d \in Requests : Adding(d)' \subseteq Adding(d)
    BY <1>4 DEF Adding
  <2>2. QED
    BY <1>4, <2>1, RoomKept
<1>5. ASSUME NEW r \in Requests,
             \/ Ask(r) \/ Connect(r) \/ Query(r) \/ Audit(r) \/ Construct(r)
             \/ Lookup(r) \/ Hit(r) \/ PickVictim(r)
      PROVE  RoomInv'
  <2>1. UNCHANGED store
    BY <1>5 DEF Ask, Connect, Query, Audit, Construct, TakeFingerprint,
       SetDefault, CheckLen, Iterate, ListStale, DeleteStale, PlanAudit,
       StartCheck, FigureIsNone, ConcludeCheck, CatchCheck, Close, Lookup, Hit,
       PickVictim
  <2>2. \A x \in Requests \ {r} : pc'[x] = pc[x] /\ ref'[x] = ref[x]
    BY <1>0, <1>5 DEF Ask, Connect, Query, Audit, Construct, TakeFingerprint,
       SetDefault, CheckLen, Iterate, ListStale, DeleteStale, PlanAudit,
       StartCheck, FigureIsNone, ConcludeCheck, CatchCheck, Close, Lookup, Hit,
       PickVictim, returns, reports
  <2>3. pc'[r] # "remember"
    BY <1>0, <1>5 DEF Ask, Connect, Query, Audit, Construct, TakeFingerprint,
       SetDefault, CheckLen, Iterate, ListStale, DeleteStale, PlanAudit,
       StartCheck, FigureIsNone, ConcludeCheck, CatchCheck, Close, Lookup, Hit,
       PickVictim, returns, reports
  <2>4. QED
    BY <1>4, <2>1, <2>2, <2>3
<1>6. ASSUME NEW r \in Requests, Open(r)
      PROVE  RoomInv'
  <2>1. UNCHANGED <<store, ref>>
    BY <1>6 DEF Open
  <2>2. pc' = pc \/ pc' = [pc EXCEPT ![r] = "raised"]
    BY <1>6 DEF Open
  <2>3. \A d \in Requests : Adding(d)' \subseteq Adding(d)
    BY <1>0, <2>1, <2>2 DEF Adding
  <2>4. QED
    BY <2>1, <2>3, RoomKept
<1>7. ASSUME UNCHANGED <<store, pc, ref>>
      PROVE  RoomInv'
  <2>1. \A d \in Requests : Adding(d)' \subseteq Adding(d)
    BY <1>7 DEF Adding
  <2>2. QED
    BY <1>7, <2>1, RoomKept
<1>8. QED
  BY <1>1, <1>2, <1>3, <1>5, <1>6, <1>7
     DEF Next, RequestStep, Rebuild, Forget, ForgetAll, Scalar, Finished, vars

\* memory.py, "if len(self._store) >= MAX_ENTRIES": the entries of an inner
\* dictionary and the threads about to add one are fewer than MAX_ENTRIES and
\* the number of threads together.
THEOREM RoomHolds == Spec => []RoomInv
<1>1. OrderInv /\ RoomInv /\ [Next]_vars => RoomInv'
  BY RoomStep
<1>2. QED
  BY <1>1, RoomInit, OrderHolds, PTL DEF Spec

\* memory.py, MAX_ENTRIES: for any number of threads, an inner dictionary holds
\* fewer entries more than MAX_ENTRIES than there are threads.
THEOREM StoresStaySmall == Spec => []StoreStaysSmall
<1>1. RoomInv => StoreStaysSmall
  <2> SUFFICES ASSUME RoomInv, NEW d \in Requests
               PROVE  Cardinality(Remembered(d)) < MAX_ENTRIES + Cardinality(Requests)
    BY DEF StoreStaysSmall
  <2>1. QED
    BY RememberedFinite, AddingFinite, SizesOK DEF RoomInv
<1>2. QED
  BY <1>1, RoomHolds, PTL

---------------------------------------------------------------------------
(* A verified answer was read in full.                                     *)

\* All that ReadInv says of one thread.
audited(x) == <<pc[x], plan[x], todo[x], left[x], findings[x], figures[x]>>

\* A thread whose audit a step leaves alone stays accounted for.
LEMMA OthersRead ==
    ASSUME NEW x \in Requests, UNCHANGED audited(x), Accounted(x), Compared(x)
    PROVE  Accounted(x)' /\ Compared(x)'
<1>1. /\ pc'[x] = pc[x] /\ plan'[x] = plan[x] /\ todo'[x] = todo[x]
      /\ left'[x] = left[x] /\ findings'[x] = findings[x]
      /\ figures'[x] = figures[x]
  BY DEF audited
<1>2. Accounted(x)'
  BY <1>1 DEF Accounted
<1>3. Compared(x)'
  BY <1>1 DEF Compared, settled
<1>4. QED
  BY <1>2, <1>3

\* Before its audit, and if that never begins, a thread has found nothing.
LEMMA NotYetAuditing ==
    ASSUME NEW r \in Requests, Accounted(r), findings'[r] = findings[r],
           pc[r] \notin Underway \cup {"answered"},
           pc'[r] \notin Underway \cup {"answered"}
    PROVE  Accounted(r)' /\ Compared(r)'
<1>1. findings'[r] = <<>>
  BY DEF Accounted
<1>2. pc'[r] \notin Calling \cup {"scalar"}
  BY DEF Underway, Auditing, Calling
<1>3. QED
  BY <1>1, <1>2 DEF Accounted, Compared

\* Inside scalar() a thread loses nothing that it has read or has to ask.
LEMMA StaysCalling ==
    ASSUME NEW r \in Requests, Accounted(r), Compared(r),
           <<plan[r], todo[r], left[r], findings[r], figures[r]>>'
              = <<plan[r], todo[r], left[r], findings[r], figures[r]>>,
           pc[r] \in Calling \cup {"scalar"},
           pc'[r] \in Calling \cup {"scalar", "raised"}
    PROVE  Accounted(r)' /\ Compared(r)'
<1>1. /\ pc[r] \in Underway /\ pc'[r] \in Underway
      /\ pc'[r] # "answered"
  BY DEF Underway, Auditing, Calling
<1>2. /\ plan'[r] = plan[r] /\ todo'[r] = todo[r] /\ left'[r] = left[r]
      /\ findings'[r] = findings[r] /\ figures'[r] = figures[r]
  OBVIOUS
<1>3. Accounted(r)'
  BY <1>1, <1>2 DEF Accounted
<1>4. Compared(r)'
  BY <1>2 DEF Compared, settled
<1>5. QED
  BY <1>3, <1>4

\* A figure that scalar() returns takes the place of the query for it.
LEMMA ReturnsRead ==
    ASSUME OrderInv, NEW r \in Requests, NEW v \in Stamps, Accounted(r),
           Compared(r), returns(r, v), pc[r] \in Calling,
           <<plan[r], todo[r], findings[r]>>' = <<plan[r], todo[r], findings[r]>>
    PROVE  Accounted(r)' /\ Compared(r)'
<1>1. /\ pc \in [Requests -> Labels]
      /\ figures \in [Requests -> SUBSET (Sqls \X Stamps)]
      /\ left \in [Requests -> Seq(Sqls)]
  BY DEF OrderInv, TypeOK
<1>2. left[r] # <<>>
  BY DEF OrderInv, Prepared
<1>3. /\ pc'[r] = "scalar" /\ left'[r] = Tail(left[r])
      /\ figures'[r] = figures[r] \cup {<<Head(left[r]), v>>}
  BY <1>1 DEF returns, goto, sql
<1>4. Accounted(r)'
  <2>1. pc[r] \in Underway /\ pc'[r] \in Underway /\ pc'[r] # "answered"
    BY <1>3 DEF Underway, Auditing, Calling
  <2>2. QED
    BY <2>1 DEF Accounted
<1>5. \A q : (\E f \in figures[r] : f[1] = q) => \E f \in figures'[r] : f[1] = q
  BY <1>3
<1>6. \E f \in figures'[r] : f[1] = Head(left[r])
  <2>1. <<Head(left[r]), v>> \in figures'[r]
    BY <1>3
  <2>2. <<Head(left[r]), v>>[1] = Head(left[r])
    OBVIOUS
  <2>3. QED
    BY <2>1, <2>2
<1>7. \A j \in DOMAIN left[r] :
         left[r][j] = Head(left[r]) \/ \E i \in DOMAIN left'[r] : left'[r][i] = left[r][j]
  <2> DEFINE s == left[r]
  <2>1. s \in Seq(Sqls) /\ s # <<>> /\ left'[r] = Tail(s)
    BY <1>1, <1>2, <1>3
  <2> HIDE DEF s
  <2>2. ASSUME NEW j \in DOMAIN s, j # 1
        PROVE  j - 1 \in DOMAIN Tail(s) /\ Tail(s)[j - 1] = s[j]
    BY <2>1, <2>2
  <2>3. Head(s) = s[1]
    BY <2>1
  <2>4. \A j \in DOMAIN s :
           s[j] = Head(s) \/ \E i \in DOMAIN left'[r] : left'[r][i] = s[j]
    BY <2>1, <2>2, <2>3
  <2>5. QED
    BY <2>4 DEF s
<1>8. PICK calls \in scalarCalls(Head(todo[r]), plan[r]) :
         \A i \in DOMAIN calls : \/ \E f \in figures[r] : f[1] = calls[i]
                                 \/ \E j \in DOMAIN left[r] : left[r][j] = calls[i]
  BY DEF Compared
<1>9. \A i \in DOMAIN calls : \/ \E f \in figures'[r] : f[1] = calls[i]
                              \/ \E j \in DOMAIN left'[r] : left'[r][j] = calls[i]
  BY <1>5, <1>6, <1>7, <1>8
<1>10. /\ plan'[r] = plan[r] /\ todo'[r] = todo[r] /\ findings'[r] = findings[r]
  OBVIOUS
<1>11. Compared(r)'
  <2>1. (\A i \in DOMAIN findings[r] :
            findings[r][i].status = OK => settled(findings[r][i].check, r))'
    BY <1>5, <1>10 DEF Compared, settled
  <2>2. calls \in scalarCalls(Head(todo'[r]), plan'[r])
    BY <1>8, <1>10
  <2>3. QED
    BY <1>9, <2>1, <2>2 DEF Compared
<1>12. QED
  BY <1>4, <1>11

\* Of two parts of a sequence, one grows by what the other loses.
LEMMA SplitMoves ==
    ASSUME NEW F, NEW f \in Seq(F), NEW e \in F, NEW S, NEW t \in Seq(S), t # <<>>,
           NEW sel \in Seq(S), partsOf(sel, f, t), e.check = Head(t)
    PROVE  partsOf(sel, Append(f, e), Tail(t))
<1> USE DEF partsOf
<1>1. /\ Len(Append(f, e)) = Len(f) + 1 /\ Append(f, e)[Len(f) + 1] = e
      /\ \A i \in 1..Len(f) : Append(f, e)[i] = f[i]
  OBVIOUS
<1>2. /\ Len(Tail(t)) = Len(t) - 1 /\ Head(t) = t[1]
      /\ \A i \in 1..Len(Tail(t)) : Tail(t)[i] = t[i + 1] /\ i + 1 \in 1..Len(t)
  OBVIOUS
<1>3. Len(f) \in Nat /\ Len(t) \in Nat /\ 1 \in 1..Len(t)
  OBVIOUS
<1>4. \A i \in 1..(Len(f) + 1) : i \in 1..Len(f) \/ i = Len(f) + 1
  BY <1>3
<1>5. Append(f, e)[Len(f) + 1].check = sel[Len(f) + 1]
  BY <1>1, <1>2, <1>3
<1>6. \A i \in 1..Len(Append(f, e)) : Append(f, e)[i].check = sel[i]
  BY <1>1, <1>4, <1>5
<1>7. Len(sel) = Len(Append(f, e)) + Len(Tail(t))
  BY <1>1, <1>2, <1>3
<1>8. \A i \in 1..Len(Tail(t)) : Tail(t)[i] = sel[Len(Append(f, e)) + i]
  <2> TAKE i \in 1..Len(Tail(t))
  <2>1. Len(f) + (i + 1) = Len(Append(f, e)) + i
    BY <1>1, <1>3
  <2>2. QED
    BY <1>2, <2>1
<1>9. QED
  BY <1>6, <1>7, <1>8

\* At first nothing is found and everything is to be run; in the end, the
\* other way round.
LEMMA SplitEnds ==
    ASSUME NEW S, NEW sel \in Seq(S)
    PROVE  /\ partsOf(sel, <<>>, sel)
           /\ \A F : \A f \in Seq(F) : partsOf(sel, f, <<>>) =>
                /\ Len(sel) = Len(f)
                /\ \A i \in 1..Len(f) : f[i].check = sel[i]
<1>1. Len(<<>>) = 0 /\ Len(sel) \in Nat
  OBVIOUS
<1>2. \A i \in 1..Len(sel) : 0 + i = i
  BY <1>1
<1>3. partsOf(sel, <<>>, sel)
  BY <1>1, <1>2 DEF partsOf
<1>4. ASSUME NEW F, NEW f \in Seq(F), partsOf(sel, f, <<>>)
      PROVE  Len(sel) = Len(f) /\ \A i \in 1..Len(f) : f[i].check = sel[i]
  <2>1. Len(f) \in Nat
    OBVIOUS
  <2>2. QED
    BY <1>1, <1>4, <2>1 DEF partsOf
<1>5. QED
  BY <1>3, <1>4

\* What is in a sequence after an append was in it or is what was appended.
LEMMA AppendedIn ==
    ASSUME NEW F, NEW G, NEW f \in Seq(F), NEW e \in F, e \in G,
           \A i \in DOMAIN f : f[i] \in G
    PROVE  \A i \in DOMAIN Append(f, e) : Append(f, e)[i] \in G
<1>1. \A i \in DOMAIN Append(f, e) :
         Append(f, e)[i] = e \/ (i \in DOMAIN f /\ Append(f, e)[i] = f[i])
  OBVIOUS
<1>2. QED
  BY <1>1

\* A check that is over moves from the checks to run to the findings; an OK
\* one has to be settled.
LEMMA ReportsAccounted ==
    ASSUME OrderInv, NEW r \in Requests, NEW status \in {OK, WARN},
           Accounted(r), Compared(r), pc[r] \in {"scalar", "raised"},
           reports(r, status), status = OK => settled(Head(todo[r]), r),
           <<plan[r], figures[r]>>' = <<plan[r], figures[r]>>
    PROVE  Accounted(r)' /\ Compared(r)'
<1> DEFINE F == [check : Checks, status : {OK, WARN}]
           G == {x \in F : x.status = OK => settled(x.check, r)}
           e == [check |-> Head(todo[r]), status |-> status]
<1>1. /\ pc \in [Requests -> Labels] /\ todo \in [Requests -> Seq(Checks)]
      /\ findings \in [Requests -> Seq(F)]
  BY DEF OrderInv, TypeOK
<1>2. todo[r] \in Seq(Checks) /\ todo[r] # <<>> /\ selected(plan[r]) \in Seq(Checks)
  <2>1. plan[r] \in Plans
    BY ConstantsOK DEF OrderInv, Prepared
  <2>2. QED
    BY <1>1, <2>1, SelectedType DEF OrderInv, Prepared
<1>3. e \in G /\ e \in F /\ e.check = Head(todo[r])
  BY <1>2, TodoType
<1>4. /\ pc'[r] = "next check" /\ todo'[r] = Tail(todo[r])
      /\ findings'[r] = Append(findings[r], e)
      /\ plan'[r] = plan[r] /\ figures'[r] = figures[r]
  BY <1>1 DEF reports, goto
<1>5. partsOf(selected(plan[r]), findings[r], todo[r])
  BY DEF Accounted, Underway, Auditing
<1>6. pc'[r] # "answered" /\ pc'[r] \in Underway /\ pc'[r] \notin Calling \cup {"scalar"}
  BY <1>4 DEF Underway, Auditing, Calling
<1>7. findings[r] \in Seq(F)
  BY <1>1
<1>8. \A i \in DOMAIN findings[r] : findings[r][i] \in G
  <2>1. \A i \in DOMAIN findings[r] : findings[r][i] \in F
    <3> HIDE DEF F
    <3>1. QED
      BY <1>7
  <2>2. QED
    BY <2>1 DEF Compared
<1> HIDE DEF F, G, e
<1>9. partsOf(selected(plan[r]), findings'[r], todo'[r])
  <2>1. partsOf(selected(plan[r]), Append(findings[r], e), Tail(todo[r]))
    BY <1>2, <1>3, <1>5, <1>7, SplitMoves
  <2>2. QED
    BY <1>4, <2>1
<1>10. Accounted(r)'
  BY <1>4, <1>6, <1>9 DEF Accounted
<1>11. \A i \in DOMAIN findings'[r] : findings'[r][i] \in G
  <2>1. \A i \in DOMAIN Append(findings[r], e) : Append(findings[r], e)[i] \in G
    BY <1>3, <1>7, <1>8, AppendedIn
  <2>2. QED
    BY <1>4, <2>1
<1>12. Compared(r)'
  <2>1. (\A i \in DOMAIN findings[r] :
            findings[r][i].status = OK => settled(findings[r][i].check, r))'
    <3>1. \A x \in G : x.status = OK => settled(x.check, r)
      BY DEF G
    <3>2. \A x \in G : x.status = OK =>
             \E calls \in scalarCalls(x.check, plan'[r]) :
                \A i \in DOMAIN calls : \E p \in figures'[r] : p[1] = calls[i]
      <4> SUFFICES ASSUME NEW x \in G, x.status = OK
                   PROVE  \E calls \in scalarCalls(x.check, plan'[r]) :
                             \A i \in DOMAIN calls :
                                \E p \in figures'[r] : p[1] = calls[i]
        OBVIOUS
      <4>1. \E calls \in scalarCalls(x.check, plan[r]) :
               \A i \in DOMAIN calls : \E p \in figures[r] : p[1] = calls[i]
        BY <3>1 DEF settled
      <4>2. plan'[r] = plan[r] /\ figures'[r] = figures[r]
        BY <1>4
      <4>3. QED
        BY <4>1, <4>2
    <3>3. QED
      BY <1>11, <3>2 DEF settled
  <2>2. QED
    BY <1>6, <2>1 DEF Compared
<1>13. QED
  BY <1>10, <1>12

\* No request has a finding at first.
LEMMA ReadInit == Init => ReadInv
BY DEF Init, BaselinesInit, ReadInv, Accounted, Compared, Underway, Auditing,
   Calling

\* One step per part of a request: on its way to the audit, the selection, the
\* start of a check, the calls, the end of a check, the close.
LEMMA ReadStep ==
    ASSUME OrderInv, ReadInv, [Next]_vars
    PROVE  ReadInv'
<1> USE DEF goto, warehouseVars, baselinesVars, askVars
<1>0. /\ pc \in [Requests -> Labels] /\ plan \in [Requests -> AskedPlans \cup {NotAsked}]
      /\ todo \in [Requests -> Seq(Checks)] /\ left \in [Requests -> Seq(Sqls)]
      /\ figures \in [Requests -> SUBSET (Sqls \X Stamps)]
      /\ findings \in [Requests -> Seq([check : Checks, status : {OK, WARN}])]
  BY DEF OrderInv, TypeOK
<1>1. ASSUME NEW r \in Requests, Accounted(r)' /\ Compared(r)',
             \A x \in Requests \ {r} : UNCHANGED audited(x)
      PROVE  ReadInv'
  BY <1>1, OthersRead DEF ReadInv
<1>2. ASSUME NEW r \in Requests, Ask(r) \/ Connect(r) \/ Query(r) \/ (Construct(r) /\ UNCHANGED askVars)
      PROVE  ReadInv'
  <2>1. UNCHANGED <<findings, todo, left, figures>>
    BY <1>2 DEF Ask, Connect, Query, Construct, TakeFingerprint, SetDefault,
       CheckLen, Iterate, ListStale, DeleteStale
  <2>2. pc[r] \in {"idle", "execute", "query", "fingerprint"} \cup Constructing
    BY <1>2 DEF Ask, Connect, Query, Construct, TakeFingerprint, SetDefault,
       CheckLen, Iterate, ListStale, DeleteStale, Constructing
  <2>3. pc'[r] \in {"execute", "unavailable", "query", "halted at executor",
                    "fingerprint", "halted at reconciler", "audit"} \cup Constructing
    BY <1>0, <1>2 DEF Ask, Connect, Query, Construct, TakeFingerprint, SetDefault,
       CheckLen, Iterate, ListStale, DeleteStale, Constructing
  <2>4. /\ pc[r] \notin Underway \cup {"answered"}
        /\ pc'[r] \notin Underway \cup {"answered"}
    BY <2>2, <2>3 DEF Underway, Auditing, Constructing
  <2>5. Accounted(r)' /\ Compared(r)'
    BY <2>1, <2>4, NotYetAuditing DEF ReadInv
  <2>6. \A x \in Requests \ {r} : UNCHANGED audited(x)
    BY <1>0, <1>2, <2>1 DEF audited, Ask, Connect, Query, Construct,
       TakeFingerprint, SetDefault, CheckLen, Iterate, ListStale, DeleteStale
  <2>7. QED
    BY <1>1, <2>5, <2>6
<1>3. ASSUME NEW r \in Requests, PlanAudit(r)
      PROVE  ReadInv'
  <2>1. /\ findings[r] = <<>> /\ findings' = findings /\ plan' = plan
        /\ todo'[r] = selected(plan[r]) /\ pc'[r] = "next check"
    BY <1>0, <1>3 DEF PlanAudit, ReadInv, Accounted, Underway
  <2>2. plan[r] \in Plans
    BY <1>3, ConstantsOK DEF PlanAudit, OrderInv, Prepared
  <2>3. selected(plan[r]) \in Seq(Checks)
    BY <2>2, SelectedType
  <2>4. Accounted(r)'
    <3>1. findings'[r] = <<>> /\ plan'[r] = plan[r] /\ todo'[r] = selected(plan[r])
      BY <2>1
    <3>2. pc'[r] \in Underway /\ pc'[r] # "answered"
      BY <2>1 DEF Underway, Auditing
    <3>3. partsOf(selected(plan[r]), <<>>, selected(plan[r]))
      BY <2>3, SplitEnds
    <3>4. QED
      BY <3>1, <3>2, <3>3 DEF Accounted
  <2>5. Compared(r)'
    <3>1. findings'[r] = <<>>
      BY <2>1
    <3>2. pc'[r] \notin Calling \cup {"scalar"}
      BY <2>1 DEF Calling
    <3>3. QED
      BY <3>1, <3>2 DEF Compared
  <2>6. \A x \in Requests \ {r} : UNCHANGED audited(x)
    BY <1>0, <1>3 DEF audited, PlanAudit
  <2>7. QED
    BY <1>1, <2>4, <2>5, <2>6
<1>4. ASSUME NEW r \in Requests, StartCheck(r)
      PROVE  ReadInv'
  <2>1. PICK calls \in scalarCalls(Head(todo[r]), plan[r]) :
           left' = [left EXCEPT ![r] = calls]
    BY <1>4 DEF StartCheck
  <2>2. /\ UNCHANGED <<plan, todo, findings, figures>> /\ left'[r] = calls
        /\ pc[r] = "next check" /\ pc'[r] = "scalar"
    BY <1>0, <1>4, <2>1 DEF StartCheck
  <2>3. Accounted(r)'
    BY <2>2 DEF ReadInv, Accounted, Underway, Auditing
  <2>4. Compared(r)'
    BY <2>2 DEF ReadInv, Compared, settled
  <2>5. \A x \in Requests \ {r} : UNCHANGED audited(x)
    BY <1>0, <1>4, <2>1 DEF audited, StartCheck
  <2>6. QED
    BY <1>1, <2>3, <2>4, <2>5
<1>5. ASSUME NEW r \in Requests, ConcludeCheck(r)
      PROVE  ReadInv'
  <2>1. PICK status \in {OK, WARN} : reports(r, status)
    BY <1>5 DEF ConcludeCheck
  <2>2. pc[r] = "scalar" /\ left[r] = <<>> /\ UNCHANGED <<plan, figures, left>>
    BY <1>5 DEF ConcludeCheck
  <2>3. settled(Head(todo[r]), r)
    BY <2>2 DEF ReadInv, Compared, settled
  <2>4. Accounted(r)' /\ Compared(r)'
    BY <2>1, <2>2, <2>3, ReportsAccounted DEF ReadInv
  <2>5. \A x \in Requests \ {r} : UNCHANGED audited(x)
    BY <1>0, <2>1, <2>2 DEF audited, reports
  <2>6. QED
    BY <1>1, <2>4, <2>5
<1>6. ASSUME NEW r \in Requests, FigureIsNone(r)
      PROVE  ReadInv'
  <2>1. /\ UNCHANGED <<plan, todo, left, findings, figures>>
        /\ pc[r] = "scalar" /\ pc'[r] = "raised"
    BY <1>0, <1>6 DEF FigureIsNone
  <2>2. Accounted(r)' /\ Compared(r)'
    BY <2>1, StaysCalling DEF ReadInv
  <2>3. \A x \in Requests \ {r} : UNCHANGED audited(x)
    BY <1>0, <1>6 DEF audited, FigureIsNone
  <2>4. QED
    BY <1>1, <2>2, <2>3
<1>7. ASSUME NEW r \in Requests, CatchCheck(r)
      PROVE  ReadInv'
  <2>1. /\ reports(r, WARN) /\ pc[r] = "raised" /\ UNCHANGED <<plan, figures>>
        /\ left' = [left EXCEPT ![r] = <<>>]
    BY <1>7 DEF CatchCheck
  <2>2. WARN # OK
    BY DEF OK, WARN
  <2>3. Accounted(r)' /\ Compared(r)'
    BY <2>1, <2>2, ReportsAccounted DEF ReadInv
  <2>4. \A x \in Requests \ {r} : UNCHANGED audited(x)
    BY <1>0, <2>1 DEF audited, reports
  <2>5. QED
    BY <1>1, <2>3, <2>4
<1>8. ASSUME NEW r \in Requests, Close(r)
      PROVE  ReadInv'
  <2>1. /\ UNCHANGED <<plan, todo, left, findings, figures>>
        /\ pc[r] = "next check" /\ pc'[r] = "answered" /\ todo[r] = <<>>
    BY <1>0, <1>8 DEF Close
  <2>2. Accounted(r)' /\ Compared(r)'
    BY <2>1 DEF ReadInv, Accounted, Compared, settled, Underway, Auditing, Calling
  <2>3. \A x \in Requests \ {r} : UNCHANGED audited(x)
    BY <1>0, <1>8 DEF audited, Close
  <2>4. QED
    BY <1>1, <2>2, <2>3
<1>9. ASSUME NEW r \in Requests, UNCHANGED askVars,
             Hit(r) \/ Remember(r), \E v \in Stamps : returns(r, v)
      PROVE  ReadInv'
  <2>1. PICK v \in Stamps : returns(r, v)
    BY <1>9
  <2>2. pc[r] \in Calling
    BY <1>9 DEF Hit, Remember, Calling
  <2>3. Accounted(r)' /\ Compared(r)'
    BY <1>9, <2>1, <2>2, ReturnsRead DEF ReadInv
  <2>4. \A x \in Requests \ {r} : UNCHANGED audited(x)
    BY <1>0, <1>9, <2>1 DEF audited, returns
  <2>5. QED
    BY <1>1, <2>3, <2>4
<1>10. ASSUME NEW r \in Requests, Remember(r), UNCHANGED askVars
      PROVE  ReadInv'
  <2>1. con[r] \in Stamps
    BY <1>10 DEF Remember, OrderInv, TypeOK, Prepared
  <2>2. QED
    BY <1>9, <1>10, <2>1 DEF Remember
<1>11. ASSUME NEW r \in Requests, UNCHANGED askVars,
              \/ Lookup(r) \/ Open(r) \/ Fetch(r) \/ PickVictim(r)
              \/ PopVictim(r) \/ (Hit(r) /\ UNCHANGED <<figures, left>>)
       PROVE  ReadInv'
  <2>1. UNCHANGED <<plan, todo, left, findings, figures>>
    BY <1>11 DEF Lookup, Open, Fetch, PickVictim, PopVictim
  <2>2. pc[r] \in Calling \cup {"scalar"}
    BY <1>11 DEF Lookup, Open, Fetch, PickVictim, PopVictim, Hit, Calling
  <2>3. pc'[r] \in Calling \cup {"scalar", "raised"}
    BY <1>0, <1>11 DEF Lookup, Open, Fetch, PickVictim, PopVictim, Hit, returns,
       Calling
  <2>4. Accounted(r)' /\ Compared(r)'
    BY <2>1, <2>2, <2>3, StaysCalling DEF ReadInv
  <2>5. \A x \in Requests \ {r} : UNCHANGED audited(x)
    BY <1>0, <1>11, <2>1 DEF audited, Lookup, Open, Fetch, PickVictim, PopVictim,
       Hit, returns
  <2>6. QED
    BY <1>1, <2>4, <2>5
<1>12. ASSUME NEW r \in Requests, Hit(r), UNCHANGED askVars
       PROVE  ReadInv'
  <2> DEFINE v == store[ref[r]][sql(r)]
  <2>1. ref[r] \in Requests /\ sql(r) \in Sqls
    BY <1>12, RefType, SqlType DEF Hit, OrderInv, Prepared, Calling,
       BeforeStore, BeforeKey
  <2>2. v \in Stamps \cup {Absent}
    BY <2>1 DEF OrderInv, TypeOK
  <2>3. (v # Absent /\ returns(r, v)) \/ UNCHANGED <<figures, left>>
    BY <1>12 DEF Hit
  <2> HIDE DEF v
  <2>4. QED
    BY <1>9, <1>11, <1>12, <2>2, <2>3
<1>13. ASSUME UNCHANGED <<pc, plan, todo, left, findings, figures>>
       PROVE  ReadInv'
  <2>1. \A x \in Requests : UNCHANGED audited(x)
    BY <1>13 DEF audited
  <2>2. QED
    BY <2>1, OthersRead DEF ReadInv
<1> HIDE DEF goto, warehouseVars, baselinesVars, askVars
<1>14. ASSUME NEW r \in Requests, RequestStep(r)
       PROVE  ReadInv'
  <2>1. CASE Scalar(r) /\ UNCHANGED askVars
    BY <2>1, <1>10, <1>11, <1>12 DEF Scalar
  <2>2. CASE Audit(r)
    BY <2>2, <1>3, <1>4, <1>5, <1>6, <1>7, <1>8 DEF Audit
  <2>3. QED
    BY <1>2, <1>14, <2>1, <2>2 DEF RequestStep
<1>15. CASE Rebuild \/ Forget \/ Finished \/ UNCHANGED vars
  <2>1. UNCHANGED <<pc, plan, todo, left, findings, figures>>
    BY <1>15 DEF Rebuild, Forget, ForgetAll, Finished, vars, askVars, baselinesVars
  <2>2. QED
    BY <1>13, <2>1
<1>16. QED
  BY <1>14, <1>15 DEF Next

\* executor.py, AuditExecutor.run: at every moment the findings and the checks
\* still to run are the plan's selection, in its order, and what is found OK
\* has had every figure that it compares.
THEOREM ReadHolds == Spec => []ReadInv
<1>1. OrderInv /\ ReadInv /\ [Next]_vars => ReadInv'
  BY ReadStep
<1>2. QED
  BY <1>1, ReadInit, OrderHolds, PTL DEF Spec

\* executor.py, "a broken check must not pass silently": for any number of
\* threads and rebuilds, a verified answer has one finding for every check
\* that its plan selects, in order, each with all its figures read.
THEOREM VerifiedWasRead == Spec => []VerifiedMeansRead
<1>1. OrderInv /\ ReadInv => VerifiedMeansRead
  <2> SUFFICES ASSUME OrderInv, ReadInv, NEW r \in Requests, pc[r] = "answered",
                      verdict(r) = VERIFIED
               PROVE  /\ [i \in DOMAIN findings[r] |-> findings[r][i].check]
                           = selected(plan[r])
                      /\ \A i \in DOMAIN findings[r] : settled(findings[r][i].check, r)
    BY DEF VerifiedMeansRead
  <2> DEFINE F == [check : Checks, status : {OK, WARN}]
             sel == selected(plan[r])
  <2>1. findings[r] \in Seq(F)
    BY DEF OrderInv, TypeOK
  <2>2. DOMAIN findings[r] = 1..Len(findings[r])
    BY <2>1
  <2>3. \A i \in DOMAIN findings[r] : findings[r][i].status = OK
    <3>1. \A i \in DOMAIN findings[r] : findings[r][i].status # WARN
      BY DEF verdict, VERIFIED, QUALIFIED, UNVERIFIED
    <3>2. \A i \in DOMAIN findings[r] : findings[r][i] \in F
      <4> HIDE DEF F
      <4>1. QED
        BY <2>1
    <3>3. QED
      BY <3>1, <3>2
  <2>4. plan[r] \in Plans
    BY ConstantsOK DEF OrderInv, Prepared
  <2>5. /\ Len(sel) = Len(findings[r])
        /\ \A i \in 1..Len(findings[r]) : findings[r][i].check = sel[i]
    <3>1. todo[r] = <<>> /\ partsOf(sel, findings[r], todo[r])
      BY DEF ReadInv, Accounted
    <3>2. sel \in Seq(Checks)
      BY <2>4, SelectedType
    <3> HIDE DEF sel, F
    <3>3. QED
      BY <2>1, <3>1, <3>2, SplitEnds
  <2>6. sel = [i \in 1..Len(sel) |-> sel[i]]
    BY <2>4, SelectedType
  <2> HIDE DEF sel
  <2>7. [i \in DOMAIN findings[r] |-> findings[r][i].check] = sel
    BY <2>2, <2>5, <2>6
  <2>8. QED
    BY <2>3, <2>7 DEF sel, ReadInv, Compared
<1>2. QED
  BY <1>1, ReadHolds, OrderHolds, PTL
---------------------------------------------------------------------------
(* What is older than the rows was found without a file.                   *)

\* No file has been seen before the first fingerprint.
LEMMA RowsInit == Init => RowsBeforeKey
BY ConstantsOK DEF Init, BaselinesInit, RowsBeforeKey, NotTaken, Stamps

\* A fingerprint is taken of the newest file, which the rows cannot be newer
\* than; the rows are there by then.
LEMMA RowsStep ==
    ASSUME IInv, RowsBeforeKey, [Next]_vars
    PROVE  RowsBeforeKey'
<1> USE ConstantsOK DEF goto, warehouseVars, baselinesVars, askVars
<1>0. OrderInv /\ FreshInv
  BY DEF IInv
<1>1. /\ key \in [Requests -> Keys \cup {NotTaken}]
      /\ frame \in [Requests -> Stamps \cup {NoFrame}]
      /\ stamp \in Stamps
  BY <1>0 DEF OrderInv, TypeOK, WarehouseTypeOK
<1>2. ASSUME NEW r \in Requests, TakeFingerprint(r), UNCHANGED frame
      PROVE  RowsBeforeKey'
  <2>1. key' = [key EXCEPT ![r] = fingerprint]
    BY <1>2 DEF TakeFingerprint
  <2>2. fingerprint \in Stamps => frame[r] <= fingerprint
    BY <1>0, <1>1 DEF fingerprint, FreshInv, NothingFromTheFuture, MissingKey, Stamps
  <2>3. QED
    BY <1>1, <1>2, <2>1, <2>2 DEF RowsBeforeKey
<1>3. ASSUME NEW r \in Requests, Query(r)
      PROVE  RowsBeforeKey'
  <2>1. key[r] = NotTaken /\ key' = key
    BY <1>0, <1>3 DEF Query, OrderInv, InOrder, BeforeKey
  <2>2. \A x \in Requests \ {r} : frame'[x] = frame[x]
    BY <1>1, <1>3 DEF Query
  <2>3. NotTaken \notin Stamps
    BY DEF NotTaken, Stamps
  <2>4. QED
    BY <2>1, <2>2, <2>3 DEF RowsBeforeKey
<1>4. ASSUME UNCHANGED <<key, frame>>
      PROVE  RowsBeforeKey'
  BY <1>4 DEF RowsBeforeKey
<1>5. ASSUME NEW r \in Requests, RequestStep(r)
      PROVE  RowsBeforeKey'
  <2>1. CASE Construct(r) /\ UNCHANGED askVars
    BY <1>2, <1>4, <2>1 DEF Construct, SetDefault, CheckLen, Iterate, ListStale,
       DeleteStale
  <2>2. CASE Ask(r) \/ Connect(r)
    BY <1>4, <2>2 DEF Ask, Connect
  <2>3. CASE Audit(r)
    BY <1>4, <2>3 DEF Audit, PlanAudit, StartCheck, FigureIsNone, ConcludeCheck,
       CatchCheck, Close
  <2>4. CASE Scalar(r) /\ UNCHANGED askVars
    BY <1>4, <2>4 DEF Scalar, Lookup, Hit, Open, Fetch, PickVictim, PopVictim,
       Remember
  <2>5. QED
    BY <1>3, <1>5, <2>1, <2>2, <2>3, <2>4 DEF RequestStep
<1>6. CASE Rebuild \/ Forget \/ Finished \/ UNCHANGED vars
  BY <1>4, <1>6 DEF Rebuild, Forget, ForgetAll, Finished, vars
<1>7. QED
  BY <1>5, <1>6 DEF Next

\* memory.py, "instead of serving a stale total": however often the warehouse
\* is rebuilt, an audit that found a file is handed no figure older than its
\* rows, but for one read by an audit with its fingerprint from a superseded
\* file that it joined.
THEOREM OnlyAMissingFileIsStale == NotedSpec => []OlderOnlyWithoutAFile
<1>1. IInv /\ RowsBeforeKey /\ [NotedNext]_allVars => RowsBeforeKey'
  BY RowsStep, NotedIsNext
<1>2. IInv /\ RowsBeforeKey => OlderOnlyWithoutAFile
  <2> SUFFICES ASSUME IInv, RowsBeforeKey, NEW r \in Requests,
                      key[r] # MissingKey, NEW f \in figures[r],
                      <<key[r], f[2]>> \notin joined
               PROVE  f[2] >= frame[r]
    BY DEF OlderOnlyWithoutAFile, origins
  <2>1. OrderInv /\ FreshInv
    BY DEF IInv
  <2>2. key[r] # NotTaken
    BY <2>1 DEF OrderInv, InOrder
  <2>3. key[r] \in Stamps
    BY <2>1, <2>2 DEF OrderInv, TypeOK, Keys
  <2>4. frame[r] <= key[r] /\ f[2] >= key[r]
    BY <2>1, <2>3 DEF RowsBeforeKey, FreshInv, FiguresAtLeastKey
  <2>5. frame[r] \in Int /\ key[r] \in Int /\ f[2] \in Int
    BY <2>1, <2>3, ConstantsOK DEF OrderInv, TypeOK, Stamps, NoFrame
  <2>6. QED
    BY <2>4, <2>5
<1>3. QED
  BY <1>1, <1>2, RowsInit, IInvHolds, PTL DEF NotedSpec

---------------------------------------------------------------------------
(* Audits that do not overlap.                                             *)

\* SerialSpec is Spec without some of its steps.
LEMMA SerialIsNext == SerialNext => Next
BY DEF SerialNext, Next

\* ... so whatever Spec keeps in order it keeps in order too.
LEMMA SerialOrder == SerialSpec => []OrderInv
<1>1. OrderInv /\ [SerialNext]_vars => OrderInv'
  BY OrderStep, SerialIsNext
<1>2. QED
  BY <1>1, OrderInit, PTL DEF SerialSpec

\* Nobody audits and nothing is remembered at first.
LEMMA SerialInit == Init => SerialInv
<1> SUFFICES ASSUME Init PROVE SerialInv
  OBVIOUS
<1>1. \A r \in Requests : pc[r] = "idle" /\ Remembered(r) = {}
  BY DEF Init, BaselinesInit, Remembered
<1>2. Cardinality({}) = 0 /\ MAX_ENTRIES \in Nat
  BY FS_EmptySet, SizesOK
<1>3. StoreWithinBound
  BY <1>1, <1>2 DEF StoreWithinBound
<1>4. Serial /\ InvalidationNeverFails /\ \A r \in Requests : Current(r)
  BY <1>1 DEF Serial, InvalidationNeverFails, Current, InAudit, Constructing, Auditing
<1>5. QED
  BY <1>3, <1>4 DEF SerialInv

\* Where an audit relies on a shared dictionary.
Relying == {"list", "delete", "miss", "evict", "pop", "remember"}

\* Nothing is asked of a thread that relies on nothing.
LEMMA RestsOnNothing ==
    ASSUME NEW x \in Requests, pc[x] \notin Relying
    PROVE  Current(x)
BY DEF Current, Relying

\* An audit may do to the dictionaries what it likes as long as what it has
\* learnt itself stays true: nobody else is relying on them.
LEMMA OneAuditMoves ==
    ASSUME SerialInv, Serial', NEW r \in Requests, pc[r] \in InAudit,
           \A x \in Requests \ {r} : pc'[x] = pc[x],
           pc'[r] # "halted at reconciler", StoreWithinBound', Current(r)'
    PROVE  SerialInv'
<1>1. \A x \in Requests \ {r} : pc'[x] \notin InAudit
  BY DEF SerialInv, Serial
<1>2. \A x \in Requests \ {r} : pc'[x] \notin Relying
  BY <1>1 DEF InAudit, Constructing, Auditing, Relying
<1>3. \A x \in Requests \ {r} : Current(x)'
  BY <1>2, RestsOnNothing DEF Current, Relying
<1>4. InvalidationNeverFails'
  BY DEF SerialInv, InvalidationNeverFails
<1>5. QED
  BY <1>3, <1>4 DEF SerialInv

\* The rest of a request leaves the dictionaries alone.
LEMMA NoDictionaryTouched ==
    ASSUME SerialInv, Serial', UNCHANGED <<cache, store, ref, left, listed>>,
           \A x \in Requests :
              pc'[x] = pc[x] \/ pc'[x] \notin Relying \cup {"halted at reconciler"}
    PROVE  SerialInv'
<1>1. UNCHANGED Cached
  BY DEF Cached
<1>2. ASSUME NEW d \in Requests PROVE UNCHANGED Remembered(d)
  BY DEF Remembered
<1>3. StoreWithinBound'
  BY <1>2 DEF SerialInv, StoreWithinBound
<1>4. InvalidationNeverFails'
  BY DEF SerialInv, InvalidationNeverFails
<1>5. ASSUME NEW x \in Requests PROVE Current(x)'
  <2>1. CASE pc'[x] \notin Relying
    BY <2>1 DEF Current, Relying
  <2>2. CASE pc'[x] = pc[x]
    BY <1>1, <2>2 DEF SerialInv, Current, sql, Remembered
  <2>3. QED
    BY <2>1, <2>2
<1>6. QED
  BY <1>3, <1>4, <1>5 DEF SerialInv

\* One step per operation of an audit, and two for everything else.
LEMMA SerialStep ==
    ASSUME OrderInv, SerialInv, [SerialNext]_vars
    PROVE  SerialInv'
<1> USE DEF goto, warehouseVars, baselinesVars, askVars
<1>0. /\ pc \in [Requests -> Labels]
      /\ cache \in [Keys -> Requests \cup {NoStore}]
      /\ listed \in [Requests -> SUBSET Keys]
      /\ ref \in [Requests -> Requests \cup {NoStore}]
      /\ left \in [Requests -> Seq(Sqls)]
      /\ store \in [Requests -> [Sqls -> Stamps \cup {Absent}]]
      /\ con \in [Requests -> Stamps \cup {Closed}]
      /\ victim \in [Requests -> Sqls \cup {NoVictim}]
  BY DEF OrderInv, TypeOK
\* An operation that leaves the inner dictionaries alone.
<1>1. ASSUME NEW r \in Requests, Serial', pc[r] \in InAudit,
             \A x \in Requests \ {r} : pc'[x] = pc[x],
             pc'[r] # "halted at reconciler", UNCHANGED store, Current(r)'
      PROVE  SerialInv'
  <2>1. ASSUME NEW d \in Requests PROVE UNCHANGED Remembered(d)
    BY <1>1 DEF Remembered
  <2>2. StoreWithinBound'
    BY <2>1 DEF SerialInv, StoreWithinBound
  <2>3. QED
    BY <1>1, <2>2, OneAuditMoves
<1>2. ASSUME NEW r \in Requests, Serial', Construct(r)
      PROVE  SerialInv'
  <2>1. CASE TakeFingerprint(r)
    <3>1. /\ UNCHANGED <<cache, store, ref, left, listed>>
          /\ pc' = [pc EXCEPT ![r] = "setdefault"]
      BY <2>1 DEF TakeFingerprint
    <3>2. "setdefault" \notin Relying \cup {"halted at reconciler"}
      BY DEF Relying
    <3>3. QED
      BY <1>0, <1>2, <3>1, <3>2, NoDictionaryTouched
  <2>2. CASE SetDefault(r) \/ CheckLen(r)
    <3>1. /\ pc[r] \in InAudit /\ UNCHANGED store
          /\ \A x \in Requests \ {r} : pc'[x] = pc[x]
          /\ pc'[r] \in {"check_len", "iterate", "audit"}
      BY <1>0, <2>2 DEF SetDefault, CheckLen, InAudit, Constructing
    <3>2. pc'[r] \notin Relying /\ pc'[r] # "halted at reconciler"
      BY <3>1 DEF Relying
    <3>3. Current(r)'
      BY <3>2 DEF Current, Relying
    <3>4. QED
      BY <1>1, <1>2, <3>1, <3>2, <3>3
  <2>3. CASE Iterate(r)
    <3>1. /\ pc[r] \in InAudit /\ UNCHANGED store
          /\ \A x \in Requests \ {r} : pc'[x] = pc[x]
          /\ pc'[r] = "list" /\ listed'[r] = Cached /\ Cached' = Cached
      BY <1>0, <2>3 DEF Iterate, InAudit, Constructing, Cached
    <3>2. Current(r)'
      BY <3>1 DEF Current
    <3>3. QED
      BY <1>1, <1>2, <3>1, <3>2
  <2>4. CASE ListStale(r)
    <3>1. listed[r] = Cached
      BY <2>4 DEF ListStale, SerialInv, Current
    <3>2. PICK seen \in SUBSET (listed[r] \cup Cached) :
             /\ listed' = [listed EXCEPT ![r] = seen \ {key[r]}]
             /\ goto(r, IF seen \subseteq {key[r]} THEN "audit" ELSE "delete")
      BY <2>4, <3>1 DEF ListStale
    <3>3. /\ pc[r] \in InAudit /\ UNCHANGED store
          /\ \A x \in Requests \ {r} : pc'[x] = pc[x]
          /\ pc'[r] \in {"audit", "delete"}
          /\ listed'[r] \subseteq Cached /\ Cached' = Cached
      BY <1>0, <2>4, <3>1, <3>2 DEF ListStale, InAudit, Constructing, Cached
    <3>4. Current(r)'
      BY <3>3 DEF Current
    <3>5. QED
      BY <1>1, <1>2, <3>3, <3>4
  <2>5. CASE DeleteStale(r)
    <3>1. listed[r] \subseteq Cached
      BY <2>5 DEF DeleteStale, SerialInv, Current
    <3>2. PICK stale \in listed[r] :
             /\ cache' = [cache EXCEPT ![stale] = NoStore]
             /\ listed' = [listed EXCEPT ![r] = @ \ {stale}]
             /\ goto(r, IF listed[r] = {stale} THEN "audit" ELSE "delete")
      BY <2>5, <3>1 DEF DeleteStale, Cached
    <3>3. /\ pc[r] \in InAudit /\ UNCHANGED store
          /\ \A x \in Requests \ {r} : pc'[x] = pc[x]
          /\ pc'[r] \in {"audit", "delete"}
      BY <1>0, <2>5, <3>2 DEF DeleteStale, InAudit, Constructing
    <3>4. listed'[r] \subseteq Cached'
      BY <1>0, <3>1, <3>2 DEF Cached
    <3>5. Current(r)'
      BY <3>3, <3>4 DEF Current
    <3>6. QED
      BY <1>1, <1>2, <3>3, <3>5
  <2>6. QED
    BY <1>2, <2>1, <2>2, <2>3, <2>4, <2>5 DEF Construct
<1>3. ASSUME NEW r \in Requests, Serial', Scalar(r)
      PROVE  SerialInv'
  <2>1. /\ pc[r] \in InAudit /\ pc[r] \notin BeforeStore
        /\ \A x \in Requests \ {r} : pc'[x] = pc[x]
        /\ pc'[r] # "halted at reconciler"
    BY <1>0, <1>3 DEF Scalar, Lookup, Hit, Open, Fetch, PickVictim, PopVictim,
       Remember, returns, InAudit, Auditing, BeforeStore, BeforeKey
  <2>2. ref[r] \in Requests
    BY <2>1, RefType
  <2>3. left[r] # <<>>
    BY <1>3 DEF Scalar, Lookup, Hit, Open, Fetch, PickVictim, PopVictim, Remember,
       OrderInv, Prepared, Calling
  <2>4. sql(r) \in Sqls
    BY <2>3, SqlType
  <2>5. CASE Lookup(r)
    <3>1. /\ UNCHANGED <<store, ref, left>> /\ pc'[r] \in {"hit", "miss"}
          /\ pc'[r] = "miss" => store[ref[r]][sql(r)] = Absent
      BY <1>0, <2>5 DEF Lookup
    <3>2. Current(r)'
      BY <3>1 DEF Current, sql
    <3>3. QED
      BY <1>1, <1>3, <2>1, <3>1, <3>2
  <2>6. CASE Hit(r)
    <3>1. UNCHANGED store /\ pc'[r] \in {"scalar", "raised"}
      BY <1>0, <2>6 DEF Hit, returns
    <3>2. Current(r)'
      BY <3>1 DEF Current
    <3>3. QED
      BY <1>1, <1>3, <2>1, <3>1, <3>2
  <2>7. CASE Open(r) \/ PickVictim(r)
    <3>1. /\ UNCHANGED <<store, ref, left>>
          /\ pc[r] \in {"miss", "evict"} /\ pc'[r] \in {"miss", "pop", "raised"}
      BY <1>0, <2>7 DEF Open, PickVictim
    <3>2. store[ref[r]][sql(r)] = Absent
      BY <3>1 DEF SerialInv, Current
    <3>3. Current(r)'
      BY <3>1, <3>2 DEF Current, sql
    <3>4. QED
      BY <1>1, <1>3, <2>1, <3>1, <3>3
  <2>8. CASE Fetch(r)
    <3>1. /\ UNCHANGED <<store, ref, left>>
          /\ pc[r] = "miss" /\ pc'[r] \in {"evict", "remember", "raised"}
          /\ pc'[r] = "remember" =>
               ~(Cardinality(Remembered(ref[r])) >= MAX_ENTRIES)
      BY <1>0, <2>8 DEF Fetch
    <3>2. store[ref[r]][sql(r)] = Absent
      BY <3>1 DEF SerialInv, Current
    <3>3. Remembered(ref[r])' = Remembered(ref[r])
      BY <3>1 DEF Remembered
    <3>4. pc'[r] = "remember" => Cardinality(Remembered(ref[r])') < MAX_ENTRIES
      BY <2>2, <3>1, <3>3, SizesOK, RememberedFinite
    <3>5. Current(r)'
      BY <3>1, <3>2, <3>4 DEF Current, sql
    <3>6. QED
      BY <1>1, <1>3, <2>1, <3>1, <3>5
  <2>9. CASE PopVictim(r)
    <3>1. /\ UNCHANGED <<ref, left>> /\ pc[r] = "pop" /\ victim[r] \in Sqls
      BY <2>9 DEF PopVictim, OrderInv, Prepared
    <3>2. CASE store[ref[r]][victim[r]] = Absent
      <4>1. UNCHANGED store /\ pc'[r] = "raised"
        BY <1>0, <2>9, <3>2 DEF PopVictim
      <4>2. Current(r)'
        BY <4>1 DEF Current
      <4>3. QED
        BY <1>1, <1>3, <2>1, <4>1, <4>2
    <3>3. CASE store[ref[r]][victim[r]] # Absent
      <4>0. PICK d \in Requests : d = ref[r]
        BY <2>2
      <4>1. /\ store' = [store EXCEPT ![d][victim[r]] = Absent]
            /\ pc'[r] = "remember" /\ ref'[r] = d
        BY <1>0, <2>9, <3>1, <3>3, <4>0 DEF PopVictim
      <4>2. Remembered(d)' = Remembered(d) \ {victim[r]}
        BY <1>0, <3>1, <4>1 DEF Remembered
      <4>3. ASSUME NEW x \in Requests \ {d}
            PROVE  Remembered(x)' = Remembered(x)
        BY <1>0, <4>1 DEF Remembered
      <4>4. victim[r] \in Remembered(d)
        BY <3>1, <3>3, <4>0 DEF Remembered
      <4>5. Cardinality(Remembered(d)') = Cardinality(Remembered(d)) - 1
        BY <4>2, <4>4, RememberedFinite, FS_RemoveElement
      <4>6. Cardinality(Remembered(d)) <= MAX_ENTRIES
        BY DEF SerialInv, StoreWithinBound
      <4>7. Cardinality(Remembered(d)') < MAX_ENTRIES
        BY <4>5, <4>6, SizesOK, RememberedFinite
      <4>8. StoreWithinBound'
        <5> SUFFICES ASSUME NEW x \in Requests
                     PROVE  Cardinality(Remembered(x)') <= MAX_ENTRIES
          BY DEF StoreWithinBound
        <5>1. CASE x = d
          <6>1. Cardinality(Remembered(d)') \in Int
            BY <4>5, RememberedFinite
          <6>2. QED
            BY <4>7, <5>1, <6>1, SizesOK
        <5>2. CASE x # d
          BY <4>3, <5>2 DEF SerialInv, StoreWithinBound
        <5>3. QED
          BY <5>1, <5>2
      <4>9. store'[d][sql(r)] = Absent
        <5>1. store[d][sql(r)] = Absent
          BY <3>1, <4>0 DEF SerialInv, Current
        <5>2. QED
          BY <1>0, <2>4, <3>1, <4>1, <5>1
      <4>10. Current(r)'
        BY <3>1, <4>1, <4>7, <4>9 DEF Current, sql
      <4>11. QED
        BY <1>3, <2>1, <4>8, <4>10, OneAuditMoves
    <3>4. QED
      BY <3>2, <3>3
  <2>10. CASE Remember(r)
    <3>0. PICK d \in Requests : d = ref[r]
      BY <2>2
    <3>1. /\ store' = [store EXCEPT ![d][sql(r)] = con[r]]
          /\ pc[r] = "remember" /\ pc'[r] = "scalar"
      BY <1>0, <2>10, <3>0 DEF Remember, returns
    <3>2. Remembered(d)' \subseteq Remembered(d) \cup {sql(r)}
      <4>1. \A q \in Sqls \ {sql(r)} : store'[d][q] = store[d][q]
        BY <1>0, <3>1
      <4>2. QED
        BY <4>1 DEF Remembered
    <3>3. ASSUME NEW x \in Requests \ {d}
          PROVE  Remembered(x)' = Remembered(x)
      BY <1>0, <3>1 DEF Remembered
    <3>4. Cardinality(Remembered(d)) < MAX_ENTRIES
      BY <3>0, <3>1 DEF SerialInv, Current
    <3>5. Cardinality(Remembered(d)') <= MAX_ENTRIES
      <4> DEFINE S == Remembered(d)
                 T == S \cup {sql(r)}
      <4>1. IsFiniteSet(S) /\ Cardinality(S) \in Nat
        BY RememberedFinite
      <4>2. IsFiniteSet(T) /\ Cardinality(T) <= Cardinality(S) + 1
        <5> HIDE DEF S
        <5>1. Cardinality(T) = IF sql(r) \in S THEN Cardinality(S)
                               ELSE Cardinality(S) + 1
          BY <4>1, FS_AddElement
        <5>2. QED
          BY <4>1, <5>1, FS_AddElement
      <4>3. Cardinality(S') <= Cardinality(T) /\ IsFiniteSet(S')
        BY <3>2, <4>2, FS_Subset
      <4>4. Cardinality(S') \in Nat /\ Cardinality(T) \in Nat
        BY <4>2, <4>3, FS_CardinalityType
      <4>5. QED
        BY <3>4, <4>1, <4>2, <4>3, <4>4, SizesOK
    <3>6. StoreWithinBound'
      <4> SUFFICES ASSUME NEW x \in Requests
                   PROVE  Cardinality(Remembered(x)') <= MAX_ENTRIES
        BY DEF StoreWithinBound
      <4>1. CASE x # d
        BY <3>3, <4>1 DEF SerialInv, StoreWithinBound
      <4>2. QED
        BY <3>5, <4>1
    <3>7. Current(r)'
      BY <3>1 DEF Current
    <3>8. QED
      BY <1>3, <2>1, <3>6, <3>7, OneAuditMoves
  <2>11. QED
    BY <1>3, <2>5, <2>6, <2>7, <2>8, <2>9, <2>10 DEF Scalar
<1>4. ASSUME NEW r \in Requests, Serial', Audit(r)
      PROVE  SerialInv'
  <2>1. /\ pc[r] \in InAudit /\ UNCHANGED store
        /\ \A x \in Requests \ {r} : pc'[x] = pc[x]
        /\ pc'[r] \in {"next check", "scalar", "raised", "answered"}
    BY <1>0, <1>4 DEF Audit, PlanAudit, StartCheck, FigureIsNone,
       ConcludeCheck, CatchCheck, Close, reports, InAudit, Auditing
  <2>2. Current(r)'
    BY <2>1 DEF Current
  <2>3. QED
    BY <1>1, <1>4, <2>1, <2>2
<1>5. ASSUME NEW r \in Requests, Serial', Ask(r) \/ Connect(r) \/ Query(r)
      PROVE  SerialInv'
  <2>1. /\ UNCHANGED <<cache, store, ref, left, listed>>
        /\ \A x \in Requests \ {r} : pc'[x] = pc[x]
        /\ pc'[r] \in {"unavailable", "execute", "query", "fingerprint",
                       "halted at executor"}
    BY <1>0, <1>5 DEF Ask, Connect, Query
  <2>2. pc'[r] \notin Relying \cup {"halted at reconciler"}
    BY <2>1 DEF Relying
  <2>3. QED
    BY <1>5, <2>1, <2>2, NoDictionaryTouched
<1>6. CASE Rebuild \/ Finished \/ UNCHANGED vars
  <2>1. UNCHANGED <<pc, cache, store, ref, left, listed>>
    BY <1>6 DEF Rebuild, Finished, vars
  <2>2. Serial'
    BY <2>1 DEF SerialInv, Serial
  <2>3. QED
    BY <2>1, <2>2, NoDictionaryTouched
<1>7. CASE Forget /\ \A r \in Requests : pc[r] \notin InAudit
  <2>1. UNCHANGED <<pc, store>>
    BY <1>7 DEF Forget, ForgetAll
  <2>2. ASSUME NEW x \in Requests PROVE Current(x)'
    BY <1>7, <2>1 DEF Current, InAudit, Constructing, Auditing
  <2>3. ASSUME NEW d \in Requests PROVE UNCHANGED Remembered(d)
    BY <2>1 DEF Remembered
  <2>4. Serial' /\ InvalidationNeverFails' /\ StoreWithinBound'
    BY <2>1, <2>3 DEF SerialInv, Serial, InvalidationNeverFails, StoreWithinBound
  <2>5. QED
    BY <2>2, <2>4 DEF SerialInv
<1>8. QED
  BY <1>2, <1>3, <1>4, <1>5, <1>6, <1>7 DEF SerialNext, RequestStep

\* memory.py, the class Baselines, where audits do not overlap: what one audit
\* has listed, looked up or counted is still so when it acts on it.
THEOREM SerialHolds == SerialSpec => []SerialInv
<1>1. OrderInv /\ SerialInv /\ [SerialNext]_vars => SerialInv'
  BY SerialStep
<1>2. QED
  BY <1>1, SerialInit, SerialOrder, PTL DEF SerialSpec

\* memory.py, "that is the invalidation": where audits do not overlap, it
\* never fails, whatever the builder does.
THEOREM SerialInvalidation == SerialSpec => []InvalidationNeverFails
<1>1. SerialInv => InvalidationNeverFails
  BY DEF SerialInv
<1>2. QED
  BY <1>1, SerialHolds, PTL

\* ... MAX_ENTRIES is a bound ...
THEOREM SerialStoreIsBounded == SerialSpec => []StoreWithinBound
<1>1. SerialInv => StoreWithinBound
  BY DEF SerialInv
<1>2. QED
  BY <1>1, SerialHolds, PTL

---------------------------------------------------------------------------
(* Where audits do not overlap nothing is computed twice.                  *)

\* Counting restrains nothing.
LEMMA CountedIsSerial == [CountedNext]_countedVars => [SerialNext]_vars
BY DEF CountedNext, SerialNext, countedVars

\* Whatever holds of every serial step holds of every counted one.
LEMMA CountedOrder == CountedSpec => [](OrderInv /\ SerialInv)
<1>1. OrderInv /\ SerialInv /\ [CountedNext]_countedVars => (OrderInv /\ SerialInv)'
  BY OrderStep, SerialStep, SerialIsNext, CountedIsSerial
<1>2. QED
  BY <1>1, OrderInit, SerialInit, PTL DEF CountedSpec

\* Nothing is cached or computed at first.
LEMMA OnceInit == Init /\ computed = Nothing => OnceInv
<1> SUFFICES ASSUME Init, computed = Nothing
             PROVE  OnceInv
  OBVIOUS
<1>1. Cached = {} /\ \A r \in Requests : pc[r] = "idle" /\ key[r] = NotTaken
  BY DEF Init, BaselinesInit, Cached
<1>2. stamp = 0
  BY DEF Init, WarehouseInit
<1>3. \A r \in Requests : Owns(r) /\ FindsRoom(r)
  BY <1>1 DEF Owns, FindsRoom, InAudit, Constructing, Auditing
<1>4. computed \in [Keys -> SUBSET Sqls] /\ \A k \in Stamps : Kept(k)
  BY DEF Nothing, Kept, Keys
<1>5. QED
  BY <1>1, <1>2, <1>3, <1>4 DEF OnceInv, NotTaken

\* Nothing is asked of a thread outside its audit.
LEMMA OwnsNothing ==
    ASSUME NEW x \in Requests, pc[x] \notin InAudit
    PROVE  Owns(x) /\ FindsRoom(x)
BY DEF Owns, FindsRoom, InAudit, Constructing, Auditing

\* A thread in its audit is the only one, so an operation of it keeps the
\* invariant if it keeps its own part, the dictionaries and what is kept.
LEMMA OneAuditOwns ==
    ASSUME OnceInv, SerialInv, NEW r \in Requests, pc[r] \in InAudit,
           \A x \in Requests \ {r} : pc'[x] = pc[x], UNCHANGED <<stamp, key>>,
           computed' \in [Keys -> SUBSET Sqls],
           \A k \in Cached' : k <= stamp /\ key[cache'[k]] = k,
           Owns(r)', FindsRoom(r)', \A k \in Stamps : Kept(k)'
    PROVE  OnceInv'
<1>1. \A x \in Requests \ {r} : pc'[x] \notin InAudit
  BY DEF SerialInv, Serial
<1>2. \A x \in Requests \ {r} : Owns(x)' /\ FindsRoom(x)'
  BY <1>1, OwnsNothing DEF Owns, FindsRoom, InAudit, Constructing, Auditing
<1>3. QED
  BY <1>2 DEF OnceInv

\* If what is at hand stays so, and who is retired stays retired, a step that
\* computes nothing leaves what was computed kept.
LEMMA KeptStays ==
    ASSUME OnceInv, NEW k \in Stamps, computed'[k] \subseteq computed[k],
           \A q \in Sqls : atHand(k, q) => atHand(k, q)',
           retired(k) => retired(k)'
    PROVE  Kept(k)'
<1>1. computed[k] \subseteq Sqls /\ Kept(k)
  BY DEF OnceInv, Keys
<1>2. QED
  BY <1>1 DEF Kept

\* Who is in its audit and carries nothing is the only one in its audit, so
\* nobody carries anything.
LEMMA NobodyCarries ==
    ASSUME SerialInv, NEW r \in Requests, pc[r] \in InAudit,
           NEW x \in Requests, pc[x] \in Carrying
    PROVE  x = r
BY DEF SerialInv, Serial, InAudit, Auditing, Carrying

\* What is at hand and not remembered is what the one audit carries.
LEMMA OneCarrier ==
    ASSUME SerialInv, NEW r \in Requests, pc[r] \in InAudit,
           NEW k, NEW q, atHand(k, q), q \notin Remembered(cache[k])
    PROVE  key[r] = k /\ sql(r) = q
<1>1. PICK x \in Requests : key[x] = k /\ pc[x] \in Carrying /\ sql(x) = q
  BY DEF atHand
<1>2. x = r
  BY <1>1, NobodyCarries
<1>3. QED
  BY <1>1, <1>2

\* The operations of an audit that leave the dictionaries alone and carry no
\* figure, before or after.
LEMMA NothingCarried ==
    ASSUME OnceInv, SerialInv, NEW r \in Requests, pc[r] \in InAudit \ Carrying,
           \A x \in Requests \ {r} : pc'[x] = pc[x], pc'[r] \notin Carrying,
           UNCHANGED <<stamp, present, cache, store, key, ref, computed>>,
           pc[r] = "setdefault" => pc'[r] = "setdefault",
           pc'[r] = "delete" => key[r] \notin listed'[r]
    PROVE  OnceInv'
<1>1. \A k \in Keys : superseded(k) => superseded(k)'
  BY DEF superseded
<1>2. UNCHANGED Cached
  BY DEF Cached
<1>3. Owns(r)' /\ FindsRoom(r)'
  <2>1. Owns(r)
    BY DEF OnceInv
  <2>2. Owns(r)'
    BY <1>1, <1>2, <2>1 DEF Owns, Cached
  <2>3. QED
    BY <2>2 DEF FindsRoom, Carrying
<1>4. ASSUME NEW k \in Stamps PROVE Kept(k)'
  <2>1. ASSUME NEW q \in Sqls, atHand(k, q) PROVE atHand(k, q)'
    <3>1. q \in Remembered(cache[k])
      BY <2>1, NobodyCarries DEF atHand
    <3>2. QED
      BY <2>1, <3>1 DEF atHand, Remembered
  <2>2. retired(k) => retired(k)'
    BY <1>1 DEF retired, Keys
  <2>3. QED
    BY <2>1, <2>2, KeptStays
<1>5. QED
  BY <1>2, <1>3, <1>4, OneAuditOwns DEF OnceInv

\* Before the audit nobody has a dictionary: taking the fingerprint of the
\* newest file asks for no version that is retired.
LEMMA FingerprintOwns ==
    ASSUME OrderInv, OnceInv, NEW r \in Requests, TakeFingerprint(r),
           UNCHANGED computed
    PROVE  OnceInv'
<1> USE DEF goto, warehouseVars, MissingKey, Stamps, Keys, NotTaken
<1>0. /\ pc \in [Requests -> Labels] /\ stamp \in Stamps
      /\ key \in [Requests -> Keys \cup {NotTaken}]
      /\ cache \in [Keys -> Requests \cup {NoStore}]
  BY DEF OrderInv, TypeOK, WarehouseTypeOK
<1>1. /\ pc[r] = "fingerprint" /\ pc' = [pc EXCEPT ![r] = "setdefault"]
      /\ key' = [key EXCEPT ![r] = fingerprint]
      /\ UNCHANGED <<present, stamp, cache, store, ref, listed, left, victim>>
  BY DEF TakeFingerprint
<1>2. key[r] = NotTaken
  BY <1>1 DEF OrderInv, InOrder, BeforeKey
<1>3. UNCHANGED Cached /\ \A d \in Requests : UNCHANGED Remembered(d)
  BY <1>1 DEF Cached, Remembered
<1>4. \A k \in Cached : k <= stamp /\ key'[cache[k]] = k
  <2>1. \A k \in Cached : cache[k] # r
    BY <1>2 DEF OnceInv, Cached
  <2>2. QED
    BY <1>0, <1>1, <2>1 DEF OnceInv, Cached
<1>5. \A x \in Requests : key'[x] <= stamp
  <2>1. fingerprint <= stamp
    BY <1>0, MaxStampAssumption DEF fingerprint
  <2>2. QED
    BY <1>0, <1>1, <2>1 DEF OnceInv
<1>6. \A k \in Stamps : superseded(k) => superseded(k)' /\ k # fingerprint
  BY <1>0, <1>1, MaxStampAssumption DEF superseded, fingerprint
<1>7. ASSUME NEW x \in Requests PROVE Owns(x)' /\ FindsRoom(x)'
  <2>1. CASE x # r
    <3>1. /\ pc'[x] = pc[x] /\ key'[x] = key[x] /\ ref'[x] = ref[x]
          /\ listed'[x] = listed[x] /\ victim'[x] = victim[x]
      BY <1>0, <1>1, <2>1
    <3>2. Owns(x) /\ FindsRoom(x)
      BY DEF OnceInv
    <3>3. Owns(x)'
      BY <1>1, <1>3, <1>6, <3>1, <3>2 DEF Owns
    <3>4. FindsRoom(x)'
      BY <1>1, <3>1, <3>2 DEF FindsRoom, Remembered
    <3>5. QED
      BY <3>3, <3>4
  <2>2. CASE x = r
    <3>1. pc'[r] = "setdefault" /\ key'[r] = fingerprint
      BY <1>0, <1>1
    <3>2. \A k \in Cached' \cap Stamps : k = key'[r] \/ superseded(k)'
      BY <1>0, <1>1, <1>3, <3>1, MaxStampAssumption DEF OnceInv, superseded, fingerprint
    <3>3. QED
      BY <2>2, <3>1, <3>2 DEF Owns, FindsRoom
  <2>3. QED
    BY <2>1, <2>2
<1>8. ASSUME NEW k \in Stamps PROVE Kept(k)'
  <2>1. ASSUME NEW q \in Sqls, atHand(k, q) PROVE atHand(k, q)'
    <3>1. CASE q \in Remembered(cache[k])
      BY <1>1, <2>1, <3>1 DEF atHand, Remembered
    <3>2. CASE \E x \in Requests : key[x] = k /\ pc[x] \in Carrying /\ sql(x) = q
      <4>1. PICK x \in Requests : key[x] = k /\ pc[x] \in Carrying /\ sql(x) = q
        BY <3>2
      <4>2. x # r
        BY <1>1, <4>1 DEF Carrying
      <4>3. key'[x] = k /\ pc'[x] \in Carrying /\ sql(x)' = q
        BY <1>0, <1>1, <4>1, <4>2 DEF sql
      <4>4. QED
        BY <1>1, <2>1, <4>3 DEF atHand
    <3>3. QED
      BY <2>1, <3>1, <3>2 DEF atHand
  <2>2. ASSUME retired(k) PROVE retired(k)'
    <3>1. superseded(k)' /\ k # fingerprint
      BY <1>6, <2>2 DEF retired
    <3>2. \A x \in Requests : pc'[x] \in InAudit => key'[x] # k
      BY <1>0, <1>1, <2>2, <3>1 DEF retired
    <3>3. QED
      BY <3>1, <3>2 DEF retired
  <2>3. QED
    BY <2>1, <2>2, KeptStays
<1>9. computed' \in [Keys -> SUBSET Sqls]
  BY DEF OnceInv
<1>10. \A k \in Cached' : k <= stamp' /\ key'[cache'[k]] = k
  BY <1>1, <1>3, <1>4
<1>11. QED
  BY <1>1, <1>5, <1>7, <1>8, <1>9, <1>10 DEF OnceInv

\* The dictionary an audit enters for its fingerprint is a new one only if
\* nothing has been computed for that version.
LEMMA SetDefaultOwns ==
    ASSUME OrderInv, SerialInv, OnceInv, NEW r \in Requests, SetDefault(r),
           UNCHANGED computed
    PROVE  OnceInv'
<1> USE DEF goto, warehouseVars
<1>0. /\ pc \in [Requests -> Labels]
      /\ cache \in [Keys -> Requests \cup {NoStore}]
      /\ key \in [Requests -> Keys \cup {NotTaken}]
      /\ ref \in [Requests -> Requests \cup {NoStore}]
      /\ NoStore \notin Requests
  BY ConstantsOK DEF OrderInv, TypeOK
<1>1. /\ pc[r] = "setdefault" /\ pc' = [pc EXCEPT ![r] = "check_len"]
      /\ UNCHANGED <<present, stamp, store, key, listed, left, victim>>
  BY DEF SetDefault
<1>2. key[r] \in Keys
  <2>1. key[r] # NotTaken
    BY <1>1 DEF OrderInv, InOrder, BeforeKey
  <2>2. QED
    BY <1>0, <2>1
<1>3. /\ cache'[key[r]] = ref'[r] /\ cache'[key[r]] # NoStore
      /\ cache[key[r]] # NoStore => cache' = cache
      /\ \A k \in Keys \ {key[r]} : cache'[k] = cache[k]
      /\ cache[key[r]] = NoStore => cache'[key[r]] = r
  BY <1>0, <1>2 DEF SetDefault
<1>4. pc[r] \in InAudit \ Carrying /\ pc'[r] = "check_len"
  BY <1>0, <1>1 DEF InAudit, Constructing, Carrying
<1>5. \A k \in Cached' : k <= stamp /\ key[cache'[k]] = k
  BY <1>2, <1>3 DEF OnceInv, Cached
<1>6. Owns(r)' /\ FindsRoom(r)'
  <2>1. Owns(r)
    BY DEF OnceInv
  <2>2. \A k \in Cached' \cap Stamps : k = key[r] \/ k \in Cached
    BY <1>3 DEF Cached
  <2>3. \A k \in Cached' \cap Stamps : k = key[r] \/ superseded(k)
    BY <1>4, <2>1, <2>2 DEF Owns
  <2>4. Owns(r)'
    BY <1>1, <1>3, <1>4, <2>3 DEF Owns, superseded
  <2>5. QED
    BY <1>4, <2>4 DEF FindsRoom
<1>7. ASSUME NEW k \in Stamps PROVE Kept(k)'
  <2>1. CASE cache[k] # NoStore
    <3>1. cache'[k] = cache[k]
      BY <1>3, <2>1 DEF Keys
    <3>2. ASSUME NEW q \in Sqls, atHand(k, q) PROVE atHand(k, q)'
      <4>1. q \in Remembered(cache[k])
        BY <1>4, <3>2, NobodyCarries DEF atHand
      <4>2. QED
        BY <1>1, <2>1, <3>1, <4>1 DEF atHand, Remembered
    <3>3. retired(k) => retired(k)'
      <4>1. \A x \in Requests : pc'[x] \in InAudit => pc[x] \in InAudit
        BY <1>0, <1>1, <1>4
      <4>2. QED
        BY <1>1, <4>1 DEF retired, superseded
    <3>4. QED
      BY <3>2, <3>3, KeptStays
  <2>2. CASE cache[k] = NoStore
    <3>1. \A q \in Sqls : ~atHand(k, q)
      BY <2>2 DEF atHand
    <3>2. retired(k) => retired(k)'
      <4>1. \A x \in Requests : pc'[x] \in InAudit => pc[x] \in InAudit
        BY <1>0, <1>1, <1>4
      <4>2. QED
        BY <1>1, <4>1 DEF retired, superseded
    <3>3. QED
      BY <3>1, <3>2, KeptStays
  <2>3. QED
    BY <2>1, <2>2
<1>8. \A x \in Requests \ {r} : pc'[x] = pc[x]
  BY <1>0, <1>1
<1>9. QED
  BY <1>1, <1>4, <1>5, <1>6, <1>7, <1>8, OneAuditOwns DEF OnceInv

\* An audit deletes superseded dictionaries only.
LEMMA DeleteOwns ==
    ASSUME OrderInv, SerialInv, SerialInv', OnceInv, NEW r \in Requests,
           DeleteStale(r), UNCHANGED computed
    PROVE  OnceInv'
<1> USE DEF goto, warehouseVars
<1>0. /\ pc \in [Requests -> Labels] /\ listed \in [Requests -> SUBSET Keys]
      /\ cache \in [Keys -> Requests \cup {NoStore}]
  BY DEF OrderInv, TypeOK
<1>1. pc[r] = "delete" /\ listed[r] \subseteq Cached /\ Owns(r)
  BY DEF DeleteStale, SerialInv, Current, OnceInv
<1>2. PICK stale \in listed[r] :
         /\ cache' = [cache EXCEPT ![stale] = NoStore]
         /\ listed' = [listed EXCEPT ![r] = @ \ {stale}]
         /\ goto(r, IF listed[r] = {stale} THEN "audit" ELSE "delete")
  BY <1>1 DEF DeleteStale, Cached
<1>3. /\ stale \in Keys /\ stale \in Cached /\ stale # key[r]
      /\ UNCHANGED <<present, stamp, store, key, ref, left, victim>>
  BY <1>0, <1>1 DEF DeleteStale, Owns
<1>4. /\ pc[r] \in InAudit \ Carrying /\ pc'[r] \in {"delete", "audit"}
      /\ \A x \in Requests \ {r} : pc'[x] = pc[x]
      /\ listed'[r] \subseteq listed[r]
      /\ \A k \in Keys \ {stale} : cache'[k] = cache[k]
      /\ Cached' \subseteq Cached \ {stale}
  BY <1>0, <1>1, <1>2 DEF InAudit, Constructing, Carrying, Cached
<1>5. \A k \in Cached' : k <= stamp /\ key[cache'[k]] = k
  BY <1>4 DEF OnceInv, Cached
<1>6. key[r] \in Keys
  <2>1. key \in [Requests -> Keys \cup {NotTaken}]
    BY DEF OrderInv, TypeOK
  <2>2. key[r] # NotTaken
    BY <1>1 DEF OrderInv, InOrder, BeforeKey
  <2>3. QED
    BY <2>1, <2>2
<1>7. Owns(r)' /\ FindsRoom(r)'
  BY <1>1, <1>3, <1>4, <1>6 DEF Owns, FindsRoom, superseded, InAudit, Constructing
<1>8. ASSUME NEW k \in Stamps PROVE Kept(k)'
  <2>1. CASE k = stale
    <3>1. superseded(k)'
      BY <1>1, <1>3, <1>4, <2>1 DEF Owns, superseded
    <3>2. \A x \in Requests : pc'[x] \in InAudit => x = r
      BY <1>4 DEF SerialInv, Serial
    <3>3. retired(k)'
      BY <1>3, <2>1, <3>1, <3>2 DEF retired
    <3>4. QED
      BY <3>3 DEF Kept
  <2>2. CASE k # stale
    <3>1. cache'[k] = cache[k]
      BY <1>4, <2>2 DEF Keys
    <3>2. ASSUME NEW q \in Sqls, atHand(k, q) PROVE atHand(k, q)'
      <4>1. q \in Remembered(cache[k]) /\ cache[k] # NoStore
        BY <1>4, <3>2, NobodyCarries DEF atHand
      <4>2. QED
        BY <1>3, <3>1, <4>1 DEF atHand, Remembered
    <3>3. retired(k) => retired(k)'
      <4>1. \A x \in Requests : pc'[x] \in InAudit => pc[x] \in InAudit
        BY <1>4
      <4>2. QED
        BY <1>3, <4>1 DEF retired, superseded
    <3>4. QED
      BY <3>2, <3>3, KeptStays
  <2>3. QED
    BY <2>1, <2>2
<1>9. QED
  BY <1>3, <1>4, <1>5, <1>7, <1>8, OneAuditOwns DEF OnceInv

\* Where a figure is carried: the dictionary is the one of the fingerprint.
LEMMA CarriersDictionary ==
    ASSUME OrderInv, OnceInv, NEW r \in Requests, pc[r] \in Carrying \cup {"miss"}
    PROVE  /\ pc[r] \in InAudit /\ key[r] \in Keys /\ ref[r] \in Requests
           /\ cache[key[r]] = ref[r] /\ cache[key[r]] # NoStore
           /\ key[ref[r]] = key[r] /\ ~retired(key[r])
           /\ sql(r) \in Sqls
<1>1. pc[r] \in InAudit \ {"setdefault"} /\ pc[r] \notin BeforeStore
  BY DEF InAudit, Auditing, Carrying, BeforeStore, BeforeKey
<1>2. key[r] \in Keys
  <2>1. key \in [Requests -> Keys \cup {NotTaken}]
    BY DEF OrderInv, TypeOK
  <2>2. key[r] # NotTaken
    BY <1>1 DEF OrderInv, InOrder, BeforeStore
  <2>3. QED
    BY <2>1, <2>2
<1>3. ref[r] \in Requests
  BY <1>1, RefType
<1>4. cache[key[r]] = ref[r]
  BY <1>1 DEF OnceInv, Owns
<1>5. ref[r] # NoStore
  BY <1>3, ConstantsOK
<1>6. key[ref[r]] = key[r]
  BY <1>2, <1>4, <1>5 DEF OnceInv, Cached
<1>7. sql(r) \in Sqls
  BY SqlType DEF OrderInv, Prepared, Calling, Carrying
<1>8. QED
  BY <1>1, <1>2, <1>3, <1>4, <1>5, <1>6, <1>7 DEF retired

\* What a step of the carrier has to show: the versions other than its own are
\* kept if their dictionaries are left alone.
LEMMA OthersKept ==
    ASSUME OrderInv, SerialInv, OnceInv, NEW r \in Requests,
           pc[r] \in Carrying \cup {"miss"},
           \A x \in Requests \ {r} : pc'[x] = pc[x],
           UNCHANGED <<stamp, present, cache, key>>,
           NEW k \in Stamps, k # key[r], computed'[k] = computed[k],
           \A d \in Requests \ {ref[r]} : Remembered(d) \subseteq Remembered(d)'
    PROVE  Kept(k)'
<1>1. pc[r] \in InAudit /\ key[ref[r]] = key[r]
  BY CarriersDictionary
<1>2. ASSUME NEW q \in Sqls, atHand(k, q) PROVE atHand(k, q)'
  <2>1. q \in Remembered(cache[k]) /\ cache[k] # NoStore
    BY <1>1, <1>2, NobodyCarries DEF atHand
  <2>2. cache[k] \in Requests
    BY <2>1 DEF OrderInv, TypeOK, Keys
  <2>3. cache[k] # ref[r]
    BY <1>1, <2>1 DEF OnceInv, Cached, Keys
  <2>4. q \in Remembered(cache[k])'
    <3>1. PICK d \in Requests \ {ref[r]} : d = cache[k]
      BY <2>2, <2>3
    <3>2. q \in Remembered(d)'
      BY <2>1, <3>1
    <3>3. d = cache'[k]
      BY <3>1
    <3>4. QED
      BY <3>2, <3>3 DEF Remembered
  <2>5. QED
    BY <2>1, <2>4 DEF atHand
<1>3. retired(k) => retired(k)'
  <2>1. \A x \in Requests : pc'[x] \in InAudit => x = r \/ pc[x] \in InAudit
    OBVIOUS
  <2>2. QED
    BY <2>1 DEF retired, superseded
<1>4. QED
  BY <1>2, <1>3, KeptStays

\* Running a query: its figure is on its way to the dictionary of its version.
LEMMA FetchOwns ==
    ASSUME OrderInv, SerialInv, OnceInv, NEW r \in Requests, Fetch(r), Count(r)
    PROVE  OnceInv'
<1> USE DEF goto, warehouseVars, baselinesVars
<1>1. /\ pc[r] = "miss" /\ pc'[r] \in {"evict", "remember", "raised"}
      /\ \A x \in Requests \ {r} : pc'[x] = pc[x]
      /\ UNCHANGED <<stamp, present, cache, store, key, ref, listed, left, victim>>
      /\ pc'[r] = "evict" => Cardinality(Remembered(ref[r])) >= MAX_ENTRIES
  <2>1. pc \in [Requests -> Labels]
    BY DEF OrderInv, TypeOK
  <2>2. QED
    BY <2>1 DEF Fetch
<1>2. /\ key[r] \in Keys /\ cache[key[r]] = ref[r] /\ cache[key[r]] # NoStore
      /\ ~retired(key[r]) /\ sql(r) \in Sqls /\ pc[r] \in InAudit \ Carrying
  BY <1>1, CarriersDictionary DEF Carrying
<1>3. CASE pc'[r] = "raised"
  <2>1. UNCHANGED computed
    BY <1>1, <1>3 DEF Count, Computes, Evicts
  <2>2. QED
    BY <1>1, <1>2, <1>3, <2>1, NothingCarried DEF Carrying
<1>4. CASE pc'[r] # "raised"
  <2>1. computed' = [computed EXCEPT ![key[r]] = @ \cup {sql(r)}]
    BY <1>1, <1>4 DEF Count, Computes
  <2>2. /\ computed' \in [Keys -> SUBSET Sqls]
        /\ computed'[key[r]] = computed[key[r]] \cup {sql(r)}
        /\ \A k \in Keys \ {key[r]} : computed'[k] = computed[k]
    BY <1>2, <2>1 DEF OnceInv
  <2>3. Owns(r)'
    <3>1. Owns(r)
      BY DEF OnceInv
    <3>2. QED
      BY <1>1, <1>2, <1>4, <3>1 DEF Owns, Cached, superseded, InAudit, Auditing
  <2>4. FindsRoom(r)'
    <3>1. CASE pc'[r] = "evict"
      <4>1. Remembered(ref[r]) # {}
        BY <1>1, <3>1, SizesOK, FS_EmptySet
      <4>2. QED
        BY <1>1, <3>1, <4>1 DEF FindsRoom, Remembered
    <3>2. CASE pc'[r] # "evict"
      BY <1>1, <1>4, <3>2 DEF FindsRoom
    <3>3. QED
      BY <3>1, <3>2
  <2>5. ASSUME NEW k \in Stamps PROVE Kept(k)'
    <3>1. CASE k = key[r]
      <4>1. ASSUME NEW q \in computed[k] PROVE atHand(k, q)'
        <5>1. atHand(k, q)
          BY <1>2, <3>1, <4>1 DEF OnceInv, Kept
        <5>2. q \in Remembered(cache[k])
          BY <1>2, <5>1, NobodyCarries DEF atHand
        <5>3. QED
          BY <1>1, <1>2, <3>1, <5>2 DEF atHand, Remembered
      <4>2. atHand(k, sql(r))'
        <5>1. key'[r] = k /\ pc'[r] \in Carrying /\ sql(r)' = sql(r)
          BY <1>1, <1>4, <3>1 DEF sql, Carrying
        <5>2. cache'[k] # NoStore
          BY <1>1, <1>2, <3>1
        <5>3. QED
          BY <5>1, <5>2 DEF atHand
      <4>3. sql(r)' = sql(r)
        BY <1>1 DEF sql
      <4>4. QED
        BY <2>2, <3>1, <4>1, <4>2, <4>3 DEF Kept
    <3>2. CASE k # key[r]
      <4>1. computed'[k] = computed[k]
        BY <2>2, <3>2 DEF Keys
      <4>2. \A d \in Requests \ {ref[r]} : Remembered(d) \subseteq Remembered(d)'
        BY <1>1 DEF Remembered
      <4>3. QED
        BY <1>1, <3>2, <4>1, <4>2, OthersKept
    <3>3. QED
      BY <3>1, <3>2
  <2>6. \A k \in Cached' : k <= stamp /\ key[cache'[k]] = k
    BY <1>1 DEF OnceInv, Cached
  <2>7. QED
    BY <1>1, <1>2, <2>2, <2>3, <2>4, <2>5, <2>6, OneAuditOwns
<1>5. QED
  BY <1>3, <1>4

\* Making room: there is something to evict, and nobody else in the way.
LEMMA PickOwns ==
    ASSUME OrderInv, SerialInv, OnceInv, NEW r \in Requests, PickVictim(r),
           Count(r)
    PROVE  OnceInv'
<1> USE DEF goto, warehouseVars
<1>1. pc[r] = "evict" /\ FindsRoom(r) /\ Owns(r)
  BY DEF PickVictim, OnceInv
<1>2. PICK q \in Remembered(ref[r]) :
         victim' = [victim EXCEPT ![r] = q] /\ goto(r, "pop")
  <2>1. \A other \in Requests \ {r} : pc[other] \notin Auditing
    BY <1>1 DEF SerialInv, Serial, InAudit, Auditing
  <2>2. QED
    BY <1>1, <2>1 DEF PickVictim, FindsRoom
<1>3. /\ pc'[r] = "pop" /\ victim'[r] = q
      /\ \A x \in Requests \ {r} : pc'[x] = pc[x]
      /\ UNCHANGED <<stamp, present, cache, store, key, ref, left, listed>>
  <2>1. pc \in [Requests -> Labels] /\ victim \in [Requests -> Sqls \cup {NoVictim}]
    BY DEF OrderInv, TypeOK
  <2>2. QED
    BY <1>2, <2>1 DEF PickVictim
<1>4. pc[r] \in InAudit /\ key[r] \in Keys /\ cache[key[r]] = ref[r]
      /\ cache[key[r]] # NoStore
  BY <1>1, CarriersDictionary DEF Carrying
<1>5. UNCHANGED computed
  BY <1>1, <1>3 DEF Count, Computes, Evicts
<1>6. Owns(r)' /\ FindsRoom(r)'
  BY <1>1, <1>2, <1>3, <1>4
     DEF Owns, FindsRoom, Cached, superseded, Remembered, InAudit, Auditing
<1>7. ASSUME NEW k \in Stamps PROVE Kept(k)'
  <2>1. ASSUME NEW f \in Sqls, atHand(k, f) PROVE atHand(k, f)'
    <3>1. CASE f \in Remembered(cache[k])
      BY <1>3, <2>1, <3>1 DEF atHand, Remembered
    <3>2. CASE f \notin Remembered(cache[k])
      <4>1. key[r] = k /\ sql(r) = f
        BY <1>4, <2>1, <3>2, OneCarrier DEF atHand
      <4>2. key'[r] = k /\ sql(r)' = f /\ pc'[r] \in Carrying
        BY <1>3, <4>1 DEF sql, Carrying
      <4>3. QED
        BY <1>3, <2>1, <4>2 DEF atHand
    <3>3. QED
      BY <3>1, <3>2
  <2>2. retired(k) => retired(k)'
    <3>1. \A x \in Requests : pc'[x] \in InAudit => x = r \/ pc[x] \in InAudit
      BY <1>3
    <3>2. QED
      BY <1>3, <1>4, <3>1 DEF retired, superseded
  <2>3. QED
    BY <1>5, <2>1, <2>2, KeptStays
<1>8. \A k \in Cached' : k <= stamp /\ key[cache'[k]] = k
  BY <1>3 DEF OnceInv, Cached
<1>9. computed' \in [Keys -> SUBSET Sqls]
  BY <1>5 DEF OnceInv
<1>10. QED
  BY <1>3, <1>4, <1>6, <1>7, <1>8, <1>9, OneAuditOwns

\* ... what is evicted no longer counts as computed ...
LEMMA PopOwns ==
    ASSUME OrderInv, SerialInv, OnceInv, NEW r \in Requests, PopVictim(r),
           Count(r)
    PROVE  OnceInv'
<1> USE DEF goto, warehouseVars
<1>0. /\ pc \in [Requests -> Labels]
      /\ store \in [Requests -> [Sqls -> Stamps \cup {Absent}]]
  BY DEF OrderInv, TypeOK
<1>1. pc[r] = "pop" /\ FindsRoom(r) /\ Owns(r) /\ victim[r] \in Sqls
  BY DEF PopVictim, OnceInv, OrderInv, Prepared
<1>2. /\ pc[r] \in InAudit /\ key[r] \in Keys /\ ref[r] \in Requests
      /\ cache[key[r]] = ref[r] /\ cache[key[r]] # NoStore /\ ~retired(key[r])
  BY <1>1, CarriersDictionary DEF Carrying
<1>3. store[ref[r]][victim[r]] # Absent
  BY <1>1 DEF FindsRoom, Remembered
<1>4. /\ store' = [store EXCEPT ![ref[r]][victim[r]] = Absent]
      /\ pc' = [pc EXCEPT ![r] = "remember"]
      /\ UNCHANGED <<stamp, present, cache, key, ref, left, listed>>
  BY <1>3 DEF PopVictim
<1>5. pc'[r] = "remember" /\ \A x \in Requests \ {r} : pc'[x] = pc[x]
  BY <1>0, <1>4
<1>6. /\ Remembered(ref[r])' = Remembered(ref[r]) \ {victim[r]}
      /\ \A d \in Requests \ {ref[r]} : Remembered(d) \subseteq Remembered(d)'
  BY <1>0, <1>1, <1>2, <1>4 DEF Remembered
<1>7. computed' = [computed EXCEPT ![key[r]] = @ \ {victim[r]}]
  BY <1>1, <1>5 DEF Count, Computes, Evicts
<1>8. /\ computed' \in [Keys -> SUBSET Sqls]
      /\ computed'[key[r]] = computed[key[r]] \ {victim[r]}
      /\ \A k \in Keys \ {key[r]} : computed'[k] = computed[k]
  BY <1>2, <1>7 DEF OnceInv
<1>9. Owns(r)' /\ FindsRoom(r)'
  BY <1>1, <1>2, <1>4, <1>5
     DEF Owns, FindsRoom, Cached, superseded, InAudit, Auditing
<1>10. ASSUME NEW k \in Stamps PROVE Kept(k)'
  <2>1. CASE k = key[r]
    <3>1. ASSUME NEW q \in computed[k], q # victim[r] PROVE atHand(k, q)'
      <4>1. atHand(k, q)
        BY <1>2, <2>1, <3>1 DEF OnceInv, Kept
      <4>2. CASE q \in Remembered(cache[k])
        <5>1. q \in Remembered(ref[r])'
          BY <1>2, <1>6, <2>1, <3>1, <4>2
        <5>2. ref'[r] = cache'[k]
          BY <1>2, <1>4, <2>1
        <5>3. QED
          BY <1>2, <1>4, <2>1, <5>1, <5>2 DEF atHand, Remembered
      <4>3. CASE q \notin Remembered(cache[k])
        <5>1. key[r] = k /\ sql(r) = q
          BY <1>2, <4>1, <4>3, OneCarrier DEF atHand
        <5>2. key'[r] = k /\ sql(r)' = q /\ pc'[r] \in Carrying
          BY <1>4, <1>5, <5>1 DEF sql, Carrying
        <5>3. QED
          BY <1>2, <1>4, <2>1, <5>2 DEF atHand
      <4>4. QED
        BY <4>2, <4>3
    <3>2. QED
      BY <1>8, <2>1, <3>1 DEF Kept
  <2>2. CASE k # key[r]
    <3>1. computed'[k] = computed[k]
      BY <1>8, <2>2 DEF Keys
    <3>2. QED
      BY <1>1, <1>4, <1>5, <1>6, <2>2, <3>1, OthersKept DEF Carrying
  <2>3. QED
    BY <2>1, <2>2
<1>11. \A k \in Cached' : k <= stamp /\ key[cache'[k]] = k
  BY <1>4 DEF OnceInv, Cached
<1>12. QED
  BY <1>2, <1>4, <1>5, <1>8, <1>9, <1>10, <1>11, OneAuditOwns

\* ... and what was carried arrives.
LEMMA RememberOwns ==
    ASSUME OrderInv, SerialInv, OnceInv, NEW r \in Requests, Remember(r),
           Count(r)
    PROVE  OnceInv'
<1> USE DEF goto, returns, warehouseVars
<1>0. /\ pc \in [Requests -> Labels]
      /\ store \in [Requests -> [Sqls -> Stamps \cup {Absent}]]
  BY DEF OrderInv, TypeOK
<1>1. pc[r] = "remember" /\ con[r] # Absent /\ Owns(r)
  BY DEF Remember, OrderInv, Prepared, OnceInv, Closed, Absent
<1>2. /\ pc[r] \in InAudit /\ key[r] \in Keys /\ ref[r] \in Requests
      /\ cache[key[r]] = ref[r] /\ cache[key[r]] # NoStore /\ sql(r) \in Sqls
  BY <1>1, CarriersDictionary DEF Carrying
<1>3. /\ store' = [store EXCEPT ![ref[r]][sql(r)] = con[r]]
      /\ pc' = [pc EXCEPT ![r] = "scalar"]
      /\ UNCHANGED <<stamp, present, cache, key, ref, listed>>
  BY DEF Remember
<1>4. pc'[r] = "scalar" /\ \A x \in Requests \ {r} : pc'[x] = pc[x]
  BY <1>0, <1>3
<1>5. /\ Remembered(ref[r])' = Remembered(ref[r]) \cup {sql(r)}
      /\ \A d \in Requests \ {ref[r]} : Remembered(d) \subseteq Remembered(d)'
  BY <1>0, <1>1, <1>2, <1>3 DEF Remembered
<1>6. UNCHANGED computed
  BY <1>1 DEF Count, Computes, Evicts
<1>7. Owns(r)' /\ FindsRoom(r)'
  BY <1>1, <1>2, <1>3, <1>4
     DEF Owns, FindsRoom, Cached, superseded, InAudit, Auditing
<1>8. ASSUME NEW k \in Stamps PROVE Kept(k)'
  <2>1. CASE k = key[r]
    <3>1. ASSUME NEW q \in Sqls, atHand(k, q) PROVE atHand(k, q)'
      <4>1. q \in Remembered(ref[r]) \cup {sql(r)}
        BY <1>2, <2>1, <3>1, OneCarrier DEF atHand
      <4>2. q \in Remembered(ref[r])' /\ ref'[r] = cache'[k]
        BY <1>2, <1>3, <1>5, <2>1, <4>1
      <4>3. QED
        BY <1>2, <1>3, <2>1, <4>2 DEF atHand, Remembered
    <3>2. retired(k) => retired(k)'
      BY <1>2, <2>1 DEF retired
    <3>3. QED
      BY <1>6, <3>1, <3>2, KeptStays
  <2>2. CASE k # key[r]
    BY <1>1, <1>3, <1>4, <1>5, <1>6, <2>2, OthersKept DEF Carrying
  <2>3. QED
    BY <2>1, <2>2
<1>9. \A k \in Cached' : k <= stamp /\ key[cache'[k]] = k
  BY <1>3 DEF OnceInv, Cached
<1>10. computed' \in [Keys -> SUBSET Sqls]
  BY <1>6 DEF OnceInv
<1>11. QED
  BY <1>2, <1>3, <1>4, <1>7, <1>8, <1>9, <1>10, OneAuditOwns

\* Outside an audit nothing is done to the dictionaries, and the warehouse
\* only grows newer.
LEMMA NoAuditMoves ==
    ASSUME OrderInv, OnceInv, stamp' \in Stamps, stamp <= stamp',
           \A k \in Stamps : superseded(k) => superseded(k)',
           UNCHANGED <<cache, store, key, ref, listed, victim, left>>,
           UNCHANGED computed,
           \A x \in Requests :
              \/ pc'[x] = pc[x]
              \/ pc[x] \notin InAudit /\ pc'[x] \notin InAudit
    PROVE  OnceInv'
<1>1. UNCHANGED Cached /\ \A d : UNCHANGED Remembered(d)
  BY DEF Cached, Remembered
<1>2. \A k \in Keys \cup {NotTaken} : k <= stamp => k <= stamp'
  BY MaxStampAssumption DEF OrderInv, TypeOK, WarehouseTypeOK, Keys, Stamps,
     MissingKey, NotTaken
<1>3. \A k \in Cached' : k <= stamp' /\ key'[cache'[k]] = k
  BY <1>1, <1>2 DEF OnceInv, Cached
<1>4. ASSUME NEW x \in Requests
      PROVE  key'[x] <= stamp' /\ Owns(x)' /\ FindsRoom(x)'
  <2>1. key'[x] <= stamp'
    BY <1>2 DEF OnceInv, OrderInv, TypeOK
  <2>2. CASE pc'[x] = pc[x]
    BY <1>1, <2>1, <2>2 DEF OnceInv, Owns, FindsRoom
  <2>3. CASE pc'[x] \notin InAudit
    BY <2>1, <2>3 DEF Owns, FindsRoom, InAudit, Constructing, Auditing
  <2>4. QED
    BY <2>2, <2>3
<1>5. ASSUME NEW k \in Stamps PROVE Kept(k)'
  <2>1. ASSUME NEW q \in Sqls, atHand(k, q) PROVE atHand(k, q)'
    <3>1. Carrying \subseteq InAudit
      BY DEF Carrying, InAudit, Auditing
    <3>2. QED
      BY <1>1, <2>1, <3>1 DEF atHand, sql
  <2>2. retired(k) => retired(k)'
    BY DEF retired
  <2>3. QED
    BY <2>1, <2>2, KeptStays
<1>6. QED
  BY <1>3, <1>4, <1>5 DEF OnceInv

\* One step per operation of an audit, and four for everything else.
LEMMA OnceStep ==
    ASSUME OrderInv, SerialInv, SerialInv', OnceInv, [CountedNext]_countedVars
    PROVE  OnceInv'
<1> USE DEF goto, returns, reports, warehouseVars, baselinesVars, askVars
<1>0. /\ pc \in [Requests -> Labels] /\ stamp \in Stamps
      /\ listed \in [Requests -> SUBSET Keys]
  BY DEF OrderInv, TypeOK, WarehouseTypeOK
<1>1. ASSUME NEW r \in Requests, RequestStep(r), Count(r)
      PROVE  OnceInv'
  \* An operation that carries no figure and touches no dictionary.
  <2>1. ASSUME pc[r] \in InAudit \ Carrying, pc[r] # "setdefault",
               \A x \in Requests \ {r} : pc'[x] = pc[x],
               pc'[r] \notin Carrying,
               UNCHANGED <<stamp, present, cache, store, key, ref>>,
               pc'[r] = "delete" => key[r] \notin listed'[r]
        PROVE  OnceInv'
    <3>1. UNCHANGED computed
      BY <2>1, <1>1 DEF Count, Computes, Evicts, Carrying
    <3>2. QED
      BY <2>1, <3>1, NothingCarried
  <2>2. CASE pc[r] \notin InAudit /\ pc[r] # "fingerprint"
    <3>1. /\ UNCHANGED <<stamp, present, cache, store, key, ref, listed, victim,
                         left>>
          /\ pc'[r] \notin InAudit
          /\ \A x \in Requests \ {r} : pc'[x] = pc[x]
      BY <1>0, <1>1, <2>2
         DEF RequestStep, Ask, Connect, Query, Construct, TakeFingerprint,
             SetDefault, CheckLen, Iterate, ListStale, DeleteStale, Scalar,
             Lookup, Hit, Open, Fetch, PickVictim, PopVictim, Remember, Audit,
             PlanAudit, StartCheck, FigureIsNone, ConcludeCheck, CatchCheck,
             Close, InAudit, Constructing, Auditing
    <3>2. UNCHANGED computed
      BY <1>1, <2>2 DEF Count, Computes, Evicts, InAudit, Auditing
    <3>3. stamp' \in Stamps /\ stamp <= stamp'
      BY <1>0, <3>1, MaxStampAssumption DEF Stamps
    <3>4. \A k \in Stamps : superseded(k) => superseded(k)'
      BY <3>1 DEF superseded
    <3>5. \A x \in Requests :
             \/ pc'[x] = pc[x]
             \/ pc[x] \notin InAudit /\ pc'[x] \notin InAudit
      BY <2>2, <3>1
    <3>6. UNCHANGED <<cache, store, key, ref, listed, victim, left>>
      BY <3>1
    <3>7. QED
      BY <3>2, <3>3, <3>4, <3>5, <3>6, NoAuditMoves, Zenon
  <2>3. CASE TakeFingerprint(r) \/ SetDefault(r) \/ DeleteStale(r)
    <3>1. UNCHANGED computed
      BY <1>1, <2>3 DEF TakeFingerprint, SetDefault, DeleteStale, Count,
         Computes, Evicts
    <3>2. QED
      BY <2>3, <3>1, FingerprintOwns, SetDefaultOwns, DeleteOwns
  <2>4. CASE CheckLen(r) \/ Iterate(r)
    BY <1>0, <2>1, <2>4 DEF CheckLen, Iterate, InAudit, Constructing, Carrying
  <2>5. CASE ListStale(r)
    <3>1. pc'[r] = "delete" => key[r] \notin listed'[r]
      BY <1>0, <2>5 DEF ListStale
    <3>2. QED
      BY <1>0, <2>1, <2>5, <3>1 DEF ListStale, InAudit, Constructing, Carrying
  <2>6. CASE Lookup(r) \/ Hit(r) \/ Open(r)
    BY <1>0, <2>1, <2>6 DEF Lookup, Hit, Open, InAudit, Auditing, Constructing,
       Carrying
  <2>7. CASE Fetch(r) \/ PickVictim(r) \/ PopVictim(r) \/ Remember(r)
    BY <1>1, <2>7, FetchOwns, PickOwns, PopOwns, RememberOwns
  <2>8. CASE Audit(r)
    BY <1>0, <2>1, <2>8
       DEF Audit, PlanAudit, StartCheck, FigureIsNone, ConcludeCheck,
           CatchCheck, Close, InAudit, Auditing, Constructing, Carrying
  <2>9. CASE Ask(r) \/ Connect(r) \/ Query(r)
    BY <2>2, <2>9 DEF Ask, Connect, Query, InAudit, Constructing, Auditing
  <2>10. QED
    BY <1>1, <2>3, <2>4, <2>5, <2>6, <2>7, <2>8, <2>9
       DEF RequestStep, Construct, Scalar
<1>2. ASSUME Rebuild, UNCHANGED computed
      PROVE  OnceInv'
  <2>1. stamp' \in Stamps /\ stamp <= stamp'
    BY <1>0, <1>2, MaxStampAssumption
       DEF Rebuild, BuilderStep, Unlink, Create, CreateTable, CloseBuild,
           CrashBuild, Stamps, OrderInv, StampsLast
  <2>2. \A k \in Stamps : superseded(k) => superseded(k)'
    BY <1>0, <1>2, MaxStampAssumption
       DEF Rebuild, BuilderStep, Unlink, Create, CreateTable, CloseBuild,
           CrashBuild, Stamps, superseded
  <2>3. UNCHANGED <<cache, store, key, ref, listed, victim, left>> /\ pc' = pc
    BY <1>2 DEF Rebuild
  <2>4. QED
    BY <1>2, <2>1, <2>2, <2>3, NoAuditMoves, Zenon
<1>3. ASSUME \A r \in Requests : pc[r] \notin InAudit, Forget, computed' = Nothing
      PROVE  OnceInv'
  <2>1. /\ Cached' = {} /\ UNCHANGED <<pc, key, stamp>>
        /\ \A k \in Keys : cache'[k] = NoStore
    BY <1>3 DEF Forget, ForgetAll, Cached
  <2>2. \A x \in Requests : Owns(x)' /\ FindsRoom(x)'
    BY <1>3, <2>1 DEF Owns, FindsRoom, InAudit, Constructing, Auditing
  <2>3. computed' \in [Keys -> SUBSET Sqls] /\ \A k \in Stamps : Kept(k)'
    BY <1>3 DEF Nothing, Kept, Keys
  <2>4. QED
    BY <2>1, <2>2, <2>3 DEF OnceInv
<1>4. ASSUME UNCHANGED countedVars
      PROVE  OnceInv'
  <2>1. /\ UNCHANGED <<cache, store, key, ref, listed, victim, left>>
        /\ computed' = computed /\ pc' = pc
        /\ UNCHANGED <<present, stamp>>
    BY <1>4 DEF countedVars, countVars, vars
  <2>2. stamp' \in Stamps /\ stamp <= stamp'
    BY <1>0, <2>1, MaxStampAssumption DEF Stamps
  <2>3. \A k \in Stamps : superseded(k) => superseded(k)'
    BY <2>1 DEF superseded
  <2>4. QED
    BY <2>1, <2>2, <2>3, NoAuditMoves, Zenon
<1>5. QED
  BY <1>1, <1>2, <1>3, <1>4
     DEF CountedNext, countVars, countedVars, Finished

\* memory.py, the invariant behind "computed at most once per version": what
\* was computed from a file version that can still be asked for, and neither
\* evicted nor forgotten, is in the dictionary every audit of that version
\* uses, or on its way there.
THEOREM OnceHolds == CountedSpec => []OnceInv
<1>1. OrderInv /\ SerialInv /\ SerialInv' /\ OnceInv /\ [CountedNext]_countedVars
        => OnceInv'
  BY OnceStep
<1>2. QED
  BY <1>1, OnceInit, CountedOrder, PTL DEF CountedSpec

\* memory.py, "computed at most once per version": where audits do not overlap
\* no query is run for a warehouse it was run for, unless its figure was evicted
\* or forgotten in between, whatever the builder does and DuckDB answers.
THEOREM SerialComputesOnce == CountedSpec => ComputedAtMostOncePerVersion
<1>1. ASSUME OrderInv, SerialInv, OnceInv, NEW r \in Requests, Computes(r),
             key[r] \in Stamps, sql(r) \in computed[key[r]]
      PROVE  FALSE
  <2>1. pc[r] = "miss" /\ store[ref[r]][sql(r)] = Absent
    BY <1>1 DEF Computes, SerialInv, Current
  <2>2. /\ pc[r] \in InAudit /\ cache[key[r]] = ref[r] /\ ~retired(key[r])
    BY <1>1, <2>1, CarriersDictionary
  <2>3. atHand(key[r], sql(r))
    BY <1>1, <2>2 DEF OnceInv, Kept
  <2>4. \A x \in Requests : pc[x] \notin Carrying
    BY <1>1, <2>1, <2>2, NobodyCarries DEF Carrying
  <2>5. sql(r) \in Remembered(ref[r])
    BY <2>2, <2>3, <2>4 DEF atHand
  <2>6. QED
    BY <2>1, <2>5 DEF Remembered
<1>2. OrderInv /\ SerialInv /\ OnceInv /\ [CountedNext]_countedVars =>
        [\A r \in Requests :
           Computes(r) /\ key[r] \in Stamps => sql(r) \notin computed[key[r]]]_countedVars
  BY <1>1
<1>3. QED
  BY <1>2, OnceHolds, CountedOrder, PTL DEF CountedSpec, ComputedAtMostOncePerVersion

---------------------------------------------------------------------------
(* No request can be kept from its end by another.                         *)

\* No plan selects more than the four checks, none of which makes more than
\* three calls.
LEMMA AuditLengths ==
    ASSUME NEW p \in Plans
    PROVE  /\ Len(selected(p)) \in 0..4
           /\ \A check \in Checks : \A calls \in scalarCalls(check, p) :
                Len(calls) \in 0..3
<1>1. Len(selected(p)) \in 0..4
  <2> DEFINE Short(s) == s \in Seq(Checks) /\ Len(s) \in 0..1
  <2>1. \A condition \in BOOLEAN : \A check \in Checks : Short(OnlyIf(condition, check))
    BY DEF OnlyIf
  <2>2. \A a, b, c, d \in Seq(Checks) :
           Short(a) /\ Short(b) /\ Short(c) /\ Short(d) =>
             Len(a \o b \o c \o d) \in 0..4
    <3>1. \A a, b \in Seq(Checks) :
             a \o b \in Seq(Checks) /\ Len(a \o b) = Len(a) + Len(b)
      OBVIOUS
    <3> SUFFICES ASSUME NEW a \in Seq(Checks), NEW b \in Seq(Checks),
                        NEW c \in Seq(Checks), NEW d \in Seq(Checks),
                        Short(a), Short(b), Short(c), Short(d)
                 PROVE  Len(a \o b \o c \o d) \in 0..4
      OBVIOUS
    <3>2. a \o b \in Seq(Checks) /\ a \o b \o c \in Seq(Checks)
      BY <3>1
    <3>3. Len(a \o b \o c \o d) = Len(a) + Len(b) + Len(c) + Len(d)
      BY <3>1, <3>2
    <3>4. Len(a) \in 0..1 /\ Len(b) \in 0..1 /\ Len(c) \in 0..1 /\ Len(d) \in 0..1
      OBVIOUS
    <3>5. \A i, j, k, l \in 0..1 : i + j + k + l \in 0..4
      OBVIOUS
    <3> HIDE DEF Short
    <3>6. Len(a) + Len(b) + Len(c) + Len(d) \in 0..4
      BY <3>4, <3>5
    <3>7. QED
      BY <3>3, <3>6, Zenon
  <2>3. \A check \in Checks : runs(check, p) \in BOOLEAN
    BY DEF runs, handles, declines, Checks
  <2>4. \A check \in Checks : Short(OnlyIf(runs(check, p), check))
    BY <2>1, <2>3
  <2> HIDE DEF Short
  <2>5. /\ "population" \in Checks /\ "null_metric" \in Checks
        /\ "join_integrity" \in Checks /\ "continuity" \in Checks
    BY DEF Checks
  <2>6. /\ Short(OnlyIf(runs("population", p), "population"))
        /\ Short(OnlyIf(runs("null_metric", p), "null_metric"))
        /\ Short(OnlyIf(runs("join_integrity", p), "join_integrity"))
        /\ Short(OnlyIf(runs("continuity", p), "continuity"))
    BY <2>4, <2>5
  <2>7. QED
    BY <2>2, <2>6 DEF selected, Short
<1>2. ASSUME NEW check \in Checks, NEW calls \in scalarCalls(check, p)
      PROVE  Len(calls) \in 0..3
  <2>1. \A a, b, c : Len(<<a>>) = 1 /\ Len(<<a, b>>) = 2 /\ Len(<<a, b, c>>) = 3
    OBVIOUS
  <2>2. CASE check = "population" \/ check = "join_integrity"
    BY <1>2, <2>1, <2>2 DEF scalarCalls
  <2>3. CASE check = "null_metric"
    BY <1>2, <2>1, <2>3 DEF scalarCalls
  <2>4. CASE check = "continuity"
    BY <1>2, <2>1, <2>4 DEF scalarCalls
  <2>5. QED
    BY <2>2, <2>3, <2>4 DEF Checks
<1>3. QED
  BY <1>1, <1>2

\* The number of keys, and what a thread lists of them.
LEMMA ListedCount ==
    /\ Cardinality(Keys) \in Nat
    /\ \A S \in SUBSET Keys : Cardinality(S) \in 0..Cardinality(Keys)
<1>1. IsFiniteSet(Keys)
  BY KeysFinite
<1>2. QED
  BY <1>1, FS_Subset, FS_CardinalityType

\* The measure at every place, in numbers ...
UpToAudit(r) ==
    /\ pc[r] \in Done => work(r) = 0
    /\ pc[r] = "idle" => work(r) = 86 + Cardinality(Keys) + 8
    /\ pc[r] = "execute" => work(r) = 86 + Cardinality(Keys) + 7
    /\ pc[r] = "query" => work(r) = 86 + Cardinality(Keys) + 6
    /\ pc[r] = "fingerprint" => work(r) = 86 + Cardinality(Keys) + 5
    /\ pc[r] = "setdefault" => work(r) = 86 + Cardinality(Keys) + 4
    /\ pc[r] = "check_len" => work(r) = 86 + Cardinality(Keys) + 3
    /\ pc[r] = "iterate" => work(r) = 86 + Cardinality(Keys) + 2
    /\ pc[r] = "list" => work(r) = 86 + Cardinality(Keys) + 1
    /\ pc[r] = "delete" => work(r) = 86 + Cardinality(listed[r])
    /\ pc[r] = "audit" => work(r) = 86

\* ... by the definition of work, whose steps are 6, 21 and 86.
LEMMA WorkIs ==
    ASSUME NEW r \in Requests
    PROVE  UpToAudit(r)
<1>1. AuditSteps = 86
  BY DEF AuditSteps, CheckSteps, CallSteps
<1>2. DOMAIN ahead = {"idle", "execute", "query", "fingerprint", "setdefault",
                      "check_len", "iterate", "list"}
  BY DEF ahead
<1>3. /\ ahead["idle"] = 8 /\ ahead["execute"] = 7 /\ ahead["query"] = 6
      /\ ahead["fingerprint"] = 5 /\ ahead["setdefault"] = 4
      /\ ahead["check_len"] = 3 /\ ahead["iterate"] = 2 /\ ahead["list"] = 1
  BY DEF ahead
<1> HIDE DEF AuditSteps, ahead
<1>4. pc[r] \in DOMAIN ahead => work(r) = 86 + Cardinality(Keys) + ahead[pc[r]]
  BY <1>1, <1>2 DEF work, Done
<1>5. /\ pc[r] \in Done => work(r) = 0
      /\ pc[r] = "delete" => work(r) = 86 + Cardinality(listed[r])
      /\ pc[r] = "audit" => work(r) = 86
  BY <1>1, <1>2 DEF work, Done
<1>6. /\ pc[r] = "idle" => work(r) = 86 + Cardinality(Keys) + 8
      /\ pc[r] = "execute" => work(r) = 86 + Cardinality(Keys) + 7
      /\ pc[r] = "query" => work(r) = 86 + Cardinality(Keys) + 6
      /\ pc[r] = "fingerprint" => work(r) = 86 + Cardinality(Keys) + 5
      /\ pc[r] = "setdefault" => work(r) = 86 + Cardinality(Keys) + 4
      /\ pc[r] = "check_len" => work(r) = 86 + Cardinality(Keys) + 3
      /\ pc[r] = "iterate" => work(r) = 86 + Cardinality(Keys) + 2
      /\ pc[r] = "list" => work(r) = 86 + Cardinality(Keys) + 1
  BY <1>2, <1>3, <1>4
<1>7. QED
  BY <1>5, <1>6, Zenon DEF UpToAudit

\* ... and within the audit.
WithinAudit(r) ==
    /\ pc[r] = "next check" => work(r) = 21 * Len(todo[r]) + 1
    /\ pc[r] = "scalar" =>
         work(r) = 21 * (Len(todo[r]) - 1) + 6 * Len(left[r]) + 3
    /\ pc[r] = "miss" /\ con[r] = Closed =>
         work(r) = 21 * (Len(todo[r]) - 1) + 6 * Len(left[r]) + 2
    /\ pc[r] = "miss" /\ con[r] # Closed =>
         work(r) = 21 * (Len(todo[r]) - 1) + 6 * Len(left[r]) + 1
    /\ pc[r] = "evict" =>
         work(r) = 21 * (Len(todo[r]) - 1) + 6 * Len(left[r])
    /\ pc[r] = "pop" =>
         work(r) = 21 * (Len(todo[r]) - 1) + 6 * Len(left[r]) - 1
    /\ pc[r] \in {"hit", "remember"} =>
         work(r) = 21 * (Len(todo[r]) - 1) + 6 * Len(left[r]) - 2
    /\ pc[r] = "raised" => work(r) = 21 * (Len(todo[r]) - 1) + 2

\* ... for which the lengths must be lengths.
LEMMA WorkInAudit ==
    ASSUME OrderInv, NEW r \in Requests
    PROVE  WithinAudit(r)
<1>1. CheckSteps = 21 /\ CallSteps = 6
  BY DEF CheckSteps, CallSteps
<1>2. DOMAIN ahead = {"idle", "execute", "query", "fingerprint", "setdefault",
                      "check_len", "iterate", "list"}
  BY DEF ahead
<1>3. Len(todo[r]) \in Nat /\ Len(left[r]) \in Nat
  BY DEF OrderInv, TypeOK
<1> DEFINE t == Len(todo[r])
           l == Len(left[r])
<1> HIDE DEF ahead, CheckSteps, CallSteps
<1>4. pc[r] = "next check" => work(r) = 21 * t + 1
  BY <1>1, <1>2 DEF work, Done
<1>5. pc[r] \in Calling \cup {"scalar"} =>
        work(r) = 21 * (t - 1) + 1 + (6 * (l - 1) + inCall(r))
  BY <1>1, <1>2 DEF work, inCheck, Done, Calling
<1>6. pc[r] = "raised" => work(r) = 21 * (t - 1) + 1 + 1
  BY <1>1, <1>2 DEF work, inCheck, Done
<1>7. inCall(r) = IF pc[r] = "scalar" THEN 8
                  ELSE IF pc[r] = "miss" THEN IF con[r] = Closed THEN 7 ELSE 6
                  ELSE IF pc[r] = "evict" THEN 5
                  ELSE IF pc[r] = "pop" THEN 4 ELSE 3
  BY DEF inCall
<1>8. t \in Nat /\ l \in Nat
  BY <1>3
<1> HIDE DEF t, l
<1>9. /\ 21 * (t - 1) + 1 + (6 * (l - 1) + 8) = 21 * (t - 1) + 6 * l + 3
      /\ 21 * (t - 1) + 1 + (6 * (l - 1) + 7) = 21 * (t - 1) + 6 * l + 2
      /\ 21 * (t - 1) + 1 + (6 * (l - 1) + 6) = 21 * (t - 1) + 6 * l + 1
      /\ 21 * (t - 1) + 1 + (6 * (l - 1) + 5) = 21 * (t - 1) + 6 * l
      /\ 21 * (t - 1) + 1 + (6 * (l - 1) + 4) = 21 * (t - 1) + 6 * l - 1
      /\ 21 * (t - 1) + 1 + (6 * (l - 1) + 3) = 21 * (t - 1) + 6 * l - 2
      /\ 21 * (t - 1) + 1 + 1 = 21 * (t - 1) + 2
  BY <1>8
<1>10. /\ pc[r] = "scalar" => inCall(r) = 8
       /\ pc[r] = "miss" /\ con[r] = Closed => inCall(r) = 7
       /\ pc[r] = "miss" /\ con[r] # Closed => inCall(r) = 6
       /\ pc[r] = "evict" => inCall(r) = 5
       /\ pc[r] = "pop" => inCall(r) = 4
       /\ pc[r] \in {"hit", "remember"} => inCall(r) = 3
  BY <1>7
<1>11. /\ pc[r] = "next check" => work(r) = 21 * t + 1
       /\ pc[r] = "raised" => work(r) = 21 * (t - 1) + 2
       /\ pc[r] = "scalar" => work(r) = 21 * (t - 1) + 6 * l + 3
       /\ pc[r] = "miss" /\ con[r] = Closed => work(r) = 21 * (t - 1) + 6 * l + 2
       /\ pc[r] = "miss" /\ con[r] # Closed => work(r) = 21 * (t - 1) + 6 * l + 1
       /\ pc[r] = "evict" => work(r) = 21 * (t - 1) + 6 * l
       /\ pc[r] = "pop" => work(r) = 21 * (t - 1) + 6 * l - 1
       /\ pc[r] \in {"hit", "remember"} => work(r) = 21 * (t - 1) + 6 * l - 2
  <2>1. /\ pc[r] = "next check" => work(r) = 21 * t + 1
        /\ pc[r] = "raised" => work(r) = 21 * (t - 1) + 2
    BY <1>4, <1>6, <1>9, Zenon
  <2>2. /\ pc[r] = "scalar" => work(r) = 21 * (t - 1) + 6 * l + 3
        /\ pc[r] = "evict" => work(r) = 21 * (t - 1) + 6 * l
        /\ pc[r] = "pop" => work(r) = 21 * (t - 1) + 6 * l - 1
    BY <1>5, <1>9, <1>10, Zenon DEF Calling
  <2>3. /\ pc[r] = "miss" /\ con[r] = Closed => work(r) = 21 * (t - 1) + 6 * l + 2
        /\ pc[r] = "miss" /\ con[r] # Closed => work(r) = 21 * (t - 1) + 6 * l + 1
    BY <1>5, <1>9, <1>10, Zenon DEF Calling
  <2>4. pc[r] \in {"hit", "remember"} => work(r) = 21 * (t - 1) + 6 * l - 2
    BY <1>5, <1>9, <1>10, Zenon DEF Calling
  <2>5. QED
    BY <2>1, <2>2, <2>3, <2>4
<1> USE DEF t, l
<1>12. QED
  BY <1>11, Zenon DEF WithinAudit

\* A thread inside a check has a check to do, and one inside a call a call.
LEMMA SomethingLeft ==
    ASSUME OrderInv, NEW r \in Requests
    PROVE  /\ pc[r] \in Calling \cup {"scalar", "raised"} => Len(todo[r]) >= 1
           /\ pc[r] \in Calling => Len(left[r]) >= 1
<1>1. \A S : \A s \in Seq(S) : s # <<>> => Len(s) >= 1
  OBVIOUS
<1>2. todo[r] \in Seq(Checks) /\ left[r] \in Seq(Sqls)
  BY DEF OrderInv, TypeOK
<1>3. QED
  BY <1>1, <1>2 DEF OrderInv, Prepared

\* Nobody has a negative number of steps to take.
LEMMA WorkLeft ==
    ASSUME OrderInv, NEW r \in Requests
    PROVE  work(r) \in Nat
<1>1. /\ pc[r] \in Labels /\ Len(todo[r]) \in Nat /\ Len(left[r]) \in Nat
      /\ listed[r] \in SUBSET Keys
  BY DEF OrderInv, TypeOK
<1>2. Cardinality(Keys) \in Nat /\ Cardinality(listed[r]) \in Nat
  BY <1>1, ListedCount
<1>3. /\ pc[r] \in Calling \cup {"scalar", "raised"} => Len(todo[r]) >= 1
      /\ pc[r] \in Calling => Len(left[r]) >= 1
  BY SomethingLeft
<1>4. CASE pc[r] \in Calling \cup {"raised"}
  <2> DEFINE t == Len(todo[r])
             l == Len(left[r])
  <2>1. t \in Nat /\ l \in Nat /\ t >= 1 /\ (pc[r] # "raised" => l >= 1)
    BY <1>1, <1>3, <1>4
  <2>2. /\ pc[r] \in Calling => \E k \in (-2)..2 : work(r) = 21 * (t - 1) + 6 * l + k
        /\ pc[r] = "raised" => work(r) = 21 * (t - 1) + 2
    <3>1. /\ pc[r] = "miss" /\ con[r] = Closed => work(r) = 21 * (t - 1) + 6 * l + 2
          /\ pc[r] = "miss" /\ con[r] # Closed => work(r) = 21 * (t - 1) + 6 * l + 1
          /\ pc[r] = "evict" => work(r) = 21 * (t - 1) + 6 * l
          /\ pc[r] = "pop" => work(r) = 21 * (t - 1) + 6 * l - 1
          /\ pc[r] \in {"hit", "remember"} => work(r) = 21 * (t - 1) + 6 * l - 2
          /\ pc[r] = "raised" => work(r) = 21 * (t - 1) + 2
      BY WorkInAudit DEF WithinAudit
    <3> HIDE DEF t, l
    <3>2. QED
      BY <2>1, <3>1 DEF Calling
  <2>3. work(r) \in Nat
    <3> HIDE DEF t, l
    <3>1. QED
      BY <1>4, <2>1, <2>2
  <2>4. QED
    BY <2>3
<1>5. CASE pc[r] \notin Calling \cup {"raised"}
  <2>1. ASSUME NEW t \in Nat, NEW l \in Nat
        PROVE  21 * t + 1 \in Nat /\ (t >= 1 => 21 * (t - 1) + 6 * l + 3 \in Nat)
    OBVIOUS
  <2>2. pc[r] = "next check" => work(r) \in Nat
    BY <1>1, <2>1, WorkInAudit, Zenon DEF WithinAudit
  <2>3. pc[r] = "scalar" => work(r) \in Nat
    <3>1. pc[r] = "scalar" =>
            work(r) = 21 * (Len(todo[r]) - 1) + 6 * Len(left[r]) + 3
      BY WorkInAudit DEF WithinAudit
    <3>2. QED
      BY <1>1, <1>3, <2>1, <3>1, Zenon
  <2>4. \A i \in 1..8 : 86 + Cardinality(Keys) + i \in Nat
    BY <1>2
  <2>5. 86 + Cardinality(listed[r]) \in Nat /\ 86 \in Nat /\ 0 \in Nat
    BY <1>2
  <2>6. \/ work(r) \in {0, 86, 86 + Cardinality(listed[r])}
        \/ \E i \in 1..8 : work(r) = 86 + Cardinality(Keys) + i
        \/ pc[r] \in {"next check", "scalar"}
    <3>1. /\ 1 \in 1..8 /\ 2 \in 1..8 /\ 3 \in 1..8 /\ 4 \in 1..8
          /\ 5 \in 1..8 /\ 6 \in 1..8 /\ 7 \in 1..8 /\ 8 \in 1..8
      OBVIOUS
    <3>2. CASE pc[r] \in Done \cup {"delete", "audit"}
      BY <3>2, WorkIs, Zenon DEF UpToAudit
    <3>3. CASE pc[r] \in {"idle", "execute", "query", "fingerprint"}
      <4>1. \/ work(r) = 86 + Cardinality(Keys) + 8
            \/ work(r) = 86 + Cardinality(Keys) + 7
            \/ work(r) = 86 + Cardinality(Keys) + 6
            \/ work(r) = 86 + Cardinality(Keys) + 5
        BY <3>3, WorkIs, Zenon DEF UpToAudit
      <4>2. QED
        BY <3>1, <4>1, Zenon
    <3>4. CASE pc[r] \in {"setdefault", "check_len", "iterate", "list"}
      <4>1. \/ work(r) = 86 + Cardinality(Keys) + 4
            \/ work(r) = 86 + Cardinality(Keys) + 3
            \/ work(r) = 86 + Cardinality(Keys) + 2
            \/ work(r) = 86 + Cardinality(Keys) + 1
        BY <3>4, WorkIs, Zenon DEF UpToAudit
      <4>2. QED
        BY <3>1, <4>1, Zenon
    <3>5. QED
      BY <1>1, <1>5, <3>2, <3>3, <3>4
        DEF Labels, Constructing, Auditing, Calling
  <2>7. QED
    BY <1>5, <2>2, <2>3, <2>4, <2>5, <2>6, Zenon
<1>6. QED
  BY <1>4, <1>5

\* All that the measure looks at of one thread.
progress(x) == <<pc[x], con[x], listed[x], left[x], todo[x]>>

\* A thread that does not move has as much to do as before.
LEMMA WorkKept ==
    ASSUME NEW x \in Requests, progress(x)' = progress(x)
    PROVE  work(x)' = work(x)
BY DEF progress, work, inCheck, inCall

\* What the two lemmas above and the next one need of the measure.
Measured(r) ==
    /\ work(r) \in Nat
    /\ Len(todo[r]) \in Nat /\ Len(left[r]) \in Nat
    /\ pc[r] \in Calling \cup {"scalar", "raised"} => Len(todo[r]) >= 1
    /\ pc[r] \in Calling => Len(left[r]) >= 1
    /\ UpToAudit(r)
    /\ WithinAudit(r)

\* For every thread at once, so that it can be stated of the next state too.
MeasureInv == \A r \in Requests : Measured(r)

\* It follows from the order a thread keeps.
LEMMA MeasureHolds == OrderInv => MeasureInv
<1> SUFFICES ASSUME OrderInv, NEW r \in Requests
             PROVE  Measured(r)
  BY DEF MeasureInv
<1>1. Len(todo[r]) \in Nat /\ Len(left[r]) \in Nat
  BY DEF OrderInv, TypeOK
<1>2. /\ pc[r] \in Calling \cup {"scalar", "raised"} => Len(todo[r]) >= 1
      /\ pc[r] \in Calling => Len(left[r]) >= 1
  BY SomethingLeft
<1>3. work(r) \in Nat
  BY WorkLeft
<1>4. QED
  BY <1>1, <1>2, <1>3, WorkIs, WorkInAudit, Zenon DEF Measured

\* A step of one thread leaves the others where they are.
LEMMA OthersWait ==
    ASSUME OrderInv, NEW r \in Requests, RequestStep(r), NEW x \in Requests, x # r
    PROVE  progress(x)' = progress(x)
<1> USE DEF goto, warehouseVars, baselinesVars, askVars, progress
<1>0. /\ pc \in [Requests -> Labels] /\ listed \in [Requests -> SUBSET Keys]
      /\ con \in [Requests -> Stamps \cup {Closed}]
      /\ left \in [Requests -> Seq(Sqls)] /\ todo \in [Requests -> Seq(Checks)]
  BY DEF OrderInv, TypeOK
<1>1. CASE Ask(r) \/ Connect(r) \/ Query(r)
  BY <1>0, <1>1 DEF Ask, Connect, Query
<1>2. CASE Construct(r) /\ UNCHANGED askVars
  BY <1>0, <1>2 DEF Construct, TakeFingerprint, SetDefault, CheckLen, Iterate,
     ListStale, DeleteStale
<1>3. CASE Scalar(r) /\ UNCHANGED askVars
  BY <1>0, <1>3 DEF Scalar, Lookup, Hit, Open, Fetch, PickVictim, PopVictim,
     Remember, returns
<1>4. CASE Audit(r)
  BY <1>0, <1>4 DEF Audit, PlanAudit, StartCheck, FigureIsNone, ConcludeCheck,
     CatchCheck, Close, reports
<1>5. QED
  BY <1>1, <1>2, <1>3, <1>4 DEF RequestStep

\* Head and tail: a sequence that loses its head is one shorter.
LEMMA OneShorter ==
    ASSUME NEW S, NEW s \in Seq(S), s # <<>>
    PROVE  Len(s) >= 1 /\ Len(Tail(s)) = Len(s) - 1
OBVIOUS

\* Arithmetic of the measure, for any lengths.
LEMMA DropsInAudit ==
    ASSUME NEW t \in Nat, NEW l \in Nat
    PROVE  /\ 21 * (t - 1) + 6 * l - 2 < 21 * (t - 1) + 6 * l + 3
           /\ 21 * (t - 1) + 6 * l + 2 < 21 * (t - 1) + 6 * l + 3
           /\ 21 * (t - 1) + 6 * l + 1 < 21 * (t - 1) + 6 * l + 3
           /\ 21 * (t - 1) + 6 * l + 1 < 21 * (t - 1) + 6 * l + 2
           /\ 21 * (t - 1) + 6 * l < 21 * (t - 1) + 6 * l + 1
           /\ 21 * (t - 1) + 6 * l - 2 < 21 * (t - 1) + 6 * l + 1
           /\ 21 * (t - 1) + 6 * l - 1 < 21 * (t - 1) + 6 * l
           /\ 21 * (t - 1) + 6 * l - 2 < 21 * (t - 1) + 6 * l - 1
           /\ 21 * (t - 1) + 6 * (l - 1) + 3 < 21 * (t - 1) + 6 * l - 2
           /\ 21 * (t - 1) + 1 < 21 * (t - 1) + 2
           /\ l >= 1 =>
                /\ 21 * (t - 1) + 2 < 21 * (t - 1) + 6 * l - 2
                /\ 21 * (t - 1) + 2 < 21 * (t - 1) + 6 * l - 1
                /\ 21 * (t - 1) + 2 < 21 * (t - 1) + 6 * l
                /\ 21 * (t - 1) + 2 < 21 * (t - 1) + 6 * l + 1
                /\ 21 * (t - 1) + 2 < 21 * (t - 1) + 6 * l + 2
OBVIOUS

\* One step per operation: how much it leaves to do.
LEMMA WorkDrops ==
    ASSUME OrderInv, MeasureInv, OrderInv', MeasureInv', NEW r \in Requests, RequestStep(r)
    PROVE  work(r)' < work(r)
<1> USE DEF goto, warehouseVars, baselinesVars, askVars
<1>0. /\ pc \in [Requests -> Labels] /\ listed \in [Requests -> SUBSET Keys]
      /\ con \in [Requests -> Stamps \cup {Closed}]
      /\ left \in [Requests -> Seq(Sqls)] /\ todo \in [Requests -> Seq(Checks)]
  BY DEF OrderInv, TypeOK
<1>1. Measured(r) /\ Measured(r)'
  BY DEF MeasureInv
<1> DEFINE k == Cardinality(Keys)
<1>2. k \in Nat
  BY ListedCount
\* Whoever is not done yet has a step to spare for giving up.
<1>3. ASSUME pc'[r] \in Done, pc[r] \notin Done,
             pc[r] \in {"idle", "execute", "query", "list", "delete"}
      PROVE  work(r)' < work(r)
  <2>1. work(r)' = 0
    BY <1>1, <1>3, Zenon DEF Measured, UpToAudit, WithinAudit
  <2>2. Cardinality(listed[r]) \in Nat
    <3>1. Cardinality(listed[r]) \in 0..k
      BY <1>0, ListedCount
    <3>2. QED
      BY <1>2, <3>1
  <2>3. work(r) \in {86 + k + 8, 86 + k + 7, 86 + k + 6, 86 + k + 1,
                     86 + Cardinality(listed[r])}
    BY <1>1, <1>3, Zenon DEF Measured, UpToAudit, WithinAudit
  <2> HIDE DEF k
  <2>4. QED
    BY <1>2, <2>1, <2>2, <2>3
\* Up to the list of superseded keys, one place after the other.
<1>4. CASE Ask(r)
  <2>1. pc[r] = "idle" /\ (pc'[r] = "unavailable" \/ pc'[r] = "execute")
    BY <1>0, <1>4 DEF Ask
  <2>2. CASE pc'[r] = "unavailable"
    BY <1>3, <2>1, <2>2 DEF Done
  <2>3. CASE pc'[r] = "execute"
    <3>1. work(r) = 86 + k + 8 /\ work(r)' = 86 + k + 7
      BY <1>1, <2>1, <2>3, Zenon DEF Measured, UpToAudit, WithinAudit
    <3> HIDE DEF k
    <3>2. QED
      BY <1>2, <3>1
  <2>4. QED
    BY <2>1, <2>2, <2>3
<1>5. CASE Connect(r)
  <2>1. pc[r] = "execute" /\ (pc'[r] = "halted at executor" \/ pc'[r] = "query")
    BY <1>0, <1>5 DEF Connect
  <2>2. CASE pc'[r] = "halted at executor"
    BY <1>3, <2>1, <2>2 DEF Done
  <2>3. CASE pc'[r] = "query"
    <3>1. work(r) = 86 + k + 7 /\ work(r)' = 86 + k + 6
      BY <1>1, <2>1, <2>3, Zenon DEF Measured, UpToAudit, WithinAudit
    <3> HIDE DEF k
    <3>2. QED
      BY <1>2, <3>1
  <2>4. QED
    BY <2>1, <2>2, <2>3
<1>6. CASE Query(r)
  <2>1. pc[r] = "query" /\ (pc'[r] = "halted at executor" \/ pc'[r] = "fingerprint")
    BY <1>0, <1>6 DEF Query
  <2>2. CASE pc'[r] = "halted at executor"
    BY <1>3, <2>1, <2>2 DEF Done
  <2>3. CASE pc'[r] = "fingerprint"
    <3>1. work(r) = 86 + k + 6 /\ work(r)' = 86 + k + 5
      BY <1>1, <2>1, <2>3, Zenon DEF Measured, UpToAudit, WithinAudit
    <3> HIDE DEF k
    <3>2. QED
      BY <1>2, <3>1
  <2>4. QED
    BY <2>1, <2>2, <2>3
<1>7. CASE Construct(r)
  <2>1. CASE TakeFingerprint(r)
    <3>1. pc[r] = "fingerprint" /\ pc'[r] = "setdefault"
      BY <1>0, <2>1 DEF TakeFingerprint
    <3>2. work(r) = 86 + k + 5 /\ work(r)' = 86 + k + 4
      BY <1>1, <3>1, Zenon DEF Measured, UpToAudit, WithinAudit
    <3> HIDE DEF k
    <3>3. QED
      BY <1>2, <3>2
  <2>2. CASE SetDefault(r)
    <3>1. pc[r] = "setdefault" /\ pc'[r] = "check_len"
      BY <1>0, <2>2 DEF SetDefault
    <3>2. work(r) = 86 + k + 4 /\ work(r)' = 86 + k + 3
      BY <1>1, <3>1, Zenon DEF Measured, UpToAudit, WithinAudit
    <3> HIDE DEF k
    <3>3. QED
      BY <1>2, <3>2
  <2>3. CASE CheckLen(r)
    <3>1. pc[r] = "check_len" /\ (pc'[r] = "iterate" \/ pc'[r] = "audit")
      BY <1>0, <2>3 DEF CheckLen
    <3>2. work(r) = 86 + k + 3 /\ work(r)' \in {86 + k + 2, 86}
      BY <1>1, <3>1, Zenon DEF Measured, UpToAudit, WithinAudit
    <3> HIDE DEF k
    <3>3. QED
      BY <1>2, <3>2
  <2>4. CASE Iterate(r)
    <3>1. pc[r] = "iterate" /\ pc'[r] = "list"
      BY <1>0, <2>4 DEF Iterate
    <3>2. work(r) = 86 + k + 2 /\ work(r)' = 86 + k + 1
      BY <1>1, <3>1, Zenon DEF Measured, UpToAudit, WithinAudit
    <3> HIDE DEF k
    <3>3. QED
      BY <1>2, <3>2
  <2>5. CASE ListStale(r)
    <3>1. /\ pc[r] = "list"
          /\ pc'[r] \in {"halted at reconciler", "audit", "delete"}
      BY <1>0, <2>5 DEF ListStale
    <3>2. CASE pc'[r] = "halted at reconciler"
      BY <1>3, <3>1, <3>2 DEF Done
    <3>3. CASE pc'[r] \in {"audit", "delete"}
      <4>1. /\ work(r) = 86 + k + 1
            /\ work(r)' = 86 \/ work(r)' = 86 + Cardinality(listed'[r])
        BY <1>1, <3>1, <3>3, Zenon DEF Measured, UpToAudit, WithinAudit
      <4>2. Cardinality(listed'[r]) \in 0..k
        <5>1. listed'[r] \in SUBSET Keys
          BY DEF OrderInv, TypeOK
        <5>2. QED
          BY <5>1, ListedCount
      <4> HIDE DEF k
      <4>3. QED
        BY <1>2, <4>1, <4>2
    <3>4. QED
      BY <3>1, <3>2, <3>3
  <2>6. CASE DeleteStale(r)
    <3>1. pc[r] = "delete"
      BY <2>6 DEF DeleteStale
    <3>2. PICK stale \in listed[r] :
             IF cache[stale] = NoStore
             THEN /\ goto(r, "halted at reconciler")
                  /\ UNCHANGED <<cache, listed>>
             ELSE /\ cache' = [cache EXCEPT ![stale] = NoStore]
                  /\ listed' = [listed EXCEPT ![r] = @ \ {stale}]
                  /\ goto(r, IF listed[r] = {stale} THEN "audit" ELSE "delete")
      BY <2>6 DEF DeleteStale
    <3>3. /\ IsFiniteSet(listed[r]) /\ listed[r] \ {stale} \subseteq listed[r]
          /\ stale \in listed[r]
      BY <1>0, KeysFinite
    <3>4. /\ Cardinality(listed[r]) \in Nat
          /\ Cardinality(listed[r] \ {stale}) = Cardinality(listed[r]) - 1
          /\ Cardinality(listed[r] \ {stale}) \in Nat
      BY <3>3, FS_RemoveElement, FS_CardinalityType, FS_Subset
    <3>5. CASE cache[stale] = NoStore
      <4>1. pc'[r] = "halted at reconciler"
        BY <1>0, <3>2, <3>5
      <4>2. QED
        BY <1>3, <3>1, <4>1 DEF Done
    <3>6. CASE cache[stale] # NoStore
      <4>1. /\ listed'[r] = listed[r] \ {stale}
            /\ pc'[r] = "audit" \/ pc'[r] = "delete"
        BY <1>0, <3>2, <3>6
      <4>2. /\ work(r) = 86 + Cardinality(listed[r])
            /\ \/ work(r)' = 86
               \/ work(r)' = 86 + Cardinality(listed[r] \ {stale})
        BY <1>1, <3>1, <4>1, Zenon DEF Measured, UpToAudit, WithinAudit
      <4>3. QED
        BY <3>4, <4>2
    <3>7. QED
      BY <3>5, <3>6
  <2>7. QED
    BY <1>7, <2>1, <2>2, <2>3, <2>4, <2>5, <2>6 DEF Construct
\* From check to check.
<1>8. CASE PlanAudit(r)
  <2>1. /\ pc[r] = "audit" /\ pc'[r] = "next check"
        /\ todo'[r] = selected(plan[r])
    BY <1>0, <1>8 DEF PlanAudit
  <2>2. plan[r] \in Plans
    BY <2>1, ConstantsOK DEF OrderInv, Prepared
  <2>3. Len(todo'[r]) \in 0..4
    BY <2>1, <2>2, AuditLengths
  <2>4. work(r) = 86 /\ work(r)' = 21 * Len(todo'[r]) + 1
    BY <1>1, <2>1, Zenon DEF Measured, UpToAudit, WithinAudit
  <2>5. \A n \in 0..4 : 21 * n + 1 < 86
    OBVIOUS
  <2>6. QED
    BY <2>3, <2>4, <2>5, Zenon
<1>9. CASE StartCheck(r)
  <2>1. /\ pc[r] = "next check" /\ pc'[r] = "scalar" /\ todo[r] # <<>>
        /\ todo'[r] = todo[r]
        /\ left'[r] \in scalarCalls(Head(todo[r]), plan[r])
    BY <1>0, <1>9 DEF StartCheck
  <2>2. plan[r] \in Plans /\ Head(todo[r]) \in Checks
    BY <2>1, ConstantsOK, TodoType DEF OrderInv, Prepared
  <2>3. Len(left'[r]) \in 0..3
    BY <2>1, <2>2, AuditLengths
  <2>4. Len(todo[r]) \in Nat
    BY <1>1 DEF Measured
  <2>5. /\ work(r) = 21 * Len(todo[r]) + 1
        /\ work(r)' = 21 * (Len(todo[r]) - 1) + 6 * Len(left'[r]) + 3
    BY <1>1, <2>1, Zenon DEF Measured, UpToAudit, WithinAudit
  <2>6. \A n \in Nat : \A m \in 0..3 :
           21 * (n - 1) + 6 * m + 3 < 21 * n + 1
    OBVIOUS
  <2>7. QED
    BY <2>3, <2>4, <2>5, <2>6, Zenon
<1>10. CASE ConcludeCheck(r)
  <2>1. /\ pc[r] = "scalar" /\ pc'[r] = "next check" /\ left[r] = <<>>
        /\ todo'[r] = Tail(todo[r])
    BY <1>0, <1>10 DEF ConcludeCheck, reports
  <2>2. todo[r] # <<>> /\ Len(<<>>) = 0
    BY <2>1 DEF OrderInv, Prepared
  <2>3. Len(todo'[r]) = Len(todo[r]) - 1 /\ Len(todo[r]) \in Nat /\ Len(left[r]) = 0
    <3>1. Len(left[r]) = 0
      BY <2>1, <2>2, Zenon
    <3>2. Len(Tail(todo[r])) = Len(todo[r]) - 1
      BY <1>0, <2>2, OneShorter
    <3>3. QED
      BY <1>1, <2>1, <3>1, <3>2, Zenon DEF Measured, UpToAudit, WithinAudit
  <2>4. /\ work(r) = 21 * (Len(todo[r]) - 1) + 6 * Len(left[r]) + 3
        /\ work(r)' = 21 * Len(todo'[r]) + 1
    BY <1>1, <2>1, Zenon DEF Measured, UpToAudit, WithinAudit
  <2>5. \A n \in Nat : 21 * (n - 1) + 1 < 21 * (n - 1) + 6 * 0 + 3
    OBVIOUS
  <2>6. QED
    BY <2>3, <2>4, <2>5, Zenon
<1>11. CASE FigureIsNone(r)
  <2>1. /\ pc[r] = "scalar" /\ pc'[r] = "raised"
        /\ UNCHANGED <<todo, left>>
    BY <1>0, <1>11 DEF FigureIsNone
  <2>2. Len(todo[r]) \in Nat /\ Len(left[r]) \in Nat
    BY <1>1 DEF Measured
  <2>3. /\ work(r) = 21 * (Len(todo[r]) - 1) + 6 * Len(left[r]) + 3
        /\ work(r)' = 21 * (Len(todo[r]) - 1) + 2
    BY <1>1, <2>1, Zenon DEF Measured, UpToAudit, WithinAudit
  <2>4. \A n, m \in Nat : 21 * (n - 1) + 2 < 21 * (n - 1) + 6 * m + 3
    OBVIOUS
  <2>5. QED
    BY <2>2, <2>3, <2>4, Zenon
<1>12. CASE CatchCheck(r)
  <2>1. pc[r] = "raised" /\ pc'[r] = "next check" /\ todo'[r] = Tail(todo[r])
    BY <1>0, <1>12 DEF CatchCheck, reports
  <2>2. todo[r] # <<>>
    BY <2>1 DEF OrderInv, Prepared
  <2>3. Len(todo'[r]) = Len(todo[r]) - 1 /\ Len(todo[r]) \in Nat
    BY <1>0, <1>1, <2>1, <2>2, OneShorter DEF Measured
  <2>4. work(r) = 21 * (Len(todo[r]) - 1) + 2 /\ work(r)' = 21 * Len(todo'[r]) + 1
    BY <1>1, <2>1, Zenon DEF Measured, UpToAudit, WithinAudit
  <2>5. \A n \in Nat : 21 * (n - 1) + 1 < 21 * (n - 1) + 2
    OBVIOUS
  <2>6. QED
    BY <2>3, <2>4, <2>5, Zenon
<1>13. CASE Close(r)
  <2>1. pc[r] = "next check" /\ pc'[r] = "answered"
    BY <1>0, <1>13 DEF Close
  <2>2. Len(todo[r]) \in Nat
    BY <1>1 DEF Measured
  <2>3. work(r) = 21 * Len(todo[r]) + 1 /\ work(r)' = 0
    BY <1>1, <2>1, Zenon DEF Measured, UpToAudit, WithinAudit, Done
  <2>4. \A n \in Nat : 0 < 21 * n + 1
    OBVIOUS
  <2>5. QED
    BY <2>2, <2>3, <2>4, Zenon
\* From call to call.
<1>14. CASE Scalar(r) /\ UNCHANGED askVars
  <2> DEFINE t == Len(todo[r])
             l == Len(left[r])
  <2>1. t \in Nat /\ l \in Nat /\ todo' = todo
    BY <1>1, <1>14 DEF Measured
  \* An exception ends the check ...
  <2>2. ASSUME pc[r] \in Calling, pc'[r] = "raised"
        PROVE  work(r)' < work(r)
    <3>1. l >= 1
      BY <1>1, <2>2 DEF Measured
    <3>2. work(r)' = 21 * (t - 1) + 2
      BY <1>1, <2>1, <2>2, Zenon DEF Measured, UpToAudit, WithinAudit
    <3>3. CASE pc[r] \in {"hit", "remember"}
      <4>1. work(r) = 21 * (t - 1) + 6 * l - 2
        BY <1>1, <3>3, Zenon DEF Measured, UpToAudit, WithinAudit
      <4>2. QED
        BY <2>1, <3>1, <3>2, <4>1, DropsInAudit, Zenon
    <3>4. CASE pc[r] \in {"evict", "pop"}
      <4>1. \/ work(r) = 21 * (t - 1) + 6 * l
            \/ work(r) = 21 * (t - 1) + 6 * l - 1
        BY <1>1, <3>4, Zenon DEF Measured, UpToAudit, WithinAudit
      <4>2. QED
        BY <2>1, <3>1, <3>2, <4>1, DropsInAudit, Zenon
    <3>5. CASE pc[r] = "miss"
      <4>1. \/ work(r) = 21 * (t - 1) + 6 * l + 2
            \/ work(r) = 21 * (t - 1) + 6 * l + 1
        BY <1>1, <3>5, Zenon DEF Measured, UpToAudit, WithinAudit
      <4>2. QED
        BY <2>1, <3>1, <3>2, <4>1, DropsInAudit, Zenon
    <3>6. QED
      BY <2>2, <3>3, <3>4, <3>5 DEF Calling
  \* ... a figure ends the call ...
  <2>3. ASSUME NEW s, returns(r, s), pc[r] \in {"hit", "remember"}
        PROVE  work(r)' < work(r)
    <3>1. pc'[r] = "scalar" /\ left'[r] = Tail(left[r]) /\ left[r] # <<>>
      BY <1>0, <2>3 DEF returns, OrderInv, Prepared, Calling
    <3>2. Len(left'[r]) = l - 1
      BY <1>0, <3>1, OneShorter
    <3>3. work(r)' = 21 * (t - 1) + 6 * (l - 1) + 3
      BY <1>1, <2>1, <3>1, <3>2, Zenon DEF Measured, UpToAudit, WithinAudit
    <3>4. work(r) = 21 * (t - 1) + 6 * l - 2
      BY <1>1, <2>3, Zenon DEF Measured, UpToAudit, WithinAudit
    <3>5. QED
      BY <2>1, <3>3, <3>4, DropsInAudit, Zenon
  \* ... and every operation before that leaves one less to do.
  <2>4. CASE Lookup(r)
    <3>1. /\ pc[r] = "scalar" /\ left' = left
          /\ pc'[r] = "hit" \/ pc'[r] = "miss"
      BY <1>0, <2>4 DEF Lookup
    <3>2. /\ work(r) = 21 * (t - 1) + 6 * l + 3
          /\ \/ work(r)' = 21 * (t - 1) + 6 * l - 2
             \/ work(r)' = 21 * (t - 1) + 6 * l + 2
             \/ work(r)' = 21 * (t - 1) + 6 * l + 1
      BY <1>1, <2>1, <3>1, Zenon DEF Measured, UpToAudit, WithinAudit
    <3>3. QED
      BY <2>1, <3>2, DropsInAudit, Zenon
  <2>5. CASE Hit(r)
    <3>1. CASE store[ref[r]][sql(r)] # Absent
      BY <2>3, <2>5, <3>1 DEF Hit
    <3>2. CASE store[ref[r]][sql(r)] = Absent
      <4>1. pc[r] \in Calling /\ pc'[r] = "raised"
        BY <1>0, <2>5, <3>2 DEF Hit, Calling
      <4>2. QED
        BY <2>2, <4>1
    <3>3. QED
      BY <3>1, <3>2
  <2>6. CASE Open(r)
    <3>1. CASE connectable = {}
      <4>1. pc[r] \in Calling /\ pc'[r] = "raised"
        BY <1>0, <2>6, <3>1 DEF Open, Calling
      <4>2. QED
        BY <2>2, <4>1
    <3>2. CASE connectable # {}
      <4>1. PICK s \in connectable : con' = [con EXCEPT ![r] = s]
        BY <2>6, <3>2 DEF Open
      <4>2. s # Closed
        BY ConnectableType DEF Stamps, Closed
      <4>3. /\ pc[r] = "miss" /\ con[r] = Closed /\ left' = left
            /\ pc'[r] = "miss" /\ con'[r] # Closed
        BY <1>0, <2>6, <3>2, <4>1, <4>2 DEF Open
      <4>4. work(r) = 21 * (t - 1) + 6 * l + 2 /\ work(r)' = 21 * (t - 1) + 6 * l + 1
        BY <1>1, <2>1, <4>3, Zenon DEF Measured, UpToAudit, WithinAudit
      <4>5. QED
        BY <2>1, <4>4, DropsInAudit, Zenon
    <3>3. QED
      BY <3>1, <3>2
  <2>7. CASE Fetch(r)
    <3>1. /\ pc[r] = "miss" /\ con[r] # Closed /\ left' = left
          /\ pc'[r] \in {"evict", "remember", "raised"}
      BY <1>0, <2>7 DEF Fetch
    <3>2. CASE pc'[r] = "raised"
      BY <2>2, <3>1, <3>2 DEF Calling
    <3>3. CASE pc'[r] # "raised"
      <4>1. /\ work(r) = 21 * (t - 1) + 6 * l + 1
            /\ \/ work(r)' = 21 * (t - 1) + 6 * l
               \/ work(r)' = 21 * (t - 1) + 6 * l - 2
        BY <1>1, <2>1, <3>1, <3>3, Zenon DEF Measured, UpToAudit, WithinAudit
      <4>2. QED
        BY <2>1, <4>1, DropsInAudit, Zenon
    <3>4. QED
      BY <3>2, <3>3
  <2>8. CASE PickVictim(r)
    <3>1. /\ pc[r] = "evict" /\ left' = left
          /\ pc'[r] \in {"pop", "raised"}
      BY <1>0, <2>8 DEF PickVictim
    <3>2. CASE pc'[r] = "raised"
      BY <2>2, <3>1, <3>2 DEF Calling
    <3>3. CASE pc'[r] # "raised"
      <4>1. /\ work(r) = 21 * (t - 1) + 6 * l
            /\ work(r)' = 21 * (t - 1) + 6 * l - 1
        BY <1>1, <2>1, <3>1, <3>3, Zenon DEF Measured, UpToAudit, WithinAudit
      <4>2. QED
        BY <2>1, <4>1, DropsInAudit, Zenon
    <3>4. QED
      BY <3>2, <3>3
  <2>9. CASE PopVictim(r)
    <3>1. /\ pc[r] = "pop" /\ left' = left
          /\ pc'[r] \in {"remember", "raised"}
      BY <1>0, <2>9 DEF PopVictim
    <3>2. CASE pc'[r] = "raised"
      BY <2>2, <3>1, <3>2 DEF Calling
    <3>3. CASE pc'[r] # "raised"
      <4>1. /\ work(r) = 21 * (t - 1) + 6 * l - 1
            /\ work(r)' = 21 * (t - 1) + 6 * l - 2
        BY <1>1, <2>1, <3>1, <3>3, Zenon DEF Measured, UpToAudit, WithinAudit
      <4>2. QED
        BY <2>1, <4>1, DropsInAudit, Zenon
    <3>4. QED
      BY <3>2, <3>3
  <2>10. CASE Remember(r)
    BY <2>3, <2>10 DEF Remember
  <2>11. QED
    BY <1>14, <2>4, <2>5, <2>6, <2>7, <2>8, <2>9, <2>10 DEF Scalar
<1>15. QED
  BY <1>4, <1>5, <1>6, <1>7, <1>8, <1>9, <1>10, <1>11, <1>12, <1>13,
     <1>14
     DEF RequestStep, Audit

\* The measure looks at nothing that the builder or forget_all touches.
LEMMA NoRequestMoves ==
    ASSUME Rebuild \/ Forget \/ UNCHANGED vars, NEW x \in Requests
    PROVE  progress(x)' = progress(x)
BY DEF Rebuild, Forget, ForgetAll, progress, vars, baselinesVars, askVars

\* memory.py takes no lock and needs none for a request to finish: for any
\* number of threads, plans, entries and rebuilds, a request has at most work(r)
\* steps of its own to take, each of them leaves fewer, and no step of another
\* thread, of the builder or of forget_all adds one.
THEOREM RequestsRunOut == Spec => StepsRunOut
<1>1. ASSUME OrderInv, MeasureInv, OrderInv', MeasureInv', Next,
             NEW r \in Requests
      PROVE  /\ work(r)' \in 0..work(r)
             /\ RequestStep(r) => work(r)' < work(r)
  <2>1. work(r) \in Nat /\ work(r)' \in Nat
    BY <1>1 DEF MeasureInv, Measured
  <2>2. CASE RequestStep(r)
    BY <1>1, <2>1, <2>2, WorkDrops
  <2>3. CASE ~RequestStep(r)
    <3>1. progress(r)' = progress(r)
      <4>1. CASE \E other \in Requests : RequestStep(other)
        BY <1>1, <2>3, <4>1, OthersWait
      <4>2. CASE Rebuild \/ Forget \/ Finished
        BY <4>2, NoRequestMoves DEF Finished
      <4>3. QED
        BY <1>1, <4>1, <4>2 DEF Next
    <3>2. work(r)' = work(r)
      BY <3>1, WorkKept
    <3>3. QED
      BY <2>1, <2>3, <3>2
  <2>4. QED
    BY <2>2, <2>3
<1>2. OrderInv /\ OrderInv' /\ Next =>
        \A r \in Requests : /\ work(r)' \in 0..work(r)
                            /\ RequestStep(r) => work(r)' < work(r)
  <2>1. OrderInv' => MeasureInv'
    BY MeasureHolds, PTL
  <2>2. QED
    BY <1>1, <2>1, MeasureHolds
<1>3. OrderInv /\ OrderInv' /\ [Next]_vars =>
        [\A r \in Requests : /\ work(r)' \in 0..work(r)
                             /\ RequestStep(r) => work(r)' < work(r)]_vars
  BY <1>2
<1>4. QED
  BY <1>3, OrderHolds, PTL DEF Spec, StepsRunOut
=============================================================================
