---------------------------- MODULE AskProofs ------------------------------
(***************************************************************************)
(* Proofs about AskService for any number of requests, rebuilds, cache     *)
(* entries and plans.                                                      *)
(*                                                                         *)
(* OrderStep shows OrderInv inductive, one step per action, each typing    *)
(* only what the action changes and arguing about its own thread alone     *)
(* (OthersKeep settles the others).  FreshStep does the same for FreshInv  *)
(* over the steps with the history of joins, on top of OrderInv.  The      *)
(* theorems at the end follow from the two.                                *)
(***************************************************************************)
EXTENDS AskHistory, TLAPS

USE DEF Absent, Closed, NotTaken, NoFrame, MissingKey, Stamps, Keys

\* The assumptions on the constants, under one name.
LEMMA ConstantsOK ==
    /\ MaxStamp \in Nat
    /\ NoStore \notin Requests
    /\ AskedPlans \subseteq Plans
BY MaxStampAssumption, BaselinesAssumption, AskServiceAssumption

\* AuditPlanner.plan selects only checks that run for the plan.
LEMMA SelectedType ==
    ASSUME NEW p \in Plans
    PROVE  /\ selected(p) \in Seq(Checks)
           /\ \A i \in DOMAIN selected(p) : runs(selected(p)[i], p)
<1> DEFINE a == OnlyIf(runs("population", p), "population")
           b == OnlyIf(runs("null_metric", p), "null_metric")
           c == OnlyIf(runs("join_integrity", p), "join_integrity")
           d == OnlyIf(runs("continuity", p), "continuity")
           Good(s) == s \in Seq(Checks) /\ \A i \in DOMAIN s : runs(s[i], p)
<1>1. Good(a) /\ Good(b) /\ Good(c) /\ Good(d)
  <2>1. ASSUME NEW check \in Checks
        PROVE  Good(OnlyIf(runs(check, p), check))
    <3>1. CASE runs(check, p)
      BY <3>1 DEF OnlyIf
    <3>2. CASE ~runs(check, p)
      BY <3>2 DEF OnlyIf
    <3> QED
      BY <3>1, <3>2
  <2> QED
    BY <2>1 DEF Checks
<1>2. ASSUME NEW s, NEW t, Good(s), Good(t)
      PROVE  Good(s \o t)
  BY <1>2
<1> HIDE DEF a, b, c, d, Good
<1>3. Good(((a \o b) \o c) \o d)
  BY <1>1, <1>2
<1>4. QED
  BY <1>3 DEF selected, Good, a, b, c, d

\* A check that runs for a plan asks for known figures only: above all, a
\* population check never meets a plan without a dimension.
LEMMA CallsType ==
    ASSUME NEW check \in Checks, NEW p \in Plans, runs(check, p)
    PROVE  scalarCalls(check, p) \subseteq Seq(Sqls)
<1>1. p.metric \in Metrics /\ p.dimension \in Dimensions \cup {NoDimension}
  BY DEF Plans
<1>2. CASE check = "population"
  <2>1. p.metric \in ADDITIVE_METRICS /\ p.dimension \in Dimensions
    BY <1>1, <1>2 DEF runs, declines
  <2>2. /\ POPULATION_SQL[p.metric] \in Sqls
        /\ MEMBER_SOURCE[p.dimension] \in Sqls
    BY <2>1 DEF ADDITIVE_METRICS, Dimensions, POPULATION_SQL, MEMBER_SOURCE,
       Sqls
  <2>3. scalarCalls(check, p) =
           {<<POPULATION_SQL[p.metric], MEMBER_SOURCE[p.dimension]>>}
    BY <1>2 DEF scalarCalls
  <2>4. QED
    BY <2>2, <2>3
<1>3. CASE check = "null_metric"
  <2>1. {"fact_rows", "null_rows", "revenue_total"} \subseteq Sqls
    BY DEF Sqls
  <2>2. \A c \in scalarCalls(check, p) :
           \/ c = <<"fact_rows", "null_rows">>
           \/ c = <<"fact_rows", "null_rows", "revenue_total">>
    BY <1>3 DEF scalarCalls
  <2>3. \A a, b, c \in Sqls : <<a, b>> \in Seq(Sqls) /\ <<a, b, c>> \in Seq(Sqls)
    OBVIOUS
  <2>4. QED
    BY <2>1, <2>2, <2>3
<1>4. CASE check = "join_integrity"
  BY <1>4 DEF scalarCalls, Sqls
<1>5. CASE check = "continuity"
  BY <1>5 DEF scalarCalls, Sqls
<1>6. QED
  BY <1>2, <1>3, <1>4, <1>5 DEF Checks

---------------------------------------------------------------------------
\* The program starts with nobody ahead of its data.
LEMMA OrderInit == Init => OrderInv
BY ConstantsOK DEF Init, OrderInv, TypeOK, WarehouseTypeOK, StampsLast,
   Prepared, InOrder, WarehouseInit, BaselinesInit, Labels, Done, TableCount,
   BeforeKey, BeforeStore, Auditing, Constructing, Calling

\* All that OrderInv says of one thread.
mine(x) == <<pc[x], plan[x], todo[x], left[x], con[x], victim[x], key[x],
             ref[x], figures[x], connections[x]>>

\* A thread whose own variables a step leaves alone stays in order.
LEMMA OthersKeep ==
    ASSUME NEW x \in Requests, mine(x)' = mine(x), Prepared(x), InOrder(x)
    PROVE  Prepared(x)' /\ InOrder(x)'
BY DEF mine, Prepared, InOrder

\* A thread that goes on constructing, or ends to audit or to fail, and keeps
\* what it has, stays in order.
LEMMA StaysConstructing ==
    ASSUME NEW r \in Requests, InOrder(r),
           pc[r] \in Constructing \ {"setdefault"},
           pc'[r] \in (Constructing \ {"setdefault"})
                        \cup {"audit", "halted at reconciler"},
           con'[r] = con[r], key'[r] = key[r], ref'[r] = ref[r],
           figures'[r] = figures[r], connections'[r] = connections[r]
    PROVE  InOrder(r)'
<1>1. /\ pc[r] \notin BeforeStore \cup Auditing \cup {"query", "answered"}
      /\ pc'[r] \notin BeforeStore
  BY DEF BeforeKey, BeforeStore, Constructing, Auditing
<1>2. /\ key[r] # NotTaken /\ ref[r] # NoStore
      /\ con[r] = Closed /\ connections[r] = 0
  BY <1>1 DEF InOrder, BeforeStore
<1>3. QED
  BY <1>1, <1>2 DEF InOrder, BeforeStore

\* So does a thread that goes on auditing, whatever figures it gets.
LEMMA StaysAuditing ==
    ASSUME NEW r \in Requests, InOrder(r),
           pc[r] \in Auditing, pc'[r] \in Auditing,
           con'[r] = con[r], key'[r] = key[r], ref'[r] = ref[r],
           connections'[r] = connections[r]
    PROVE  InOrder(r)'
<1>1. pc[r] \notin BeforeStore /\ pc'[r] \notin BeforeStore
  BY DEF BeforeKey, BeforeStore, Auditing
<1>2. pc[r] # "answered" /\ pc'[r] # "answered"
  BY DEF Auditing
<1>3. key[r] # NotTaken /\ ref[r] # NoStore
  BY <1>1 DEF InOrder, BeforeStore
<1>4. QED
  BY <1>1, <1>2, <1>3 DEF InOrder, BeforeStore

\* A connect opens some version of the file.
LEMMA ConnectableType ==
    ASSUME OrderInv
    PROVE  connectable \subseteq Stamps
<1>1. OpenStamps \subseteq Stamps
  BY DEF OrderInv, TypeOK, OpenStamps
<1>2. stamp \in Stamps
  BY DEF OrderInv, TypeOK, WarehouseTypeOK
<1>3. QED
  BY <1>1, <1>2 DEF connectable

\* A thread may go to any program point.
LEMMA GotoType ==
    ASSUME OrderInv, NEW r \in Requests, \E label \in Labels : goto(r, label)
    PROVE  pc' \in [Requests -> Labels]
<1>1. PICK label \in Labels : pc' = [pc EXCEPT ![r] = label]
  BY DEF goto
<1>2. pc \in [Requests -> Labels]
  BY DEF OrderInv, TypeOK
<1>3. QED
  BY <1>1, <1>2

\* The next scalar() call, where there is one.
LEMMA SqlType ==
    ASSUME OrderInv, NEW r \in Requests, left[r] # <<>>
    PROVE  sql(r) \in Sqls /\ Tail(left[r]) \in Seq(Sqls)
<1>1. left[r] \in Seq(Sqls)
  BY DEF OrderInv, TypeOK
<1>2. QED
  BY <1>1 DEF sql

\* Past setdefault an audit has an inner dictionary.
LEMMA RefType ==
    ASSUME OrderInv, NEW r \in Requests, pc[r] \notin BeforeStore
    PROVE  ref[r] \in Requests
BY DEF OrderInv, TypeOK, InOrder

\* The current check, where there is one, runs for the plan.
LEMMA TodoType ==
    ASSUME OrderInv, NEW r \in Requests, todo[r] # <<>>
    PROVE  /\ Head(todo[r]) \in Checks
           /\ runs(Head(todo[r]), plan[r])
           /\ Tail(todo[r]) \in Seq(Checks)
           /\ \A i \in DOMAIN Tail(todo[r]) : runs(Tail(todo[r])[i], plan[r])
<1>1. todo[r] \in Seq(Checks)
  BY DEF OrderInv, TypeOK
<1>2. \A i \in DOMAIN todo[r] : runs(todo[r][i], plan[r])
  BY DEF OrderInv, Prepared
<1>3. /\ Head(todo[r]) = todo[r][1]
      /\ 1 \in DOMAIN todo[r]
      /\ \A i \in DOMAIN Tail(todo[r]) :
            i + 1 \in DOMAIN todo[r] /\ Tail(todo[r])[i] = todo[r][i + 1]
  BY <1>1
<1>4. QED
  BY <1>1, <1>2, <1>3

\* Appending keeps the type of a sequence.
LEMMA AppendType ==
    ASSUME NEW S, NEW s \in Seq(S), NEW e \in S
    PROVE  Append(s, e) \in Seq(S)
OBVIOUS

\* Only what a step changes has to be typed again.
LEMMA OrderStep == OrderInv /\ [Next]_vars => OrderInv'
<1> SUFFICES ASSUME OrderInv, [Next]_vars
             PROVE  OrderInv'
  OBVIOUS
<1> USE ConstantsOK DEF goto, warehouseVars, baselinesVars, askVars
<1>1. ASSUME NEW r \in Requests, Ask(r)
      PROVE  OrderInv'
  <2>1. pc' \in [Requests -> Labels]
    <3>1. \E label \in Labels : goto(r, label)
      BY <1>1 DEF Ask, Labels, Constructing, Auditing, Done
    <3>2. QED
      BY <3>1, GotoType
  <2>2. plan' \in [Requests -> AskedPlans \cup {NotAsked}]
    BY <1>1 DEF Ask, OrderInv, TypeOK
  <2>3. TypeOK' /\ StampsLast'
    BY <1>1, <2>1, <2>2 DEF Ask, OrderInv, TypeOK, WarehouseTypeOK, StampsLast
  <2>4. \A x \in Requests \ {r} : mine(x)' = mine(x)
    BY <1>1 DEF Ask, OrderInv, TypeOK, mine
  <2>5. Prepared(r)'
    BY <1>1 DEF Ask, OrderInv, TypeOK, Prepared, Calling
  <2>6. InOrder(r)'
    BY <1>1 DEF Ask, OrderInv, TypeOK, Prepared, InOrder, BeforeKey,
       BeforeStore, Auditing, Calling, Constructing
  <2>7. QED
    BY <2>3, <2>4, <2>5, <2>6, OthersKeep DEF OrderInv
<1>2. ASSUME NEW r \in Requests, Connect(r)
      PROVE  OrderInv'
  <2>1. pc' \in [Requests -> Labels]
    <3>1. {"query", "halted at executor"} \subseteq Labels
      BY DEF Labels, Done
    <3>2. \E label \in {"query", "halted at executor"} : goto(r, label)
      BY <1>2 DEF Connect
    <3>3. QED
      BY <3>1, <3>2, GotoType
  <2>2. con' \in [Requests -> Stamps \cup {Closed}]
    <3>1. con' = con \/ \E s \in Stamps : con' = [con EXCEPT ![r] = s]
      BY <1>2, ConnectableType DEF Connect
    <3>2. QED
      BY <3>1 DEF OrderInv, TypeOK
  <2>3. TypeOK' /\ StampsLast'
    BY <1>2, <2>1, <2>2 DEF Connect, OrderInv, TypeOK, WarehouseTypeOK,
       StampsLast
  <2>4. \A x \in Requests \ {r} : mine(x)' = mine(x)
    BY <1>2 DEF Connect, OrderInv, TypeOK, mine
  <2>5. Prepared(r)'
    <3>1. pc'[r] = "query" => con'[r] # Closed
      <4>1. \/ \E s \in Stamps : con' = [con EXCEPT ![r] = s]
            \/ pc' = [pc EXCEPT ![r] = "halted at executor"]
        BY <1>2, ConnectableType DEF Connect
      <4>2. r \in DOMAIN con /\ r \in DOMAIN pc
        BY DEF OrderInv, TypeOK
      <4>3. CASE \E s \in Stamps : con' = [con EXCEPT ![r] = s]
        BY <4>2, <4>3
      <4>4. CASE pc' = [pc EXCEPT ![r] = "halted at executor"]
        BY <4>2, <4>4
      <4>5. QED
        BY <4>1, <4>3, <4>4
    <3>2. todo'[r] = todo[r] /\ plan'[r] = plan[r]
      BY <1>2 DEF Connect
    <3>3. pc'[r] \in {"query", "halted at executor"}
      BY <1>2 DEF Connect, OrderInv, TypeOK
    <3>4. Prepared(r) /\ pc[r] = "execute"
      BY <1>2 DEF Connect, OrderInv
    <3>5. QED
      BY <3>1, <3>2, <3>3, <3>4 DEF Prepared, Calling
  <2>6. InOrder(r)'
    BY <1>2 DEF Connect, OrderInv, TypeOK, Prepared, InOrder, BeforeKey,
       BeforeStore, Auditing, Calling, Constructing
  <2>7. QED
    BY <2>3, <2>4, <2>5, <2>6, OthersKeep DEF OrderInv
<1>3. ASSUME NEW r \in Requests, Query(r)
      PROVE  OrderInv'
  <2>1. pc' \in [Requests -> Labels]
    <3>1. {"fingerprint", "halted at executor"} \subseteq Labels
      BY DEF Labels, Done
    <3>2. \E label \in {"fingerprint", "halted at executor"} : goto(r, label)
      BY <1>3 DEF Query
    <3>3. QED
      BY <3>1, <3>2, GotoType
  <2>2. con' \in [Requests -> Stamps \cup {Closed}]
    BY <1>3 DEF Query, OrderInv, TypeOK
  <2>3. frame' \in [Requests -> Stamps \cup {NoFrame}]
    <3>1. con[r] \in Stamps
      BY <1>3 DEF Query, OrderInv, TypeOK, Prepared
    <3>2. QED
      BY <1>3, <3>1 DEF Query, OrderInv, TypeOK
  <2>4. TypeOK' /\ StampsLast'
    BY <1>3, <2>1, <2>2, <2>3 DEF Query, OrderInv, TypeOK, WarehouseTypeOK,
       StampsLast
  <2>5. \A x \in Requests \ {r} : mine(x)' = mine(x)
    BY <1>3 DEF Query, OrderInv, TypeOK, mine
  <2>6. Prepared(r)'
    BY <1>3 DEF Query, OrderInv, TypeOK, Prepared, Calling
  <2>7. InOrder(r)'
    BY <1>3 DEF Query, OrderInv, TypeOK, Prepared, InOrder, BeforeKey,
       BeforeStore, Auditing, Calling, Constructing
  <2>8. QED
    BY <2>4, <2>5, <2>6, <2>7, OthersKeep DEF OrderInv
<1>4. ASSUME NEW r \in Requests, TakeFingerprint(r), UNCHANGED askVars
      PROVE  OrderInv'
  <2>1. pc' \in [Requests -> Labels]
    <3>1. \E label \in Labels : goto(r, label)
      BY <1>4 DEF TakeFingerprint, Labels, Constructing, Auditing, Done
    <3>2. QED
      BY <3>1, GotoType
  <2>2. key' \in [Requests -> Keys \cup {NotTaken}]
    BY <1>4 DEF TakeFingerprint, fingerprint, OrderInv, TypeOK, WarehouseTypeOK
  <2>3. TypeOK' /\ StampsLast'
    BY <1>4, <2>1, <2>2 DEF TakeFingerprint, OrderInv, TypeOK, WarehouseTypeOK,
       StampsLast
  <2>4. \A x \in Requests \ {r} : mine(x)' = mine(x)
    BY <1>4 DEF TakeFingerprint, OrderInv, TypeOK, mine
  <2>5. Prepared(r)'
    BY <1>4 DEF TakeFingerprint, OrderInv, TypeOK, Prepared, Calling
  <2>6. InOrder(r)'
    <3>1. key'[r] \in Keys
      BY <1>4 DEF TakeFingerprint, fingerprint, OrderInv, TypeOK,
         WarehouseTypeOK
    <3>2. InOrder(r) /\ pc'[r] = "setdefault"
      BY <1>4 DEF TakeFingerprint, OrderInv, TypeOK
    <3>3. UNCHANGED <<ref, figures, con, connections>> /\ pc[r] = "fingerprint"
      BY <1>4 DEF TakeFingerprint
    <3>4. QED
      BY <3>1, <3>2, <3>3 DEF InOrder, BeforeKey, BeforeStore, Auditing
  <2>7. QED
    BY <2>3, <2>4, <2>5, <2>6, OthersKeep DEF OrderInv
<1>5. ASSUME NEW r \in Requests, SetDefault(r), UNCHANGED askVars
      PROVE  OrderInv'
  <2>0. key[r] \in Keys
    <3>1. pc[r] \notin BeforeKey
      BY <1>5 DEF SetDefault, BeforeKey
    <3>2. key[r] # NotTaken
      BY <3>1 DEF OrderInv, InOrder
    <3>3. key[r] \in Keys \cup {NotTaken}
      BY DEF OrderInv, TypeOK
    <3>4. QED
      BY <3>2, <3>3
  <2>1. pc' \in [Requests -> Labels]
    <3>1. \E label \in Labels : goto(r, label)
      BY <1>5 DEF SetDefault, Labels, Constructing, Auditing, Done
    <3>2. QED
      BY <3>1, GotoType
  <2>2. cache' \in [Keys -> Requests \cup {NoStore}]
    <3>1. key[r] \in Keys
      BY <2>0
    <3>2. cache' = cache \/ cache' = [cache EXCEPT ![key[r]] = r]
      BY <1>5 DEF SetDefault
    <3>3. cache \in [Keys -> Requests \cup {NoStore}]
      BY DEF OrderInv, TypeOK
    <3>4. QED
      BY <3>1, <3>2, <3>3
  <2>3. ref' \in [Requests -> Requests \cup {NoStore}]
    <3>1. key[r] \in Keys
      BY <2>0
    <3>2. QED
      BY <1>5, <3>1 DEF SetDefault, OrderInv, TypeOK
  <2>4. TypeOK' /\ StampsLast'
    BY <1>5, <2>1, <2>2, <2>3 DEF SetDefault, OrderInv, TypeOK,
       WarehouseTypeOK, StampsLast
  <2>5. \A x \in Requests \ {r} : mine(x)' = mine(x)
    BY <1>5 DEF SetDefault, OrderInv, TypeOK, mine
  <2>6. Prepared(r)'
    BY <1>5 DEF SetDefault, OrderInv, TypeOK, Prepared, Calling
  <2>7. InOrder(r)'
    BY <1>5 DEF SetDefault, OrderInv, TypeOK, Prepared, InOrder, BeforeKey,
       BeforeStore, Auditing, Calling, Constructing
  <2>8. QED
    BY <2>4, <2>5, <2>6, <2>7, OthersKeep DEF OrderInv
<1>6. ASSUME NEW r \in Requests, CheckLen(r), UNCHANGED askVars
      PROVE  OrderInv'
  <2>1. pc' \in [Requests -> Labels]
    <3>1. \E label \in Labels : goto(r, label)
      BY <1>6 DEF CheckLen, Labels, Constructing, Auditing, Done
    <3>2. QED
      BY <3>1, GotoType
  <2>2. TypeOK' /\ StampsLast'
    BY <1>6, <2>1 DEF CheckLen, OrderInv, TypeOK, WarehouseTypeOK, StampsLast
  <2>3. \A x \in Requests \ {r} : mine(x)' = mine(x)
    BY <1>6 DEF CheckLen, OrderInv, TypeOK, mine
  <2>4. Prepared(r)'
    BY <1>6 DEF CheckLen, OrderInv, TypeOK, Prepared, Calling
  <2>5. InOrder(r)'
    <3>1. /\ pc[r] \in Constructing \ {"setdefault"}
          /\ pc'[r] \in (Constructing \ {"setdefault"})
                           \cup {"audit", "halted at reconciler"}
      BY <1>6 DEF CheckLen, OrderInv, TypeOK, Constructing
    <3>2. UNCHANGED <<con, key, ref, figures, connections>>
      BY <1>6 DEF CheckLen
    <3>3. InOrder(r)
      BY DEF OrderInv
    <3>4. QED
      BY <3>1, <3>2, <3>3, StaysConstructing
  <2>6. QED
    BY <2>2, <2>3, <2>4, <2>5, OthersKeep DEF OrderInv
<1>7. ASSUME NEW r \in Requests, Iterate(r), UNCHANGED askVars
      PROVE  OrderInv'
  <2>1. pc' \in [Requests -> Labels]
    <3>1. \E label \in Labels : goto(r, label)
      BY <1>7 DEF Iterate, Labels, Constructing, Auditing, Done
    <3>2. QED
      BY <3>1, GotoType
  <2>2. listed' \in [Requests -> SUBSET Keys]
    BY <1>7 DEF Iterate, OrderInv, TypeOK, Cached
  <2>3. TypeOK' /\ StampsLast'
    BY <1>7, <2>1, <2>2 DEF Iterate, OrderInv, TypeOK, WarehouseTypeOK,
       StampsLast
  <2>4. \A x \in Requests \ {r} : mine(x)' = mine(x)
    BY <1>7 DEF Iterate, OrderInv, TypeOK, mine
  <2>5. Prepared(r)'
    BY <1>7 DEF Iterate, OrderInv, TypeOK, Prepared, Calling
  <2>6. InOrder(r)'
    <3>1. /\ pc[r] \in Constructing \ {"setdefault"}
          /\ pc'[r] \in (Constructing \ {"setdefault"})
                           \cup {"audit", "halted at reconciler"}
      BY <1>7 DEF Iterate, OrderInv, TypeOK, Constructing
    <3>2. UNCHANGED <<con, key, ref, figures, connections>>
      BY <1>7 DEF Iterate
    <3>3. InOrder(r)
      BY DEF OrderInv
    <3>4. QED
      BY <3>1, <3>2, <3>3, StaysConstructing
  <2>7. QED
    BY <2>3, <2>4, <2>5, <2>6, OthersKeep DEF OrderInv
<1>8. ASSUME NEW r \in Requests, ListStale(r), UNCHANGED askVars
      PROVE  OrderInv'
  <2>1. pc' \in [Requests -> Labels]
    <3>1. \E label \in Labels : goto(r, label)
      BY <1>8 DEF ListStale, Labels, Constructing, Auditing, Done
    <3>2. QED
      BY <3>1, GotoType
  <2>2. listed' \in [Requests -> SUBSET Keys]
    <3>1. listed[r] \cup Cached \subseteq Keys
      BY DEF OrderInv, TypeOK, Cached
    <3>2. listed' = listed \/ \E seen \in SUBSET (listed[r] \cup Cached) :
                                listed' = [listed EXCEPT ![r] = seen \ {key[r]}]
      BY <1>8 DEF ListStale
    <3>3. listed \in [Requests -> SUBSET Keys]
      BY DEF OrderInv, TypeOK
    <3>4. QED
      BY <3>1, <3>2, <3>3
  <2>3. TypeOK' /\ StampsLast'
    BY <1>8, <2>1, <2>2 DEF ListStale, OrderInv, TypeOK, WarehouseTypeOK,
       StampsLast
  <2>4. \A x \in Requests \ {r} : mine(x)' = mine(x)
    BY <1>8 DEF ListStale, OrderInv, TypeOK, mine
  <2>5. Prepared(r)'
    BY <1>8 DEF ListStale, OrderInv, TypeOK, Prepared, Calling
  <2>6. InOrder(r)'
    <3>1. /\ pc[r] \in Constructing \ {"setdefault"}
          /\ pc'[r] \in (Constructing \ {"setdefault"})
                           \cup {"audit", "halted at reconciler"}
      BY <1>8 DEF ListStale, OrderInv, TypeOK, Constructing
    <3>2. UNCHANGED <<con, key, ref, figures, connections>>
      BY <1>8 DEF ListStale
    <3>3. InOrder(r)
      BY DEF OrderInv
    <3>4. QED
      BY <3>1, <3>2, <3>3, StaysConstructing
  <2>7. QED
    BY <2>3, <2>4, <2>5, <2>6, OthersKeep DEF OrderInv
<1>9. ASSUME NEW r \in Requests, DeleteStale(r), UNCHANGED askVars
      PROVE  OrderInv'
  <2>1. pc' \in [Requests -> Labels]
    <3>1. \E l \in {"halted at reconciler", "audit", "delete"} :
             pc' = [pc EXCEPT ![r] = l]
      BY <1>9 DEF DeleteStale
    <3>2. {"halted at reconciler", "audit", "delete"} \subseteq Labels
      BY DEF Labels, Constructing, Auditing, Done
    <3>3. pc \in [Requests -> Labels]
      BY DEF OrderInv, TypeOK
    <3>4. QED
      BY <3>1, <3>2, <3>3
  <2>2. cache' \in [Keys -> Requests \cup {NoStore}]
    BY <1>9 DEF DeleteStale, OrderInv, TypeOK
  <2>3. listed' \in [Requests -> SUBSET Keys]
    <3>1. listed' = listed \/ \E k : listed' = [listed EXCEPT ![r] = @ \ {k}]
      BY <1>9 DEF DeleteStale
    <3>2. listed \in [Requests -> SUBSET Keys]
      BY DEF OrderInv, TypeOK
    <3>3. QED
      BY <3>1, <3>2
  <2>4. TypeOK' /\ StampsLast'
    BY <1>9, <2>1, <2>2, <2>3 DEF DeleteStale, OrderInv, TypeOK,
       WarehouseTypeOK, StampsLast
  <2>5. \A x \in Requests \ {r} : mine(x)' = mine(x)
    BY <1>9 DEF DeleteStale, OrderInv, TypeOK, mine
  <2>6. Prepared(r)'
    <3>1. pc[r] = "delete" /\ pc'[r] \in {"halted at reconciler", "audit", "delete"}
      BY <1>9 DEF DeleteStale, goto, OrderInv, TypeOK
    <3>2. UNCHANGED <<plan, todo, left, con, victim>>
      BY <1>9 DEF DeleteStale
    <3>3. Prepared(r)
      BY DEF OrderInv
    <3>4. QED
      BY <3>1, <3>2, <3>3 DEF Prepared, Calling
  <2>7. InOrder(r)'
    <3>1. /\ pc[r] \in Constructing \ {"setdefault"}
          /\ pc'[r] \in (Constructing \ {"setdefault"})
                           \cup {"audit", "halted at reconciler"}
      BY <1>9 DEF DeleteStale, OrderInv, TypeOK, Constructing
    <3>2. UNCHANGED <<con, key, ref, figures, connections>>
      BY <1>9 DEF DeleteStale
    <3>3. InOrder(r)
      BY DEF OrderInv
    <3>4. QED
      BY <3>1, <3>2, <3>3, StaysConstructing
  <2>8. QED
    BY <2>4, <2>5, <2>6, <2>7, OthersKeep DEF OrderInv
<1>10. ASSUME NEW r \in Requests, Lookup(r), UNCHANGED askVars
      PROVE  OrderInv'
  <2>1. pc' \in [Requests -> Labels]
    <3>1. \E label \in Labels : goto(r, label)
      BY <1>10 DEF Lookup, Labels, Constructing, Auditing, Done
    <3>2. QED
      BY <3>1, GotoType
  <2>2. TypeOK' /\ StampsLast'
    BY <1>10, <2>1 DEF Lookup, OrderInv, TypeOK, WarehouseTypeOK, StampsLast
  <2>3. \A x \in Requests \ {r} : mine(x)' = mine(x)
    BY <1>10 DEF Lookup, OrderInv, TypeOK, mine
  <2>4. Prepared(r)'
    BY <1>10 DEF Lookup, OrderInv, TypeOK, Prepared, Calling
  <2>5. InOrder(r)'
    <3>1. pc[r] \in Auditing /\ pc'[r] \in Auditing
      BY <1>10 DEF Lookup, OrderInv, TypeOK, Auditing
    <3>2. UNCHANGED <<con, key, ref, connections>>
      BY <1>10 DEF Lookup
    <3>3. InOrder(r)
      BY DEF OrderInv
    <3>4. QED
      BY <3>1, <3>2, <3>3, StaysAuditing
  <2>6. QED
    BY <2>2, <2>3, <2>4, <2>5, OthersKeep DEF OrderInv
<1>11. ASSUME NEW r \in Requests, Hit(r), UNCHANGED askVars
      PROVE  OrderInv'
  <2>1. pc' \in [Requests -> Labels]
    <3>1. \E label \in Labels : goto(r, label)
      BY <1>11 DEF Hit, returns, Labels, Constructing, Auditing, Done
    <3>2. QED
      BY <3>1, GotoType
  <2>2. figures' \in [Requests -> SUBSET (Sqls \X Stamps)]
    <3>1. ref[r] \in Requests /\ sql(r) \in Sqls /\ Tail(left[r]) \in Seq(Sqls)
      BY <1>11, SqlType, RefType DEF Hit, returns, BeforeStore, BeforeKey,
         OrderInv, Prepared, Calling
    <3>2. store[ref[r]][sql(r)] \in Stamps \cup {Absent}
      BY <3>1 DEF OrderInv, TypeOK
    <3>3. figures' = figures \/ \E s \in Stamps :
             figures' = [figures EXCEPT ![r] = @ \cup {<<sql(r), s>>}]
      BY <1>11, <3>2 DEF Hit, returns
    <3>4. figures \in [Requests -> SUBSET (Sqls \X Stamps)]
      BY DEF OrderInv, TypeOK
    <3>5. ASSUME NEW s \in Stamps
          PROVE  [figures EXCEPT ![r] = @ \cup {<<sql(r), s>>}]
                   \in [Requests -> SUBSET (Sqls \X Stamps)]
      BY <3>1, <3>4
    <3>6. QED
      BY <3>3, <3>4, <3>5
  <2>3. left' \in [Requests -> Seq(Sqls)]
    <3>1. ref[r] \in Requests /\ sql(r) \in Sqls /\ Tail(left[r]) \in Seq(Sqls)
      BY <1>11, SqlType, RefType DEF Hit, returns, BeforeStore, BeforeKey,
         OrderInv, Prepared, Calling
    <3>2. QED
      BY <1>11, <3>1 DEF Hit, returns, OrderInv, TypeOK
  <2>4. TypeOK' /\ StampsLast'
    BY <1>11, <2>1, <2>2, <2>3 DEF Hit, returns, OrderInv, TypeOK,
       WarehouseTypeOK, StampsLast
  <2>5. \A x \in Requests \ {r} : mine(x)' = mine(x)
    BY <1>11 DEF Hit, returns, OrderInv, TypeOK, mine
  <2>6. Prepared(r)'
    BY <1>11 DEF Hit, returns, OrderInv, TypeOK, Prepared, Calling
  <2>7. InOrder(r)'
    <3>1. pc[r] \in Auditing /\ pc'[r] \in Auditing
      BY <1>11 DEF Hit, returns, OrderInv, TypeOK, Auditing
    <3>2. UNCHANGED <<con, key, ref, connections>>
      BY <1>11 DEF Hit, returns
    <3>3. InOrder(r)
      BY DEF OrderInv
    <3>4. QED
      BY <3>1, <3>2, <3>3, StaysAuditing
  <2>8. QED
    BY <2>4, <2>5, <2>6, <2>7, OthersKeep DEF OrderInv
<1>12. ASSUME NEW r \in Requests, Open(r), UNCHANGED askVars
      PROVE  OrderInv'
  <2>1. pc' \in [Requests -> Labels]
    <3>1. pc' = pc \/ goto(r, "raised")
      BY <1>12 DEF Open
    <3>2. "raised" \in Labels
      BY DEF Labels, Auditing
    <3>3. CASE pc' = pc
      BY <3>3 DEF OrderInv, TypeOK
    <3>4. QED
      BY <3>1, <3>2, <3>3, GotoType
  <2>2. con' \in [Requests -> Stamps \cup {Closed}]
    <3>1. con' = con \/ \E s \in Stamps : con' = [con EXCEPT ![r] = s]
      BY <1>12, ConnectableType DEF Open
    <3>2. QED
      BY <3>1 DEF OrderInv, TypeOK
  <2>3. connections' \in [Requests -> Nat]
    <3>1. \E n \in {0, 1} : connections' = [connections EXCEPT ![r] = @ + n]
      BY <1>12 DEF Open, OrderInv, TypeOK
    <3>2. QED
      BY <3>1 DEF OrderInv, TypeOK
  <2>4. TypeOK' /\ StampsLast'
    BY <1>12, <2>1, <2>2, <2>3 DEF Open, OrderInv, TypeOK, WarehouseTypeOK,
       StampsLast
  <2>5. \A x \in Requests \ {r} : mine(x)' = mine(x)
    BY <1>12 DEF Open, OrderInv, TypeOK, mine
  <2>6. Prepared(r)'
    BY <1>12 DEF Open, OrderInv, TypeOK, Prepared, Calling
  <2>7. InOrder(r)'
    <3>1. InOrder(r) /\ pc[r] = "miss" /\ con[r] = Closed /\ connections[r] = 0
      BY <1>12 DEF Open, OrderInv, InOrder
    <3>2. key'[r] = key[r] /\ ref'[r] = ref[r] /\ figures'[r] = figures[r]
      BY <1>12 DEF Open
    <3>3. CASE con' = con
      <4>1. pc'[r] \in {"miss", "raised"} /\ connections'[r] \in {0, 1}
        BY <1>12, <3>1 DEF Open, OrderInv, TypeOK
      <4>2. con'[r] = Closed
        BY <3>1, <3>3
      <4>3. connections'[r] = 0
        <5>1. \/ \E s \in Stamps : con' = [con EXCEPT ![r] = s]
              \/ connections' = connections
          BY <1>12, ConnectableType DEF Open
        <5>2. r \in DOMAIN con
          BY DEF OrderInv, TypeOK
        <5>3. QED
          BY <3>1, <3>3, <5>1, <5>2
      <4>4. QED
        BY <3>1, <3>2, <4>1, <4>2, <4>3 DEF InOrder, BeforeKey, BeforeStore,
           Auditing
    <3>4. CASE con' # con
      <4>1. pc'[r] = "miss" /\ connections'[r] = 1
        BY <1>12, <3>1, <3>4 DEF Open, OrderInv, TypeOK
      <4>2. con'[r] # Closed
        BY <1>12, <3>4, ConnectableType DEF Open, OrderInv, TypeOK
      <4>3. QED
        BY <3>1, <3>2, <4>1, <4>2 DEF InOrder, BeforeKey, BeforeStore, Auditing
    <3>5. QED
      BY <3>3, <3>4
  <2>8. QED
    BY <2>4, <2>5, <2>6, <2>7, OthersKeep DEF OrderInv
<1>13. ASSUME NEW r \in Requests, Fetch(r), UNCHANGED askVars
      PROVE  OrderInv'
  <2>1. pc' \in [Requests -> Labels]
    <3>1. \E label \in Labels : goto(r, label)
      BY <1>13 DEF Fetch, Labels, Constructing, Auditing, Done
    <3>2. QED
      BY <3>1, GotoType
  <2>2. TypeOK' /\ StampsLast'
    BY <1>13, <2>1 DEF Fetch, OrderInv, TypeOK, WarehouseTypeOK, StampsLast
  <2>3. \A x \in Requests \ {r} : mine(x)' = mine(x)
    BY <1>13 DEF Fetch, OrderInv, TypeOK, mine
  <2>4. Prepared(r)'
    BY <1>13 DEF Fetch, OrderInv, TypeOK, Prepared, Calling
  <2>5. InOrder(r)'
    <3>1. pc[r] \in Auditing /\ pc'[r] \in Auditing
      BY <1>13 DEF Fetch, OrderInv, TypeOK, Auditing
    <3>2. UNCHANGED <<con, key, ref, connections>>
      BY <1>13 DEF Fetch
    <3>3. InOrder(r)
      BY DEF OrderInv
    <3>4. QED
      BY <3>1, <3>2, <3>3, StaysAuditing
  <2>6. QED
    BY <2>2, <2>3, <2>4, <2>5, OthersKeep DEF OrderInv
<1>14. ASSUME NEW r \in Requests, PickVictim(r), UNCHANGED askVars
      PROVE  OrderInv'
  <2>1. pc' \in [Requests -> Labels]
    <3>1. \E label \in Labels : goto(r, label)
      BY <1>14 DEF PickVictim, Labels, Constructing, Auditing, Done
    <3>2. QED
      BY <3>1, GotoType
  <2>2. victim' \in [Requests -> Sqls \cup {NoVictim}]
    BY <1>14 DEF PickVictim, OrderInv, TypeOK, Remembered
  <2>3. TypeOK' /\ StampsLast'
    BY <1>14, <2>1, <2>2 DEF PickVictim, OrderInv, TypeOK, WarehouseTypeOK,
       StampsLast
  <2>4. \A x \in Requests \ {r} : mine(x)' = mine(x)
    BY <1>14 DEF PickVictim, OrderInv, TypeOK, mine
  <2>5. Prepared(r)'
    BY <1>14 DEF PickVictim, OrderInv, TypeOK, Prepared, Remembered, Calling
  <2>6. InOrder(r)'
    <3>1. pc[r] \in Auditing /\ pc'[r] \in Auditing
      BY <1>14 DEF PickVictim, OrderInv, TypeOK, Auditing
    <3>2. UNCHANGED <<con, key, ref, connections>>
      BY <1>14 DEF PickVictim
    <3>3. InOrder(r)
      BY DEF OrderInv
    <3>4. QED
      BY <3>1, <3>2, <3>3, StaysAuditing
  <2>7. QED
    BY <2>3, <2>4, <2>5, <2>6, OthersKeep DEF OrderInv
<1>15. ASSUME NEW r \in Requests, PopVictim(r), UNCHANGED askVars
      PROVE  OrderInv'
  <2>1. pc' \in [Requests -> Labels]
    <3>1. \E label \in Labels : goto(r, label)
      BY <1>15 DEF PopVictim, Labels, Constructing, Auditing, Done
    <3>2. QED
      BY <3>1, GotoType
  <2>2. store' \in [Requests -> [Sqls -> Stamps \cup {Absent}]]
    <3>1. ref[r] \in Requests /\ victim[r] \in Sqls
      BY <1>15, RefType DEF PopVictim, BeforeStore, BeforeKey, OrderInv,
         Prepared
    <3>2. store' = store \/ store' = [store EXCEPT ![ref[r]][victim[r]] = Absent]
      BY <1>15 DEF PopVictim
    <3>3. store \in [Requests -> [Sqls -> Stamps \cup {Absent}]]
      BY DEF OrderInv, TypeOK
    <3>4. QED
      BY <3>1, <3>2, <3>3
  <2>3. victim' \in [Requests -> Sqls \cup {NoVictim}]
    BY <1>15 DEF PopVictim, OrderInv, TypeOK
  <2>4. TypeOK' /\ StampsLast'
    BY <1>15, <2>1, <2>2, <2>3 DEF PopVictim, OrderInv, TypeOK,
       WarehouseTypeOK, StampsLast
  <2>5. \A x \in Requests \ {r} : mine(x)' = mine(x)
    BY <1>15 DEF PopVictim, OrderInv, TypeOK, mine
  <2>6. Prepared(r)'
    BY <1>15 DEF PopVictim, OrderInv, TypeOK, Prepared, Calling
  <2>7. InOrder(r)'
    <3>1. pc[r] \in Auditing /\ pc'[r] \in Auditing
      BY <1>15 DEF PopVictim, OrderInv, TypeOK, Auditing
    <3>2. UNCHANGED <<con, key, ref, connections>>
      BY <1>15 DEF PopVictim
    <3>3. InOrder(r)
      BY DEF OrderInv
    <3>4. QED
      BY <3>1, <3>2, <3>3, StaysAuditing
  <2>8. QED
    BY <2>4, <2>5, <2>6, <2>7, OthersKeep DEF OrderInv
<1>16. ASSUME NEW r \in Requests, Remember(r), UNCHANGED askVars
      PROVE  OrderInv'
  <2>1. pc' \in [Requests -> Labels]
    <3>1. \E label \in Labels : goto(r, label)
      BY <1>16 DEF Remember, returns, Labels, Constructing, Auditing, Done
    <3>2. QED
      BY <3>1, GotoType
  <2>2. store' \in [Requests -> [Sqls -> Stamps \cup {Absent}]]
    <3>1. ref[r] \in Requests /\ sql(r) \in Sqls /\ Tail(left[r]) \in Seq(Sqls)
      BY <1>16, SqlType, RefType DEF Remember, returns, BeforeStore, BeforeKey,
         OrderInv, Prepared, Calling
    <3>2. con[r] \in Stamps
      BY <1>16 DEF Remember, returns, OrderInv, TypeOK, Prepared
    <3>3. QED
      BY <1>16, <3>1, <3>2 DEF Remember, returns, OrderInv, TypeOK
  <2>3. figures' \in [Requests -> SUBSET (Sqls \X Stamps)]
    <3>1. ref[r] \in Requests /\ sql(r) \in Sqls /\ Tail(left[r]) \in Seq(Sqls)
      BY <1>16, SqlType, RefType DEF Remember, returns, BeforeStore, BeforeKey,
         OrderInv, Prepared, Calling
    <3>2. con[r] \in Stamps
      BY <1>16 DEF Remember, returns, OrderInv, TypeOK, Prepared
    <3>3. QED
      BY <1>16, <3>1, <3>2 DEF Remember, returns, OrderInv, TypeOK
  <2>4. left' \in [Requests -> Seq(Sqls)]
    <3>1. ref[r] \in Requests /\ sql(r) \in Sqls /\ Tail(left[r]) \in Seq(Sqls)
      BY <1>16, SqlType, RefType DEF Remember, returns, BeforeStore, BeforeKey,
         OrderInv, Prepared, Calling
    <3>2. QED
      BY <1>16, <3>1 DEF Remember, returns, OrderInv, TypeOK
  <2>5. TypeOK' /\ StampsLast'
    BY <1>16, <2>1, <2>2, <2>3, <2>4 DEF Remember, returns, OrderInv, TypeOK,
       WarehouseTypeOK, StampsLast
  <2>6. \A x \in Requests \ {r} : mine(x)' = mine(x)
    BY <1>16 DEF Remember, returns, OrderInv, TypeOK, mine
  <2>7. Prepared(r)'
    BY <1>16 DEF Remember, returns, OrderInv, TypeOK, Prepared, Calling
  <2>8. InOrder(r)'
    <3>1. pc[r] \in Auditing /\ pc'[r] \in Auditing
      BY <1>16 DEF Remember, returns, OrderInv, TypeOK, Auditing
    <3>2. UNCHANGED <<con, key, ref, connections>>
      BY <1>16 DEF Remember, returns
    <3>3. InOrder(r)
      BY DEF OrderInv
    <3>4. QED
      BY <3>1, <3>2, <3>3, StaysAuditing
  <2>9. QED
    BY <2>5, <2>6, <2>7, <2>8, OthersKeep DEF OrderInv
<1>17. ASSUME NEW r \in Requests, PlanAudit(r)
      PROVE  OrderInv'
  <2>1. pc' \in [Requests -> Labels]
    <3>1. \E label \in Labels : goto(r, label)
      BY <1>17 DEF PlanAudit, Labels, Constructing, Auditing, Done
    <3>2. QED
      BY <3>1, GotoType
  <2>2. todo' \in [Requests -> Seq(Checks)]
    <3>1. /\ selected(plan[r]) \in Seq(Checks)
          /\ \A i \in DOMAIN selected(plan[r]) :
                runs(selected(plan[r])[i], plan[r])
      BY <1>17, SelectedType DEF PlanAudit, OrderInv, Prepared
    <3>2. QED
      BY <1>17, <3>1 DEF PlanAudit, OrderInv, TypeOK
  <2>3. TypeOK' /\ StampsLast'
    BY <1>17, <2>1, <2>2 DEF PlanAudit, OrderInv, TypeOK, WarehouseTypeOK,
       StampsLast
  <2>4. \A x \in Requests \ {r} : mine(x)' = mine(x)
    BY <1>17 DEF PlanAudit, OrderInv, TypeOK, mine
  <2>5. Prepared(r)'
    <3>1. /\ selected(plan[r]) \in Seq(Checks)
          /\ \A i \in DOMAIN selected(plan[r]) :
                runs(selected(plan[r])[i], plan[r])
      BY <1>17, SelectedType DEF PlanAudit, OrderInv, Prepared
    <3>2. QED
      BY <1>17, <3>1 DEF PlanAudit, OrderInv, TypeOK, Prepared, Calling
  <2>6. InOrder(r)'
    <3>1. pc[r] \in Auditing /\ pc'[r] \in Auditing
      BY <1>17 DEF PlanAudit, OrderInv, TypeOK, Auditing
    <3>2. UNCHANGED <<con, key, ref, connections>>
      BY <1>17 DEF PlanAudit
    <3>3. InOrder(r)
      BY DEF OrderInv
    <3>4. QED
      BY <3>1, <3>2, <3>3, StaysAuditing
  <2>7. QED
    BY <2>3, <2>4, <2>5, <2>6, OthersKeep DEF OrderInv
<1>18. ASSUME NEW r \in Requests, StartCheck(r)
      PROVE  OrderInv'
  <2>1. pc' \in [Requests -> Labels]
    <3>1. \E label \in Labels : goto(r, label)
      BY <1>18 DEF StartCheck, Labels, Constructing, Auditing, Done
    <3>2. QED
      BY <3>1, GotoType
  <2>2. left' \in [Requests -> Seq(Sqls)]
    <3>1. scalarCalls(Head(todo[r]), plan[r]) \subseteq Seq(Sqls)
      BY <1>18, TodoType, CallsType DEF StartCheck, OrderInv, Prepared
    <3>2. QED
      BY <1>18, <3>1 DEF StartCheck, OrderInv, TypeOK
  <2>3. TypeOK' /\ StampsLast'
    BY <1>18, <2>1, <2>2 DEF StartCheck, OrderInv, TypeOK, WarehouseTypeOK,
       StampsLast
  <2>4. \A x \in Requests \ {r} : mine(x)' = mine(x)
    BY <1>18 DEF StartCheck, OrderInv, TypeOK, mine
  <2>5. Prepared(r)'
    BY <1>18 DEF StartCheck, OrderInv, TypeOK, Prepared, Calling
  <2>6. InOrder(r)'
    <3>1. pc[r] \in Auditing /\ pc'[r] \in Auditing
      BY <1>18 DEF StartCheck, OrderInv, TypeOK, Auditing
    <3>2. UNCHANGED <<con, key, ref, connections>>
      BY <1>18 DEF StartCheck
    <3>3. InOrder(r)
      BY DEF OrderInv
    <3>4. QED
      BY <3>1, <3>2, <3>3, StaysAuditing
  <2>7. QED
    BY <2>3, <2>4, <2>5, <2>6, OthersKeep DEF OrderInv
<1>19. ASSUME NEW r \in Requests, ConcludeCheck(r)
      PROVE  OrderInv'
  <2>1. pc' \in [Requests -> Labels]
    <3>1. \E label \in Labels : goto(r, label)
      BY <1>19 DEF ConcludeCheck, reports, Labels, Constructing, Auditing, Done
    <3>2. QED
      BY <3>1, GotoType
  <2>2. findings' \in [Requests -> Seq([check : Checks, status : {OK, WARN}])]
    <3>1. Head(todo[r]) \in Checks
      BY <1>19, TodoType DEF ConcludeCheck, reports, OrderInv, Prepared
    <3>2. \E f \in [check : Checks, status : {OK, WARN}] :
             findings' = [findings EXCEPT ![r] = Append(@, f)]
      BY <1>19, <3>1 DEF ConcludeCheck, reports
    <3>3. findings \in [Requests -> Seq([check : Checks, status : {OK, WARN}])]
      BY DEF OrderInv, TypeOK
    <3>4. ASSUME NEW f \in [check : Checks, status : {OK, WARN}]
          PROVE  Append(findings[r], f) \in Seq([check : Checks, status : {OK,
          WARN}])
      BY <3>3, AppendType
    <3>5. QED
      BY <3>2, <3>3, <3>4
  <2>3. todo' \in [Requests -> Seq(Checks)]
    <3>1. todo[r] # <<>>
      BY <1>19 DEF ConcludeCheck, reports, OrderInv, Prepared
    <3>2. Tail(todo[r]) \in Seq(Checks)
      BY <3>1, TodoType
    <3>3. QED
      BY <1>19, <3>2 DEF ConcludeCheck, reports, OrderInv, TypeOK
  <2>4. TypeOK' /\ StampsLast'
    BY <1>19, <2>1, <2>2, <2>3 DEF ConcludeCheck, reports, OrderInv, TypeOK,
       WarehouseTypeOK, StampsLast
  <2>5. \A x \in Requests \ {r} : mine(x)' = mine(x)
    BY <1>19 DEF ConcludeCheck, reports, OrderInv, TypeOK, mine
  <2>6. Prepared(r)'
    <3>1. todo[r] # <<>>
      BY <1>19 DEF ConcludeCheck, reports, OrderInv, Prepared
    <3>2. \A i \in DOMAIN Tail(todo[r]) : runs(Tail(todo[r])[i], plan[r])
      BY <3>1, TodoType
    <3>3. QED
      BY <1>19, <3>2 DEF ConcludeCheck, reports, OrderInv, TypeOK, Prepared,
         Calling
  <2>7. InOrder(r)'
    <3>1. pc[r] \in Auditing /\ pc'[r] \in Auditing
      BY <1>19 DEF ConcludeCheck, reports, OrderInv, TypeOK, Auditing
    <3>2. UNCHANGED <<con, key, ref, connections>>
      BY <1>19 DEF ConcludeCheck, reports
    <3>3. InOrder(r)
      BY DEF OrderInv
    <3>4. QED
      BY <3>1, <3>2, <3>3, StaysAuditing
  <2>8. QED
    BY <2>4, <2>5, <2>6, <2>7, OthersKeep DEF OrderInv
<1>20. ASSUME NEW r \in Requests, CatchCheck(r)
      PROVE  OrderInv'
  <2>1. pc' \in [Requests -> Labels]
    <3>1. \E label \in Labels : goto(r, label)
      BY <1>20 DEF CatchCheck, reports, Labels, Constructing, Auditing, Done
    <3>2. QED
      BY <3>1, GotoType
  <2>2. left' \in [Requests -> Seq(Sqls)]
    <3>1. <<>> \in Seq(Sqls)
      OBVIOUS
    <3>2. QED
      BY <1>20, <3>1 DEF CatchCheck, reports, OrderInv, TypeOK
  <2>3. findings' \in [Requests -> Seq([check : Checks, status : {OK, WARN}])]
    <3>1. Head(todo[r]) \in Checks
      BY <1>20, TodoType DEF CatchCheck, reports, OrderInv, Prepared
    <3>2. \E f \in [check : Checks, status : {OK, WARN}] :
             findings' = [findings EXCEPT ![r] = Append(@, f)]
      BY <1>20, <3>1 DEF CatchCheck, reports
    <3>3. findings \in [Requests -> Seq([check : Checks, status : {OK, WARN}])]
      BY DEF OrderInv, TypeOK
    <3>4. ASSUME NEW f \in [check : Checks, status : {OK, WARN}]
          PROVE  Append(findings[r], f) \in Seq([check : Checks, status : {OK,
          WARN}])
      BY <3>3, AppendType
    <3>5. QED
      BY <3>2, <3>3, <3>4
  <2>4. todo' \in [Requests -> Seq(Checks)]
    <3>1. todo[r] # <<>>
      BY <1>20 DEF CatchCheck, reports, OrderInv, Prepared
    <3>2. Tail(todo[r]) \in Seq(Checks)
      BY <3>1, TodoType
    <3>3. QED
      BY <1>20, <3>2 DEF CatchCheck, reports, OrderInv, TypeOK
  <2>5. TypeOK' /\ StampsLast'
    BY <1>20, <2>1, <2>2, <2>3, <2>4 DEF CatchCheck, reports, OrderInv, TypeOK,
       WarehouseTypeOK, StampsLast
  <2>6. \A x \in Requests \ {r} : mine(x)' = mine(x)
    BY <1>20 DEF CatchCheck, reports, OrderInv, TypeOK, mine
  <2>7. Prepared(r)'
    <3>1. todo[r] # <<>>
      BY <1>20 DEF CatchCheck, reports, OrderInv, Prepared
    <3>2. \A i \in DOMAIN Tail(todo[r]) : runs(Tail(todo[r])[i], plan[r])
      BY <3>1, TodoType
    <3>3. QED
      BY <1>20, <3>2 DEF CatchCheck, reports, OrderInv, TypeOK, Prepared,
         Calling
  <2>8. InOrder(r)'
    <3>1. pc[r] \in Auditing /\ pc'[r] \in Auditing
      BY <1>20 DEF CatchCheck, reports, OrderInv, TypeOK, Auditing
    <3>2. UNCHANGED <<con, key, ref, connections>>
      BY <1>20 DEF CatchCheck, reports
    <3>3. InOrder(r)
      BY DEF OrderInv
    <3>4. QED
      BY <3>1, <3>2, <3>3, StaysAuditing
  <2>9. QED
    BY <2>5, <2>6, <2>7, <2>8, OthersKeep DEF OrderInv
<1>21. ASSUME NEW r \in Requests, Close(r)
      PROVE  OrderInv'
  <2>1. pc' \in [Requests -> Labels]
    <3>1. \E label \in Labels : goto(r, label)
      BY <1>21 DEF Close, Labels, Constructing, Auditing, Done
    <3>2. QED
      BY <3>1, GotoType
  <2>2. con' \in [Requests -> Stamps \cup {Closed}]
    BY <1>21 DEF Close, OrderInv, TypeOK
  <2>3. TypeOK' /\ StampsLast'
    BY <1>21, <2>1, <2>2 DEF Close, OrderInv, TypeOK, WarehouseTypeOK,
       StampsLast
  <2>4. \A x \in Requests \ {r} : mine(x)' = mine(x)
    BY <1>21 DEF Close, OrderInv, TypeOK, mine
  <2>5. Prepared(r)'
    BY <1>21 DEF Close, OrderInv, TypeOK, Prepared, Calling
  <2>6. InOrder(r)'
    BY <1>21 DEF Close, OrderInv, TypeOK, Prepared, InOrder, BeforeKey,
       BeforeStore, Auditing, Calling, Constructing
  <2>7. QED
    BY <2>3, <2>4, <2>5, <2>6, OthersKeep DEF OrderInv
<1>22. ASSUME Rebuild
       PROVE  OrderInv'
  <2>1. WarehouseTypeOK' /\ StampsLast'
    <3>1. WarehouseTypeOK /\ StampsLast
      BY DEF OrderInv, TypeOK
    <3>2. CASE Unlink
      BY <3>1, <3>2 DEF Unlink, WarehouseTypeOK, StampsLast
    <3>3. CASE Create
      BY <3>1, <3>3 DEF Create, WarehouseTypeOK, StampsLast
    <3>4. CASE CreateTable
      BY <3>1, <3>4 DEF CreateTable, WarehouseTypeOK, StampsLast, TableCount
    <3>5. CASE CloseBuild
      BY <3>1, <3>5 DEF CloseBuild, WarehouseTypeOK, StampsLast, TableCount
    <3>6. CASE CrashBuild
      BY <3>1, <3>6 DEF CrashBuild, WarehouseTypeOK, StampsLast
    <3>7. QED
      BY <1>22, <3>2, <3>3, <3>4, <3>5, <3>6 DEF Rebuild, BuilderStep
  <2>2. TypeOK'
    BY <1>22, <2>1 DEF Rebuild, OrderInv, TypeOK
  <2>3. \A x \in Requests : mine(x)' = mine(x)
    BY <1>22 DEF Rebuild, mine
  <2>4. QED
    BY <2>1, <2>2, <2>3, OthersKeep DEF OrderInv
<1>23. ASSUME Forget
       PROVE  OrderInv'
  <2>1. cache' \in [Keys -> Requests \cup {NoStore}]
    BY <1>23 DEF Forget, ForgetAll
  <2>2. TypeOK' /\ StampsLast'
    BY <1>23, <2>1 DEF Forget, ForgetAll, OrderInv, TypeOK, WarehouseTypeOK,
       StampsLast
  <2>3. \A x \in Requests : mine(x)' = mine(x)
    BY <1>23 DEF Forget, ForgetAll, mine
  <2>4. QED
    BY <2>2, <2>3, OthersKeep DEF OrderInv
<1>24. ASSUME UNCHANGED vars
       PROVE  OrderInv'
  <2>1. TypeOK' /\ StampsLast'
    BY <1>24 DEF vars, OrderInv, TypeOK, WarehouseTypeOK, StampsLast
  <2>2. \A x \in Requests : mine(x)' = mine(x)
    BY <1>24 DEF vars, mine
  <2>3. QED
    BY <2>1, <2>2, OthersKeep DEF OrderInv
<1>25. ASSUME NEW r \in Requests, FigureIsNone(r)
       PROVE  OrderInv'
  <2>1. pc' \in [Requests -> Labels]
    <3>1. \E label \in Labels : goto(r, label)
      BY <1>25 DEF FigureIsNone, Labels, Constructing, Auditing, Done
    <3>2. QED
      BY <3>1, GotoType
  <2>2. TypeOK' /\ StampsLast'
    BY <1>25, <2>1 DEF FigureIsNone, OrderInv, TypeOK, WarehouseTypeOK,
       StampsLast
  <2>3. \A x \in Requests \ {r} : mine(x)' = mine(x)
    BY <1>25 DEF FigureIsNone, OrderInv, TypeOK, mine
  <2>4. Prepared(r)'
    BY <1>25 DEF FigureIsNone, OrderInv, TypeOK, Prepared, Calling
  <2>5. InOrder(r)'
    <3>1. pc[r] \in Auditing /\ pc'[r] \in Auditing
      BY <1>25 DEF FigureIsNone, OrderInv, TypeOK, Auditing
    <3>2. UNCHANGED <<con, key, ref, connections>>
      BY <1>25 DEF FigureIsNone
    <3>3. InOrder(r)
      BY DEF OrderInv
    <3>4. QED
      BY <3>1, <3>2, <3>3, StaysAuditing
  <2>6. QED
    BY <2>2, <2>3, <2>4, <2>5, OthersKeep DEF OrderInv
<1>26. QED
  BY <1>1, <1>2, <1>3, <1>4, <1>5, <1>6, <1>7, <1>8, <1>9, <1>10, <1>11,
     <1>12, <1>13, <1>14, <1>15, <1>16, <1>17, <1>18, <1>19, <1>20, <1>21,
        <1>22, <1>23, <1>24, <1>25 DEF Next, RequestStep, Construct, Scalar,
           Audit, Finished
---------------------------------------------------------------------------
\* All that FreshInv speaks of.
freshState == <<present, stamp, key, cache, ref, store, con, figures, frame>>

\* FreshInv does not depend on anything else but joined, and only gains by
\* what is added to that.
LEMMA FreshKept ==
    ASSUME FreshInv, UNCHANGED freshState, joined \subseteq joined'
    PROVE  FreshInv'
BY DEF freshState, FreshInv, ReachedByItsKey, NothingStoredYet,
   NoFigureOlderThanItsKey, Remembered, ConnectedAfterKey,
   NothingFromTheFuture, FiguresAtLeastKey, KeyIsTheFrames, undisturbed

\* The types of those variables, apart from the rest of TypeOK.
LEMMA FreshTypes ==
    ASSUME OrderInv
    PROVE  /\ stamp \in Stamps
           /\ cache \in [Keys -> Requests \cup {NoStore}]
           /\ store \in [Requests -> [Sqls -> Stamps \cup {Absent}]]
           /\ key \in [Requests -> Keys \cup {NotTaken}]
           /\ ref \in [Requests -> Requests \cup {NoStore}]
           /\ con \in [Requests -> Stamps \cup {Closed}]
           /\ figures \in [Requests -> SUBSET (Sqls \X Stamps)]
           /\ frame \in [Requests -> Stamps \cup {NoFrame}]
BY DEF OrderInv, TypeOK, WarehouseTypeOK

\* Whatever instance a connect joins, its file is none of the future.
LEMMA OpensTheFile ==
    ASSUME OrderInv, FreshInv, NEW s \in connectable
    PROVE  s \in Stamps /\ s <= stamp
<1>1. s \in Stamps
  BY ConnectableType
<1>2. s = stamp \/ \E x \in Requests : s = con[x]
  BY DEF connectable, OpenStamps
<1>3. QED
  BY <1>1, <1>2, FreshTypes, ConstantsOK DEF FreshInv, NothingFromTheFuture

\* A join is never forgotten.
LEMMA JoinedGrows == [NotedNext]_allVars => joined \subseteq joined'
BY DEF NotedNext, Note, allVars, historyVars

\* A noted step is a step.
LEMMA NotedIsNext == [NotedNext]_allVars => [Next]_vars
BY DEF NotedNext, Next, allVars

\* A cache nobody has used is fresh.
LEMMA FreshInit == Init => FreshInv
BY ConstantsOK DEF Init, FreshInv, BaselinesInit, WarehouseInit,
   ReachedByItsKey, NothingStoredYet, NoFigureOlderThanItsKey, Remembered,
   ConnectedAfterKey, NothingFromTheFuture, FiguresAtLeastKey, KeyIsTheFrames,
   undisturbed

\* One step per action that touches freshState; under it only the conjuncts
\* of FreshInv that the action can disturb are argued.
LEMMA FreshStep ==
    ASSUME OrderInv, FreshInv, [NotedNext]_allVars
    PROVE  FreshInv'
<1> USE ConstantsOK DEF warehouseVars, baselinesVars, askVars
<1>0. joined \subseteq joined'
  BY JoinedGrows
<1> USE <1>0
<1>1. ASSUME NEW r \in Requests, Connect(r)
      PROVE  FreshInv'
  <2>1. con' = con \/ \E s \in Stamps : s <= stamp /\ con' = [con EXCEPT ![r] = s]
    BY <1>1, OpensTheFile DEF Connect
  <2>2. key[r] = NotTaken
    BY <1>1 DEF Connect, OrderInv, InOrder, BeforeKey
  <2>3. ConnectedAfterKey'
    BY <1>1, <2>1, <2>2, FreshTypes DEF Connect, FreshInv, ConnectedAfterKey
  <2>4. NothingFromTheFuture'
    <3>1. \A x \in Requests : con'[x] = con[x] \/ con'[x] <= stamp
      BY <2>1, FreshTypes
    <3>2. QED
      BY <1>1, <3>1 DEF Connect, FreshInv, NothingFromTheFuture
  <2>5. QED
    BY <1>1, <2>3, <2>4 DEF Connect, FreshInv, ReachedByItsKey,
       NothingStoredYet, NoFigureOlderThanItsKey, Remembered,
       FiguresAtLeastKey, KeyIsTheFrames, undisturbed
<1>2. ASSUME NEW r \in Requests, Query(r)
      PROVE  FreshInv'
  <2>1. con' = [con EXCEPT ![r] = Closed]
    BY <1>2 DEF Query
  <2>2. frame' = frame \/ frame' = [frame EXCEPT ![r] = con[r]]
    BY <1>2 DEF Query
  <2>3. key[r] = NotTaken
    BY <1>2 DEF Query, OrderInv, InOrder, BeforeKey
  <2>4. ConnectedAfterKey'
    BY <1>2, <2>1, FreshTypes DEF Query, FreshInv, ConnectedAfterKey
  <2>5. NothingFromTheFuture'
    <3>1. \A x \in Requests : con'[x] \in {con[x], Closed} /\ Closed <= stamp
      BY <2>1, FreshTypes
    <3>2. \A x \in Requests : frame'[x] \in {frame[x], con[x]}
      BY <2>2, FreshTypes
    <3>3. QED
      BY <1>2, <3>1, <3>2 DEF Query, FreshInv, NothingFromTheFuture
  <2>6. KeyIsTheFrames'
    BY <1>2, <2>2, <2>3, FreshTypes DEF Query, FreshInv, KeyIsTheFrames,
       undisturbed
  <2>7. QED
    BY <1>2, <2>4, <2>5, <2>6 DEF Query, FreshInv, ReachedByItsKey,
       NothingStoredYet, NoFigureOlderThanItsKey, Remembered, FiguresAtLeastKey
<1>3. ASSUME NEW r \in Requests, TakeFingerprint(r), UNCHANGED askVars
      PROVE  FreshInv'
  <2>1. /\ key' = [key EXCEPT ![r] = fingerprint]
        /\ UNCHANGED <<present, stamp, cache, store, ref, con, figures, frame>>
    BY <1>3 DEF TakeFingerprint
  <2>2. key[r] = NotTaken /\ con[r] = Closed /\ figures[r] = {} /\ ref[r] = NoStore
    BY <1>3, FreshTypes DEF TakeFingerprint, OrderInv, InOrder, BeforeKey,
       BeforeStore, Auditing
  <2>3. fingerprint \in {stamp, MissingKey} /\ (present => fingerprint = stamp)
    BY DEF fingerprint
  <2>4. ReachedByItsKey'
    <3>1. \A x \in Requests : ref[x] # NoStore => ref[x] # r /\ x # r
      <4>1. \A x \in Requests : ref[x] # NoStore => key[x] # NotTaken
        BY DEF OrderInv, InOrder, BeforeStore
      <4>2. QED
        BY <2>2, <4>1 DEF FreshInv, ReachedByItsKey
    <3>2. \A k \in Keys : cache[k] # NoStore => cache[k] # r
      BY <2>2 DEF FreshInv, ReachedByItsKey
    <3>3. QED
      BY <2>1, <3>1, <3>2, FreshTypes DEF FreshInv, ReachedByItsKey
  <2>5. NothingStoredYet'
    <3>1. \A x \in Requests : key'[x] = NotTaken => key[x] = NotTaken
      BY <2>1, <2>2, FreshTypes
    <3>2. QED
      BY <2>1, <3>1 DEF FreshInv, NothingStoredYet
  <2>6. NoFigureOlderThanItsKey'
    BY <2>1, <2>2, FreshTypes DEF FreshInv, NothingStoredYet,
       NoFigureOlderThanItsKey, Remembered
  <2>7. ConnectedAfterKey'
    BY <2>1, <2>2, FreshTypes DEF FreshInv, ConnectedAfterKey
  <2>8. NothingFromTheFuture'
    BY <2>1, <2>3, FreshTypes DEF FreshInv, NothingFromTheFuture
  <2>9. FiguresAtLeastKey'
    BY <2>1, <2>2, FreshTypes DEF FreshInv, FiguresAtLeastKey
  <2>10. KeyIsTheFrames'
    BY <2>1, <2>3, FreshTypes DEF FreshInv, KeyIsTheFrames, undisturbed
  <2>11. QED
    BY <2>4, <2>5, <2>6, <2>7, <2>8, <2>9, <2>10 DEF FreshInv
<1>4. ASSUME NEW r \in Requests, SetDefault(r), UNCHANGED askVars
      PROVE  FreshInv'
  <2>1. key[r] \in Keys
    <3>1. key[r] # NotTaken
      BY <1>4 DEF SetDefault, OrderInv, InOrder, BeforeKey
    <3>2. QED
      BY <3>1, FreshTypes
  <2>2. ReachedByItsKey'
    <3>1. UNCHANGED key
      BY <1>4 DEF SetDefault
    <3>2. \/ cache' = cache
          \/ cache' = [cache EXCEPT ![key[r]] = r]
      BY <1>4 DEF SetDefault
    <3>3. \/ cache[key[r]] = NoStore /\ ref' = [ref EXCEPT ![r] = r]
          \/ /\ cache[key[r]] # NoStore
             /\ ref' = [ref EXCEPT ![r] = cache[key[r]]]
      BY <1>4 DEF SetDefault
    <3>4. \A k \in Keys : cache'[k] # NoStore => key[cache'[k]] = k
      <4>1. \A k \in Keys :
               cache'[k] = cache[k] \/ (k = key[r] /\ cache'[k] = r)
        BY <3>2, FreshTypes
      <4>2. QED
        BY <4>1 DEF FreshInv, ReachedByItsKey
    <3>5. \A x \in Requests : ref'[x] # NoStore => key[ref'[x]] = key[x]
      <4>1. \A x \in Requests : x # r => ref'[x] = ref[x]
        BY <3>3, FreshTypes
      <4>2. ref'[r] = r \/ (cache[key[r]] # NoStore /\ ref'[r] = cache[key[r]])
        BY <3>3, FreshTypes
      <4>3. QED
        BY <2>1, <4>1, <4>2 DEF FreshInv, ReachedByItsKey
    <3>6. QED
      BY <3>1, <3>4, <3>5 DEF ReachedByItsKey
  <2>3. QED
    BY <1>4, <2>2 DEF SetDefault, FreshInv, NothingStoredYet,
       NoFigureOlderThanItsKey, Remembered, ConnectedAfterKey,
       NothingFromTheFuture, FiguresAtLeastKey, KeyIsTheFrames, undisturbed
<1>5. ASSUME NEW r \in Requests, DeleteStale(r), UNCHANGED askVars
      PROVE  FreshInv'
  <2>1. \A k \in Keys : cache'[k] # NoStore => cache'[k] = cache[k]
    BY <1>5, FreshTypes DEF DeleteStale
  <2>2. ReachedByItsKey'
    BY <1>5, <2>1 DEF DeleteStale, FreshInv, ReachedByItsKey
  <2>3. QED
    BY <1>5, <2>2 DEF DeleteStale, FreshInv, NothingStoredYet,
       NoFigureOlderThanItsKey, Remembered, ConnectedAfterKey,
       NothingFromTheFuture, FiguresAtLeastKey, KeyIsTheFrames, undisturbed
<1>6. ASSUME NEW r \in Requests, Hit(r), UNCHANGED askVars
      PROVE  FreshInv'
  <2> DEFINE v == store[ref[r]][sql(r)]
  <2>1. ref[r] \in Requests /\ sql(r) \in Sqls
    BY <1>6, RefType, SqlType DEF Hit, OrderInv, Prepared, Calling,
       BeforeStore, BeforeKey
  <2>2. \/ figures' = figures
        \/ /\ v # Absent
           /\ figures' = [figures EXCEPT ![r] = @ \cup {<<sql(r), v>>}]
    BY <1>6 DEF Hit, returns
  <2>3. v # Absent => v >= key[r] \/ <<key[r], v>> \in joined
    BY <2>1, FreshTypes DEF FreshInv, ReachedByItsKey, NoFigureOlderThanItsKey,
       Remembered
  <2>4. v <= stamp
    BY <2>1 DEF FreshInv, NothingFromTheFuture
  <2> HIDE DEF v
  <2>5. FiguresAtLeastKey'
    <3>1. \A x \in Requests : \A f \in figures'[x] :
             f \in figures[x] \/ (v # Absent /\ x = r /\ f = <<sql(r), v>>)
      BY <2>2, FreshTypes
    <3>2. \A x \in Requests : \A f \in figures'[x] :
             f[2] >= key[x] \/ <<key[x], f[2]>> \in joined
      BY <2>3, <3>1 DEF FreshInv, FiguresAtLeastKey
    <3>3. UNCHANGED key
      BY <1>6 DEF Hit
    <3>4. QED
      BY <1>0, <3>2, <3>3 DEF FiguresAtLeastKey
  <2>6. NothingFromTheFuture'
    BY <1>6, <2>2, <2>4, FreshTypes DEF Hit, FreshInv, NothingFromTheFuture
  <2>7. QED
    BY <1>6, <2>5, <2>6 DEF Hit, FreshInv, ReachedByItsKey, NothingStoredYet,
       NoFigureOlderThanItsKey, Remembered, ConnectedAfterKey, KeyIsTheFrames,
       undisturbed
<1>7. ASSUME NEW r \in Requests, Open(r), Note(r), UNCHANGED askVars
      PROVE  FreshInv'
  <2>1. con' = con \/ \E s \in Stamps : s <= stamp /\ con' = [con EXCEPT ![r] = s]
    BY <1>7, OpensTheFile DEF Open
  <2>2. ConnectedAfterKey'
    <3>1. CASE con' = con
      BY <1>7, <3>1 DEF Open, FreshInv, ConnectedAfterKey
    <3>2. CASE con' # con
      <4>1. PICK s \in Stamps : s <= stamp /\ con' = [con EXCEPT ![r] = s]
        BY <2>1, <3>2
      <4>2. con'[r] = s /\ \A x \in Requests \ {r} : con'[x] = con[x]
        BY <4>1, FreshTypes
      <4>3. s = stamp \/ <<key[r], s>> \in joined'
        BY <1>7, <4>2 DEF Open, Note, Joins
      <4>4. key'= key /\ key[r] <= stamp
        BY <1>7 DEF Open, FreshInv, NothingFromTheFuture
      <4>5. QED
        BY <4>1, <4>2, <4>3, <4>4 DEF FreshInv, ConnectedAfterKey
    <3>3. QED
      BY <3>1, <3>2
  <2>3. NothingFromTheFuture'
    <3>1. \A x \in Requests : con'[x] = con[x] \/ con'[x] <= stamp
      BY <2>1, FreshTypes
    <3>2. QED
      BY <1>7, <3>1 DEF Open, FreshInv, NothingFromTheFuture
  <2>4. QED
    BY <1>7, <2>2, <2>3 DEF Open, FreshInv, ReachedByItsKey, NothingStoredYet,
       NoFigureOlderThanItsKey, Remembered, FiguresAtLeastKey, KeyIsTheFrames,
       undisturbed
<1>8. ASSUME NEW r \in Requests, PopVictim(r), UNCHANGED askVars
      PROVE  FreshInv'
  <2>1. \A d \in Requests, q \in Sqls : store'[d][q] \in {store[d][q], Absent}
    BY <1>8, FreshTypes DEF PopVictim
  <2>2. NothingStoredYet'
    BY <1>8, <2>1 DEF PopVictim, FreshInv, NothingStoredYet
  <2>3. NoFigureOlderThanItsKey'
    BY <1>8, <2>1 DEF PopVictim, FreshInv, NoFigureOlderThanItsKey, Remembered
  <2>4. NothingFromTheFuture'
    <3>1. \A x \in Requests, q \in Sqls : store'[x][q] <= stamp
      <4>1. Absent <= stamp
        BY FreshTypes
      <4>2. QED
        BY <2>1, <4>1 DEF FreshInv, NothingFromTheFuture
    <3>2. QED
      BY <1>8, <3>1 DEF PopVictim, FreshInv, NothingFromTheFuture
  <2>5. QED
    BY <1>8, <2>2, <2>3, <2>4 DEF PopVictim, FreshInv, ReachedByItsKey,
       ConnectedAfterKey, FiguresAtLeastKey, KeyIsTheFrames, undisturbed
<1>9. ASSUME NEW r \in Requests, Remember(r), UNCHANGED askVars
      PROVE  FreshInv'
  <2>1. ref[r] \in Requests /\ sql(r) \in Sqls
    BY <1>9, RefType, SqlType DEF Remember, OrderInv, Prepared, Calling,
       BeforeStore, BeforeKey
  <2>2. con[r] \in Stamps /\ con[r] <= stamp
    BY <1>9, FreshTypes DEF Remember, OrderInv, Prepared, FreshInv,
       NothingFromTheFuture
  <2>3. key[r] # NotTaken /\ key[ref[r]] = key[r]
    BY <1>9, <2>1 DEF Remember, OrderInv, InOrder, BeforeKey, FreshInv,
       ReachedByItsKey
  <2>4. con[r] >= key[r] \/ <<key[r], con[r]>> \in joined
    BY <2>2, <2>3 DEF FreshInv, ConnectedAfterKey
  <2>5. \A d \in Requests, q \in Sqls :
           \/ store'[d][q] = store[d][q]
           \/ key[d] = key[r] /\ store'[d][q] = con[r]
    BY <1>9, <2>1, <2>3, FreshTypes DEF Remember
  <2>6. figures' = [figures EXCEPT ![r] = @ \cup {<<sql(r), con[r]>>}]
    BY <1>9 DEF Remember, returns
  <2>7. NothingStoredYet'
    BY <1>9, <2>3, <2>5 DEF Remember, FreshInv, NothingStoredYet
  <2>8. NoFigureOlderThanItsKey'
    BY <1>9, <2>4, <2>5 DEF Remember, FreshInv, NoFigureOlderThanItsKey,
       Remembered
  <2>9. FiguresAtLeastKey'
    <3>1. \A x \in Requests : \A f \in figures'[x] :
             f \in figures[x] \/ (x = r /\ f = <<sql(r), con[r]>>)
      BY <2>6, FreshTypes
    <3>2. \A x \in Requests : \A f \in figures'[x] :
             f[2] >= key[x] \/ <<key[x], f[2]>> \in joined
      BY <2>4, <3>1 DEF FreshInv, FiguresAtLeastKey
    <3>3. UNCHANGED key
      BY <1>9 DEF Remember
    <3>4. QED
      BY <1>0, <3>2, <3>3 DEF FiguresAtLeastKey
  <2>10. NothingFromTheFuture'
    <3>1. \A x \in Requests : \A f \in figures'[x] : f[2] <= stamp
      BY <2>2, <2>6, FreshTypes DEF FreshInv, NothingFromTheFuture
    <3>2. \A x \in Requests : \A q \in Sqls : store'[x][q] <= stamp
      BY <2>2, <2>5 DEF FreshInv, NothingFromTheFuture
    <3>3. QED
      BY <1>9, <3>1, <3>2 DEF Remember, FreshInv, NothingFromTheFuture
  <2>11. QED
    BY <1>9, <2>7, <2>8, <2>9, <2>10 DEF Remember, FreshInv, ReachedByItsKey,
       ConnectedAfterKey, KeyIsTheFrames, undisturbed
<1>10. ASSUME NEW r \in Requests, Close(r)
       PROVE  FreshInv'
  <2>1. con' = [con EXCEPT ![r] = Closed]
    BY <1>10 DEF Close
  <2>2. ConnectedAfterKey'
    BY <1>10, <2>1, FreshTypes DEF Close, FreshInv, ConnectedAfterKey
  <2>3. NothingFromTheFuture'
    <3>1. \A x \in Requests : con'[x] \in {con[x], Closed} /\ Closed <= stamp
      BY <2>1, FreshTypes
    <3>2. UNCHANGED <<stamp, key, store, figures, frame>>
      BY <1>10 DEF Close
    <3>3. QED
      BY <3>1, <3>2 DEF FreshInv, NothingFromTheFuture
  <2>4. QED
    BY <1>10, <2>2, <2>3 DEF Close, FreshInv, ReachedByItsKey,
       NothingStoredYet, NoFigureOlderThanItsKey, Remembered,
       FiguresAtLeastKey, KeyIsTheFrames, undisturbed
<1>11. ASSUME Rebuild
       PROVE  FreshInv'
  <2>1. \/ stamp' = stamp /\ (present' => present)
        \/ stamp' = stamp + 1
    BY <1>11 DEF Rebuild, BuilderStep, Unlink, Create, CreateTable, CloseBuild,
       CrashBuild
  <2>2. UNCHANGED <<key, cache, ref, store, con, figures, frame>>
    BY <1>11 DEF Rebuild
  <2>3. NothingFromTheFuture'
    <3>1. \A n \in Int : n <= stamp => n <= stamp'
      BY <2>1, FreshTypes
    <3>2. \A x \in Requests :
             /\ key[x] \in Int /\ frame[x] \in Int /\ con[x] \in Int
             /\ \A q \in Sqls : store[x][q] \in Int
             /\ \A f \in figures[x] : f[2] \in Int
      BY FreshTypes
    <3>3. QED
      BY <2>2, <3>1, <3>2 DEF FreshInv, NothingFromTheFuture
  <2>4. KeyIsTheFrames'
    BY <2>1, <2>2, FreshTypes DEF FreshInv, KeyIsTheFrames, undisturbed,
       NothingFromTheFuture
  <2>5. QED
    BY <2>2, <2>3, <2>4 DEF FreshInv, ReachedByItsKey, NothingStoredYet,
       NoFigureOlderThanItsKey, Remembered, ConnectedAfterKey,
       FiguresAtLeastKey
<1>12. ASSUME Forget
       PROVE  FreshInv'
  <2>1. \A k \in Keys : cache'[k] = NoStore
    BY <1>12 DEF Forget, ForgetAll
  <2>2. ReachedByItsKey'
    BY <1>12, <2>1 DEF Forget, ForgetAll, FreshInv, ReachedByItsKey
  <2>3. QED
    BY <1>12, <2>2 DEF Forget, ForgetAll, FreshInv, NothingStoredYet,
       NoFigureOlderThanItsKey, Remembered, ConnectedAfterKey,
       NothingFromTheFuture, FiguresAtLeastKey, KeyIsTheFrames, undisturbed
<1>13. ASSUME NEW r \in Requests,
              \/ Ask(r) \/ PlanAudit(r) \/ StartCheck(r)
              \/ FigureIsNone(r) \/ ConcludeCheck(r) \/ CatchCheck(r)
              \/ /\ UNCHANGED askVars
                 /\ \/ CheckLen(r) \/ Iterate(r) \/ ListStale(r)
                    \/ Lookup(r) \/ Fetch(r) \/ PickVictim(r)
       PROVE  FreshInv'
  <2>1. UNCHANGED freshState
    BY <1>13 DEF freshState, Ask, PlanAudit, StartCheck, FigureIsNone,
       ConcludeCheck, CatchCheck, CheckLen, Iterate, ListStale, Lookup, Fetch, PickVictim
  <2>2. QED
    BY <2>1, FreshKept
<1>14. ASSUME UNCHANGED vars
       PROVE  FreshInv'
  BY <1>14, FreshKept DEF vars, freshState
<1>15. QED
  BY <1>1, <1>2, <1>3, <1>4, <1>5, <1>6, <1>7, <1>8, <1>9, <1>10, <1>11, <1>12,
     <1>13, <1>14
     DEF NotedNext, RequestStep, Construct, Scalar, Audit, Finished, allVars
---------------------------------------------------------------------------
(* The theorems.  OrderInv needs nothing of DuckDB.                        *)

\* The bookkeeping of every thread is in order.
THEOREM OrderHolds == Spec => []OrderInv
BY OrderInit, OrderStep, PTL DEF Spec

\* Every variable keeps to its type, whatever the interleaving.
THEOREM TypeCorrect == Spec => []TypeOK
<1>1. OrderInv => TypeOK
  BY DEF OrderInv
<1>2. QED
  BY <1>1, OrderHolds, PTL

\* memory.py, executor.py: an audit opens at most one connection, and no
\* request that has ended, however it ended, still holds one.
THEOREM NoConnectionLeaks == Spec => []ConnectionsReturned
<1>1. OrderInv => ConnectionsReturned
  BY DEF OrderInv, InOrder, ConnectionsReturned, Done, Auditing
<1>2. QED
  BY <1>1, OrderHolds, PTL

---------------------------------------------------------------------------
(* The theorems about AskService with the history of joins.                *)

\* Whatever holds of every step holds of every noted step.
THEOREM NotedOrder == NotedSpec => []OrderInv
<1>1. OrderInv /\ [NotedNext]_allVars => OrderInv'
  BY OrderStep, NotedIsNext
<1>2. QED
  BY <1>1, OrderInit, PTL DEF NotedSpec

\* The inductive invariant holds at the start ...
LEMMA IInvInit == Init => IInv
BY OrderInit, FreshInit DEF IInv

\* ... is kept by every step ...
LEMMA IInvStep == IInv /\ [NotedNext]_allVars => IInv'
BY OrderStep, NotedIsNext, FreshStep DEF IInv

\* ... and so holds always, whatever instances DuckDB has audits join.
THEOREM IInvHolds == NotedSpec => []IInv
BY IInvInit, IInvStep, PTL DEF NotedSpec

\* memory.py: for any number of threads and rebuilds, an inner dictionary of
\* _CACHE holds no figure older than the fingerprint it stands for, but for
\* one read from a superseded file that an audit with that fingerprint joined.
THEOREM CacheIsFresh == NotedSpec => []NoFigureOlderThanItsKey
<1>1. IInv => NoFigureOlderThanItsKey
  BY DEF IInv, FreshInv
<1>2. QED
  BY <1>1, IInvHolds, PTL

\* executor.py: while the file the rows came from is in place, the audit
\* compares them with figures of that very file, or with one put into its
\* dictionary through a join.
THEOREM AuditMatchesRows == NotedSpec => []FiguresMatchRows
<1>1. IInv => FiguresMatchRows
  <2> SUFFICES ASSUME IInv, NEW r \in Requests, undisturbed(r),
                      NEW f \in figures[r], <<key[r], f[2]>> \notin joined
               PROVE  f[2] = frame[r]
    BY DEF FiguresMatchRows, origins
  <2>1. OrderInv /\ FreshInv
    BY DEF IInv
  <2>2. key[r] # NotTaken
    BY <2>1 DEF OrderInv, InOrder
  <2>3. key[r] = frame[r] /\ frame[r] = stamp
    BY <2>1, <2>2 DEF FreshInv, KeyIsTheFrames, undisturbed
  <2>4. f[2] >= key[r] /\ f[2] <= stamp /\ f[2] \in Stamps /\ stamp \in Stamps
    BY <2>1, FreshTypes DEF FreshInv, FiguresAtLeastKey, NothingFromTheFuture
  <2>5. QED
    BY <2>3, <2>4, ConstantsOK
<1>2. QED
  BY <1>1, IInvHolds, PTL

\* A DuckDB that always opens the file at the path never has an audit join a
\* superseded one, so for it nothing above makes an exception.
THEOREM NothingIsJoined ==
    ASSUME ~SharedInstances
    PROVE  NotedSpec => [](joined = {})
<1>1. OrderInv /\ joined = {} /\ [NotedNext]_allVars => (joined = {})'
  <2> SUFFICES ASSUME OrderInv, joined = {}, NEW r \in Requests,
                      RequestStep(r), Note(r), Joins(r)
               PROVE  FALSE
    BY DEF NotedNext, Note, allVars, historyVars
  <2>1. connectable \subseteq {stamp}
    BY DEF connectable
  <2>2. \A s : con' = [con EXCEPT ![r] = s] => con'[r] = s
    BY DEF OrderInv, TypeOK
  <2>3. con'[r] \in {con[r], stamp}
    <3>1. UNCHANGED con \/ con' = [con EXCEPT ![r] = stamp]
      BY <2>1 DEF Joins, RequestStep, Ask, Connect, Query, Construct,
         TakeFingerprint, SetDefault, CheckLen, Iterate, ListStale,
         DeleteStale, Scalar, Lookup, Hit, Open, Fetch, PickVictim, PopVictim,
         Remember, Audit, PlanAudit, StartCheck, FigureIsNone, ConcludeCheck,
         CatchCheck, Close, baselinesVars
    <3>2. QED
      BY <2>2, <3>1
  <2>4. QED
    BY <2>3 DEF Joins
<1>2. QED
  BY <1>1, NotedOrder, PTL DEF NotedSpec

---------------------------------------------------------------------------
(* The cache implements the contract of FreshFigures.                      *)

\* The initial state is the contract's.
LEMMA ContractInit == Init /\ joined = {} => Contract!Init
BY DEF Init, WarehouseInit, BaselinesInit, Contract!Init, origins,
   Contract!NotBegun

\* Only the step that opens a connection can join an instance.
LEMMA OpenJoins ==
    ASSUME NEW r \in Requests, RequestStep(r), Joins(r)
    PROVE  Open(r)
BY DEF Joins, RequestStep, Ask, Connect, Query, Construct, TakeFingerprint,
   SetDefault, CheckLen, Iterate, ListStale, DeleteStale, Scalar, Lookup, Hit,
   Fetch, PickVictim, PopVictim, Remember, Audit, PlanAudit, StartCheck,
   FigureIsNone, ConcludeCheck, CatchCheck, Close

\* The steps that neither rebuild, nor take a fingerprint, nor join an
\* instance, nor return a figure are invisible to the contract.
LEMMA ContractStep ==
    ASSUME IInv, [NotedNext]_allVars
    PROVE  [Contract!Next]_(Contract!freshVars)
<1> USE ConstantsOK DEF warehouseVars, baselinesVars, askVars
<1> DEFINE got == [x \in Requests |-> origins(x)]
<1>0. OrderInv /\ FreshInv
  BY DEF IInv
<1>1. ASSUME Rebuild, UNCHANGED joined
      PROVE  [Contract!Next]_(Contract!freshVars)
  <2>1. UNCHANGED <<key, figures>>
    BY <1>1 DEF Rebuild
  <2>2. stamp' = stamp \/ stamp' = stamp + 1
    BY <1>1 DEF Rebuild, BuilderStep, Unlink, Create, CreateTable, CloseBuild,
       CrashBuild
  <2>3. stamp \in Stamps /\ stamp' \in Stamps
    BY <1>0, OrderStep, NotedIsNext DEF OrderInv, TypeOK, WarehouseTypeOK
  <2>4. got' = got
    BY <2>1 DEF origins
  <2>5. QED
    BY <1>1, <2>1, <2>2, <2>3, <2>4 DEF Contract!Next, Contract!NewVersion,
       Contract!freshVars
<1>2. ASSUME NEW r \in Requests, TakeFingerprint(r), UNCHANGED joined
      PROVE  Contract!Next
  <2>1. /\ key' = [key EXCEPT ![r] = fingerprint]
        /\ UNCHANGED <<stamp, figures>>
    BY <1>2 DEF TakeFingerprint
  <2>2. key[r] = NotTaken
    BY <1>0, <1>2 DEF TakeFingerprint, OrderInv, InOrder, BeforeKey
  <2>3. fingerprint \in {stamp, -1}
    BY DEF fingerprint
  <2>4. got' = got
    BY <2>1 DEF origins
  <2>5. Contract!Begin(r)
    BY <1>2, <2>1, <2>2, <2>3, <2>4 DEF Contract!Begin, Contract!NotBegun,
       Contract!SawNoFile
  <2>6. QED
    BY <2>5 DEF Contract!Next
<1>3. ASSUME NEW r \in Requests, NEW q, NEW v \in Stamps,
             figures' = [figures EXCEPT ![r] = @ \cup {<<q, v>>}],
             UNCHANGED <<stamp, key, joined>>, key[r] # NotTaken, v <= stamp,
             v >= key[r] \/ <<key[r], v>> \in joined
      PROVE  Contract!Next
  <2>1. got' = [got EXCEPT ![r] = @ \cup {v}]
    <3>1. \A x \in Requests \ {r} : origins(x)' = origins(x)
      BY <1>0, <1>3, FreshTypes DEF origins
    <3>2. origins(r)' = origins(r) \cup {v}
      <4>1. figures'[r] = figures[r] \cup {<<q, v>>}
        BY <1>0, <1>3, FreshTypes
      <4>2. <<q, v>>[2] = v
        OBVIOUS
      <4>3. QED
        BY <4>1, <4>2 DEF origins
    <3>3. QED
      BY <3>1, <3>2
  <2>2. v \in 0..stamp
    BY <1>0, <1>3, FreshTypes
  <2>3. Contract!GetFigure(r)
    BY <1>3, <2>1, <2>2 DEF Contract!GetFigure, Contract!NotBegun
  <2>4. QED
    BY <2>3 DEF Contract!Next
<1>4. ASSUME NEW r \in Requests, Hit(r), UNCHANGED joined
      PROVE  [Contract!Next]_(Contract!freshVars)
  <2> DEFINE v == store[ref[r]][sql(r)]
  <2>1. ref[r] \in Requests /\ sql(r) \in Sqls /\ key[r] # NotTaken
    BY <1>0, <1>4, RefType, SqlType DEF Hit, OrderInv, Prepared, InOrder,
       Calling, BeforeStore, BeforeKey
  <2>2. v # Absent =>
           /\ v \in Stamps /\ v <= stamp
           /\ v >= key[r] \/ <<key[r], v>> \in joined
    <3>1. store[ref[r]][sql(r)] <= stamp
      BY <1>0, <2>1 DEF FreshInv, NothingFromTheFuture
    <3>2. key[ref[r]] = key[r]
      BY <1>0, <2>1, ConstantsOK DEF FreshInv, ReachedByItsKey
    <3>3. v # Absent => v >= key[r] \/ <<key[r], v>> \in joined
      BY <1>0, <2>1, <3>2 DEF FreshInv, NoFigureOlderThanItsKey, Remembered
    <3>4. v \in Stamps \cup {Absent}
      BY <1>0, <2>1, FreshTypes
    <3>5. QED
      BY <3>1, <3>3, <3>4
  <2>3. UNCHANGED <<stamp, key, joined>>
    BY <1>4 DEF Hit
  <2>4. CASE figures' = figures
    BY <2>3, <2>4 DEF Contract!freshVars, origins
  <2>5. CASE v # Absent /\ figures' = [figures EXCEPT ![r] = @ \cup {<<sql(r), v>>}]
    BY <1>3, <2>1, <2>2, <2>3, <2>5
  <2>6. QED
    BY <1>4, <2>4, <2>5 DEF Hit, returns
<1>5. ASSUME NEW r \in Requests, Remember(r), UNCHANGED joined
      PROVE  Contract!Next
  <2>1. con[r] \in Stamps /\ key[r] # NotTaken
    BY <1>0, <1>5, FreshTypes DEF Remember, OrderInv, Prepared, InOrder,
       BeforeKey
  <2>2. /\ con[r] <= stamp
        /\ con[r] >= key[r] \/ <<key[r], con[r]>> \in joined
    BY <1>0, <2>1 DEF FreshInv, ConnectedAfterKey, NothingFromTheFuture
  <2>3. figures' = [figures EXCEPT ![r] = @ \cup {<<sql(r), con[r]>>}]
    BY <1>5 DEF Remember, returns
  <2>4. UNCHANGED <<stamp, key, joined>>
    BY <1>5 DEF Remember
  <2>5. QED
    BY <1>3, <2>1, <2>2, <2>3, <2>4
<1>6. ASSUME NEW r \in Requests, Open(r), Note(r)
      PROVE  [Contract!Next]_(Contract!freshVars)
  <2>1. UNCHANGED <<stamp, key, figures>>
    BY <1>6 DEF Open
  <2>2. got' = got
    BY <2>1 DEF origins
  <2>3. CASE Joins(r)
    <3>1. joined' = joined \cup {<<key[r], con'[r]>>}
      BY <1>6, <2>3 DEF Note
    <3>2. con'[r] \in 0..(stamp - 1)
      <4>1. OrderInv' /\ FreshInv'
        BY <1>0, OrderStep, FreshStep, NotedIsNext
      <4>2. con'[r] \in Stamps /\ con'[r] <= stamp /\ con'[r] # stamp
        <5>1. con' \in [Requests -> Stamps \cup {Closed}]
          BY <4>1 DEF OrderInv, TypeOK
        <5>2. con'[r] <= stamp'
          BY <4>1 DEF FreshInv, NothingFromTheFuture
        <5>3. QED
          BY <2>1, <2>3, <5>1, <5>2 DEF Joins
      <4>3. QED
        BY <1>0, <4>2, FreshTypes
    <3>3. key[r] # NotTaken
      BY <1>0, <1>6 DEF Open, OrderInv, InOrder, BeforeKey
    <3>4. Contract!Join(r)
      BY <2>1, <2>2, <3>1, <3>2, <3>3 DEF Contract!Join, Contract!NotBegun
    <3>5. QED
      BY <3>4 DEF Contract!Next
  <2>4. CASE ~Joins(r)
    BY <1>6, <2>1, <2>2, <2>4 DEF Note, Contract!freshVars
  <2>5. QED
    BY <2>3, <2>4
<1>7. ASSUME UNCHANGED <<stamp, key, figures, joined>>
      PROVE  UNCHANGED Contract!freshVars
  BY <1>7 DEF Contract!freshVars, origins
<1>8. ASSUME NEW r \in Requests, RequestStep(r), Note(r), ~Open(r)
      PROVE  UNCHANGED joined
  BY <1>8, OpenJoins DEF Note
<1>9. ASSUME NEW r \in Requests, RequestStep(r), ~Open(r), UNCHANGED joined
      PROVE  [Contract!Next]_(Contract!freshVars)
  BY <1>2, <1>4, <1>5, <1>7, <1>9 DEF RequestStep, Construct, Scalar, Audit,
     Ask, Connect, Query, SetDefault, CheckLen, Iterate, ListStale,
     DeleteStale, Lookup, Fetch, PickVictim, PopVictim, PlanAudit, StartCheck,
     FigureIsNone, ConcludeCheck, CatchCheck, Close
<1>10. QED
  BY <1>1, <1>6, <1>7, <1>8, <1>9 DEF NotedNext, Finished, Forget, ForgetAll,
     vars, allVars, historyVars

\* memory.py keeps its promise: AskService with its shared, unlocked cache
\* implements FreshFigures, which has no cache at all.
THEOREM CacheImplementsContract == NotedSpec => FiguresAreFresh
<1>1. IInv /\ [NotedNext]_allVars => [Contract!Next]_(Contract!freshVars)
  BY ContractStep
<1>2. QED
  BY <1>1, ContractInit, IInvHolds, PTL DEF NotedSpec, FiguresAreFresh,
     Contract!Spec
=============================================================================
