----------------------------- MODULE Baselines -----------------------------
(***************************************************************************)
(* orchestrator/memory.py: the module-level _CACHE every request thread of *)
(* the API process shares, and the Baselines object each audit makes over  *)
(* it.  FastAPI runs the handlers in a thread pool and nothing here takes  *)
(* a lock, so one step is one operation on a shared dictionary (or one     *)
(* call into DuckDB) and any other thread may run between two steps.       *)
(*                                                                         *)
(* The inner dictionaries of _CACHE are objects: an audit keeps the one it *)
(* got (_store) although it has since been deleted from _CACHE.  An inner  *)
(* dictionary is named by the request that created it.  What a figure is   *)
(* worth does not matter here, only which file version it was read from:   *)
(* a figure is the stamp of that file.                                     *)
(***************************************************************************)
EXTENDS Warehouse, AuditPlan, FiniteSets

CONSTANTS
    Requests,         \* the requests the API serves, one thread each
    NoStore,          \* "no inner dictionary": a key not in _CACHE
    MAX_ENTRIES,      \* bound of an inner dictionary
    SharedInstances,  \* does duckdb.connect reuse an instance still open?
    TestHooks         \* does this process call forget_all()?

ASSUME BaselinesAssumption ==
    /\ NoStore \notin Requests
    /\ MAX_ENTRIES \in Nat \ {0}
    /\ SharedInstances \in BOOLEAN
    /\ TestHooks \in BOOLEAN

\* A thread pool has so many threads.
ASSUME RequestsAssumption == IsFiniteSet(Requests)

VARIABLES
    cache,       \* _CACHE: key -> inner dictionary
    store,       \* the inner dictionaries: store[d][sql] is a figure or Absent
    pc,          \* where each request's thread stands
    key,         \* the fingerprint a request's audit took
    ref,         \* self._store
    listed,      \* the keys the thread listed for deletion
    con,         \* the connection the request holds: what file version it reads
    left,        \* the scalar() calls left to the current check
    victim,      \* the entry being evicted
    figures,     \* what scalar() returned to this audit, with its origin
    connections  \* self.connections (queries and hits are only reported)

baselinesVars == <<cache, store, key, ref, listed, con, left, victim,
                   figures, connections>>

Absent   == -1
Closed   == -1
NoVictim == "no victim"
NotTaken == -2    \* no fingerprint yet

Cached == {k \in Keys : cache[k] # NoStore}

\* The keys of an inner dictionary.
Remembered(d) == {q \in Sqls : store[d][q] # Absent}

\* Program points between Baselines(...) and baselines.close().
Auditing == {"audit", "next check", "scalar", "hit", "miss", "evict",
             "pop", "remember", "raised"}

goto(r, label) == pc' = [pc EXCEPT ![r] = label]

BaselinesInit ==
    /\ cache = [k \in Keys |-> NoStore]
    /\ store = [d \in Requests |-> [q \in Sqls |-> Absent]]
    /\ key = [r \in Requests |-> NotTaken]
    /\ ref = [r \in Requests |-> NoStore]
    /\ listed = [r \in Requests |-> {}]
    /\ con = [r \in Requests |-> Closed]
    /\ left = [r \in Requests |-> <<>>]
    /\ victim = [r \in Requests |-> NoVictim]
    /\ figures = [r \in Requests |-> {}]
    /\ connections = [r \in Requests |-> 0]

---------------------------------------------------------------------------
(* What duckdb.connect(path, read_only=True) may open.  DuckDB keeps one   *)
(* instance per path and process: with SharedInstances a connection that   *)
(* is still open anywhere in the process is joined, whatever now stands at *)
(* the path.  Otherwise the file on disk is opened, if it can be.          *)

OpenStamps == {con[r] : r \in Requests} \ {Closed}

connectable ==
    IF SharedInstances /\ OpenStamps # {} THEN OpenStamps
    ELSE IF Readable THEN {stamp} ELSE {}

---------------------------------------------------------------------------
(* Baselines(connect, fingerprint(path))                                   *)

\* The argument: fingerprint(path) reads the file's metadata.
TakeFingerprint(r) ==
    /\ pc[r] = "fingerprint"
    /\ key' = [key EXCEPT ![r] = fingerprint]
    /\ goto(r, "setdefault")
    /\ UNCHANGED <<warehouseVars, cache, store, ref, listed, con, left, victim,
                   figures, connections>>

\* Fault: any inner dictionary will do, whatever version it was made for.
SetDefault_AnyVersion(r) ==
    /\ pc[r] = "setdefault"
    /\ IF Cached = {}
       THEN /\ cache' = [cache EXCEPT ![key[r]] = r]
            /\ ref' = [ref EXCEPT ![r] = r]
       ELSE /\ \E k \in Cached : ref' = [ref EXCEPT ![r] = cache[k]]
            /\ UNCHANGED cache
    /\ goto(r, "check_len")
    /\ UNCHANGED <<warehouseVars, store, key, listed, con, left, victim,
                   figures, connections>>

\* self._store = _CACHE.setdefault(key, {})
SetDefault(r) ==
    /\ pc[r] = "setdefault"
    /\ IF cache[key[r]] = NoStore
       THEN /\ cache' = [cache EXCEPT ![key[r]] = r]
            /\ ref' = [ref EXCEPT ![r] = r]
       ELSE /\ ref' = [ref EXCEPT ![r] = cache[key[r]]]
            /\ UNCHANGED cache
    /\ goto(r, "check_len")
    /\ UNCHANGED <<warehouseVars, store, key, listed, con, left, victim,
                   figures, connections>>

\* Fault: one superseded version is tolerated.
CheckLen_OffByOne(r) ==
    /\ pc[r] = "check_len"
    /\ goto(r, IF Cardinality(Cached) > 2 THEN "iterate" ELSE "audit")
    /\ UNCHANGED <<warehouseVars, baselinesVars>>

\* if len(_CACHE) > 1:
CheckLen(r) ==
    /\ pc[r] = "check_len"
    /\ goto(r, IF Cardinality(Cached) > 1 THEN "iterate" ELSE "audit")
    /\ UNCHANGED <<warehouseVars, baselinesVars>>

\* Fault: deletes from the dictionary it iterates over.
Iterate_Deleting(r) ==
    /\ pc[r] = "iterate"
    /\ listed' = [listed EXCEPT ![r] = Cached]
    /\ cache' = [k \in Keys |-> IF k = key[r] THEN cache[k] ELSE NoStore]
    /\ goto(r, "list")
    /\ UNCHANGED <<warehouseVars, store, key, ref, con, left, victim, figures,
                   connections>>

\* [k for k in _CACHE if k != key] starts to iterate ...
Iterate(r) ==
    /\ pc[r] = "iterate"
    /\ listed' = [listed EXCEPT ![r] = Cached]
    /\ goto(r, "list")
    /\ UNCHANGED <<warehouseVars, cache, store, key, ref, con, left, victim,
                   figures, connections>>

\* ... and ends.  It raises RuntimeError when it notices that the
\* dictionary's size has changed on the way, and nothing catches that before
\* BaseFilter.apply, so the pipe halts at the reconciler.  A key that was
\* there all along is listed, one that came or went may be.
ListStale(r) ==
    /\ pc[r] = "list"
    /\ \/ /\ Cached # listed[r]
          /\ goto(r, "halted at reconciler")
          /\ UNCHANGED listed
       \/ /\ Cardinality(Cached) = Cardinality(listed[r])
          /\ \E seen \in SUBSET (listed[r] \cup Cached) :
               /\ listed[r] \cap Cached \subseteq seen
               /\ listed' = [listed EXCEPT ![r] = seen \ {key[r]}]
               /\ goto(r, IF seen \subseteq {key[r]} THEN "audit" ELSE "delete")
    /\ UNCHANGED <<warehouseVars, cache, store, key, ref, con, left, victim,
                   figures, connections>>

\* for stale in ...: del _CACHE[stale], a KeyError if it is gone already.
DeleteStale(r) ==
    /\ pc[r] = "delete"
    /\ \E stale \in listed[r] :
         IF cache[stale] = NoStore
         THEN /\ goto(r, "halted at reconciler")
              /\ UNCHANGED <<cache, listed>>
         ELSE /\ cache' = [cache EXCEPT ![stale] = NoStore]
              /\ listed' = [listed EXCEPT ![r] = @ \ {stale}]
              /\ goto(r, IF listed[r] = {stale} THEN "audit" ELSE "delete")
    /\ UNCHANGED <<warehouseVars, store, key, ref, con, left, victim, figures,
                   connections>>

Construct(r) ==
    \/ TakeFingerprint(r) \/ SetDefault(r) \/ CheckLen(r)
    \/ Iterate(r) \/ ListStale(r) \/ DeleteStale(r)

---------------------------------------------------------------------------
(* Baselines.scalar(sql), sql being the next call of the current check.    *)

sql(r) == Head(left[r])

\* scalar() returns a figure read from the file with stamp s.
returns(r, s) ==
    /\ figures' = [figures EXCEPT ![r] = @ \cup {<<sql(r), s>>}]
    /\ left' = [left EXCEPT ![r] = Tail(@)]
    /\ goto(r, "scalar")

\* Fault: what is remembered is not looked up.
Lookup_Never(r) ==
    /\ pc[r] = "scalar" /\ left[r] # <<>>
    /\ goto(r, "miss")
    /\ UNCHANGED <<warehouseVars, baselinesVars>>

\* if sql in self._store:
Lookup(r) ==
    /\ pc[r] = "scalar" /\ left[r] # <<>>
    /\ goto(r, IF store[ref[r]][sql(r)] # Absent THEN "hit" ELSE "miss")
    /\ UNCHANGED <<warehouseVars, baselinesVars>>

\* Fault: a KeyError is answered by looking again.
Hit_LooksAgain(r) ==
    /\ pc[r] = "hit"
    /\ \/ /\ store[ref[r]][sql(r)] # Absent
          /\ returns(r, store[ref[r]][sql(r)])
       \/ /\ store[ref[r]][sql(r)] = Absent
          /\ goto(r, "scalar")
          /\ UNCHANGED <<figures, left>>
    /\ UNCHANGED <<warehouseVars, cache, store, key, ref, listed, con, victim,
                   connections>>

\* ... return self._store[sql], a KeyError if it was evicted in between.
Hit(r) ==
    /\ pc[r] = "hit"
    /\ \/ /\ store[ref[r]][sql(r)] # Absent
          /\ returns(r, store[ref[r]][sql(r)])
       \/ /\ store[ref[r]][sql(r)] = Absent
          /\ goto(r, "raised")
          /\ UNCHANGED <<figures, left>>
    /\ UNCHANGED <<warehouseVars, cache, store, key, ref, listed, con, victim,
                   connections>>

\* Fault: a failed connect is retried until it succeeds.
Open_KeepsTrying(r) ==
    /\ pc[r] = "miss" /\ con[r] = Closed
    /\ \E s \in connectable : con' = [con EXCEPT ![r] = s]
    /\ connections' = [connections EXCEPT ![r] = @ + 1]
    /\ UNCHANGED <<warehouseVars, pc, cache, store, key, ref, listed, left,
                   victim, figures>>

\* self._open(): connect on the first miss only; connect may raise.
Open(r) ==
    /\ pc[r] = "miss" /\ con[r] = Closed
    /\ \/ /\ \E s \in connectable : con' = [con EXCEPT ![r] = s]
          /\ connections' = [connections EXCEPT ![r] = @ + 1]
          /\ UNCHANGED pc
       \/ /\ connectable = {}
          /\ goto(r, "raised")
          /\ UNCHANGED <<con, connections>>
    /\ UNCHANGED <<warehouseVars, cache, store, key, ref, listed, left, victim,
                   figures>>

\* Fault: an entry is evicted one too late.
Fetch_OffByOne(r) ==
    /\ pc[r] = "miss" /\ con[r] # Closed
    /\ \/ /\ tables[con[r]] >= tablesRead(sql(r))
          /\ goto(r, IF Cardinality(Remembered(ref[r])) > MAX_ENTRIES
                     THEN "evict" ELSE "remember")
       \/ /\ tables[con[r]] < tablesRead(sql(r))
          /\ goto(r, "raised")
    /\ UNCHANGED <<warehouseVars, baselinesVars>>

\* .execute(sql).fetchone(), self.queries += 1, and len(self._store).
Fetch(r) ==
    /\ pc[r] = "miss" /\ con[r] # Closed
    /\ \/ /\ tables[con[r]] >= tablesRead(sql(r))
          /\ goto(r, IF Cardinality(Remembered(ref[r])) >= MAX_ENTRIES
                     THEN "evict" ELSE "remember")
       \/ /\ tables[con[r]] < tablesRead(sql(r))
          /\ goto(r, "raised")
    /\ UNCHANGED <<warehouseVars, baselinesVars>>

\* next(iter(self._store)): some entry (the oldest one; the order is left
\* out).  It raises StopIteration on a dictionary others have emptied, and
\* RuntimeError if another audit sharing it changes its size between the
\* two calls.
PickVictim(r) ==
    /\ pc[r] = "evict"
    /\ \/ /\ \/ Remembered(ref[r]) = {}
             \/ \E other \in Requests \ {r} :
                  ref[other] = ref[r] /\ pc[other] \in Auditing
          /\ goto(r, "raised")
          /\ UNCHANGED victim
       \/ \E q \in Remembered(ref[r]) :
            /\ victim' = [victim EXCEPT ![r] = q]
            /\ goto(r, "pop")
    /\ UNCHANGED <<warehouseVars, cache, store, key, ref, listed, con, left,
                   figures, connections>>

\* self._store.pop(...): a KeyError if another thread popped it first.
PopVictim(r) ==
    /\ pc[r] = "pop"
    /\ \/ /\ store[ref[r]][victim[r]] = Absent
          /\ goto(r, "raised")
          /\ UNCHANGED store
       \/ /\ store[ref[r]][victim[r]] # Absent
          /\ store' = [store EXCEPT ![ref[r]][victim[r]] = Absent]
          /\ goto(r, "remember")
    /\ victim' = [victim EXCEPT ![r] = NoVictim]
    /\ UNCHANGED <<warehouseVars, cache, key, ref, listed, con, left, figures,
                   connections>>

\* self._store[sql] = value; return value
Remember(r) ==
    /\ pc[r] = "remember"
    /\ store' = [store EXCEPT ![ref[r]][sql(r)] = con[r]]
    /\ returns(r, con[r])
    /\ UNCHANGED <<warehouseVars, cache, key, ref, listed, con, victim, connections>>

Scalar(r) ==
    \/ Lookup(r) \/ Hit(r) \/ Open(r) \/ Fetch(r)
    \/ PickVictim(r) \/ PopVictim(r) \/ Remember(r)

---------------------------------------------------------------------------
\* forget_all(): _CACHE.clear(), which only tests and scripts call.
ForgetAll ==
    /\ TestHooks
    /\ cache' = [k \in Keys |-> NoStore]
    /\ UNCHANGED <<warehouseVars, pc, store, key, ref, listed, con, left, victim,
                   figures, connections>>
=============================================================================
