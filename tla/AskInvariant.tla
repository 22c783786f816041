--------------------------- MODULE AskInvariant ----------------------------
(***************************************************************************)
(* Why AskService keeps its promises although no step of it is protected:  *)
(* the inductive invariants behind its properties, and the measure of what *)
(* a request still has to do.  All of it holds of any DuckDB.  (Why no     *)
(* figure is stale needs a history: AskHistory.)                           *)
(***************************************************************************)
EXTENDS AskService

\* The builder has the stamps it still needs.
StampsLast ==
    /\ builder = "unlinked" => ~present /\ stamp + 2 <= MaxStamp
    /\ builder = "filling" => present /\ stamp + 1 <= MaxStamp

\* Where a thread is inside scalar(), or has just left it by an exception.
Calling == {"hit", "miss", "evict", "pop", "remember"}

\* A thread that reads something has it.
Prepared(r) ==
    /\ pc[r] \notin {"idle", "unavailable"} => plan[r] \in AskedPlans
    /\ pc[r] = "idle" => todo[r] = <<>>
    /\ \A i \in DOMAIN todo[r] : runs(todo[r][i], plan[r])
    /\ pc[r] \in Calling \cup {"scalar", "raised"} => todo[r] # <<>>
    /\ pc[r] \in Calling => left[r] # <<>>
    /\ pc[r] \in {"evict", "pop", "remember", "query"} => con[r] # Closed
    /\ pc[r] = "pop" => victim[r] \in Sqls

BeforeKey == {"idle", "execute", "query", "fingerprint", "unavailable",
              "halted at executor"}

BeforeStore == BeforeKey \cup {"setdefault"}

\* What has not happened yet has left no trace, and a connection is held only
\* where it is used.
InOrder(r) ==
    /\ pc[r] \in BeforeKey <=> key[r] = NotTaken
    /\ pc[r] \in BeforeStore <=> ref[r] = NoStore
    /\ key[r] = NotTaken => figures[r] = {}
    /\ con[r] # Closed => pc[r] \in Auditing \cup {"query"}
    /\ pc[r] # "answered" /\ (pc[r] \notin Auditing \/ con[r] = Closed) =>
         connections[r] = 0
    /\ connections[r] <= 1

\* All of it: every thread is where its data says.
OrderInv ==
    /\ TypeOK
    /\ StampsLast
    /\ \A r \in Requests : Prepared(r) /\ InOrder(r)

---------------------------------------------------------------------------
(* Three more, each inductive on top of OrderInv.                          *)

Underway == Auditing \ {"audit"}

\* The findings and the checks still to run are the selection, in its order.
partsOf(sel, found, rest) ==
    /\ Len(sel) = Len(found) + Len(rest)
    /\ \A i \in 1..Len(found) : found[i].check = sel[i]
    /\ \A i \in 1..Len(rest) : rest[i] = sel[Len(found) + i]

Accounted(r) ==
    /\ pc[r] \notin Underway \cup {"answered"} => findings[r] = <<>>
    /\ pc[r] \in Underway \cup {"answered"} =>
         partsOf(selected(plan[r]), findings[r], todo[r])
    /\ pc[r] = "answered" => todo[r] = <<>>

\* Whatever is still to be read for the current check is still to be asked,
\* and nothing is found OK before all of it was read.
Compared(r) ==
    /\ \A i \in DOMAIN findings[r] :
         findings[r][i].status = OK => settled(findings[r][i].check, r)
    /\ pc[r] \in Calling \cup {"scalar"} =>
         \E calls \in scalarCalls(Head(todo[r]), plan[r]) :
            \A i \in DOMAIN calls :
               \/ \E f \in figures[r] : f[1] = calls[i]
               \/ \E j \in DOMAIN left[r] : left[r][j] = calls[i]

\* Every check that ends OK has read what it compares, on every path.
ReadInv == \A r \in Requests : Accounted(r) /\ Compared(r)

\* The threads that have found room in an inner dictionary, or made some,
\* and not used it yet.
Adding(d) == {r \in Requests : ref[r] = d /\ pc[r] = "remember"}

\* An entry that is popped makes room for the one that its thread adds.
RoomInv ==
    \A d \in Requests :
        Cardinality(Remembered(d)) + Cardinality(Adding(d))
            < MAX_ENTRIES + Cardinality(Requests)

\* r will leave nothing but its own key behind, or it failed on the way.
\* (Only an insertion can undo this, and who inserts comes to check_len.)
settling(r) ==
    \/ pc[r] \in {"check_len", "iterate", "halted at reconciler"}
    \/ pc[r] = "list" /\ Cached \subseteq listed[r]
    \/ pc[r] = "delete" /\ Cached \subseteq listed[r] \cup {key[r]}

\* Superseded versions are never left to nobody.
ConvergeInv == Cardinality(Cached) <= 1 \/ \E r \in Requests : settling(r)

---------------------------------------------------------------------------
(* Where audits do not overlap.                                            *)

\* What an audit has learnt of the shared dictionaries is still true.
Current(r) ==
    /\ pc[r] = "list" => listed[r] = Cached
    /\ pc[r] = "delete" => listed[r] \subseteq Cached
    /\ pc[r] \in {"miss", "evict", "pop", "remember"} =>
         store[ref[r]][sql(r)] = Absent
    /\ pc[r] = "remember" => Cardinality(Remembered(ref[r])) < MAX_ENTRIES

SerialInv ==
    /\ Serial
    /\ InvalidationNeverFails
    /\ StoreWithinBound
    /\ \A r \in Requests : Current(r)

---------------------------------------------------------------------------
(* How much a request still has to do, whatever the others do: the number  *)
(* of steps of its own it may take at most.                                *)

CallSteps  == 6                    \* one scalar() that opens and evicts
CheckSteps == 3 * CallSteps + 3    \* a check makes three calls at most
AuditSteps == 4 * CheckSteps + 2   \* there are four checks

\* Up to the list of superseded keys.
ahead == [idle |-> 8, execute |-> 7, query |-> 6, fingerprint |-> 5,
          setdefault |-> 4, check_len |-> 3, iterate |-> 2, list |-> 1]

\* In the call at the head of left, or about to conclude.
inCall(r) ==
    CASE pc[r] = "scalar" -> 8
      [] pc[r] = "miss" -> IF con[r] = Closed THEN 7 ELSE 6
      [] pc[r] = "evict" -> 5
      [] pc[r] = "pop" -> 4
      [] OTHER -> 3

inCheck(r) ==
    IF pc[r] = "raised" THEN 1 ELSE CallSteps * (Len(left[r]) - 1) + inCall(r)

work(r) ==
    IF pc[r] \in Done THEN 0
    ELSE IF pc[r] \in DOMAIN ahead THEN AuditSteps + Cardinality(Keys) + ahead[pc[r]]
    ELSE IF pc[r] = "delete" THEN AuditSteps + Cardinality(listed[r])
    ELSE IF pc[r] = "audit" THEN AuditSteps
    ELSE IF pc[r] = "next check" THEN CheckSteps * Len(todo[r]) + 1
    ELSE CheckSteps * (Len(todo[r]) - 1) + 1 + inCheck(r)

\* No request waits for another or can be sent round in circles by one: every
\* step of its own brings it nearer to its end, and no step of another request,
\* of the builder or of forget_all takes it further away, however often they
\* evict, rebuild or forget.
StepsRunOut ==
    [][\A r \in Requests :
         /\ work(r)' \in 0..work(r)
         /\ RequestStep(r) => work(r)' < work(r)]_vars
=============================================================================
