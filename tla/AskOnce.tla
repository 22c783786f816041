----------------------------- MODULE AskOnce -------------------------------
(***************************************************************************)
(* scalar() is "computed at most once per version": AskService where       *)
(* audits do not overlap, with a history of what was computed, and the     *)
(* inductive invariant behind the promise.                                 *)
(***************************************************************************)
EXTENDS AskInvariant

VARIABLE
    computed   \* the queries run for a fingerprint, less those whose figures
               \* were evicted or forgotten since

countVars == <<computed>>
countedVars == <<vars, countVars>>

\* The step of r runs a query for its audit, or makes room for the figure.
Computes(r) == pc[r] = "miss" /\ pc'[r] \in {"evict", "remember"}
Evicts(r)   == pc[r] = "pop" /\ pc'[r] = "remember"

Count(r) ==
    computed' =
        IF Computes(r) THEN [computed EXCEPT ![key[r]] = @ \cup {sql(r)}]
        ELSE IF Evicts(r) THEN [computed EXCEPT ![key[r]] = @ \ {victim[r]}]
        ELSE computed

Nothing == [k \in Keys |-> {}]

CountedNext ==
    \/ \E r \in Requests : RequestStep(r) /\ Serial' /\ Count(r)
    \/ Rebuild /\ UNCHANGED countVars
    \/ /\ \A r \in Requests : pc[r] \notin InAudit
       /\ Forget
       /\ computed' = Nothing
    \/ Finished /\ UNCHANGED countVars

CountedSpec == Init /\ computed = Nothing /\ [][CountedNext]_countedVars

\* memory.py: scalar() is "computed at most once per version".  Where audits
\* do not overlap no query is run again for a warehouse it was run for, as
\* long as its figure has been neither evicted nor forgotten: the figure is
\* kept until no audit can ask for it any more.  (The fingerprint of a missing
\* file is no version: the figures under it go with the first file that is
\* audited, and are computed again in the next gap.)
ComputedAtMostOncePerVersion ==
    [][\A r \in Requests :
         Computes(r) /\ key[r] \in Stamps => sql(r) \notin computed[key[r]]]_countedVars

---------------------------------------------------------------------------
\* The newest file is newer than k, or was k and is gone: no fingerprint that
\* is yet to be taken can be k.
superseded(k) == k < stamp \/ (k = stamp /\ ~present)

\* An audit past setdefault works on the dictionary of its fingerprint, and
\* is not about to delete it; what else is cached is superseded.
Owns(r) ==
    /\ pc[r] \in InAudit \ {"setdefault"} => cache[key[r]] = ref[r]
    /\ pc[r] = "delete" => key[r] \notin listed[r]
    /\ pc[r] \in InAudit =>
         \A k \in Cached \cap Stamps : k = key[r] \/ superseded(k)

\* Who has to make room finds something to evict, and evicts it.
FindsRoom(r) ==
    /\ pc[r] = "evict" => Remembered(ref[r]) # {}
    /\ pc[r] = "pop" => victim[r] \in Remembered(ref[r])

\* Between running its query and remembering the figure.
Carrying == {"evict", "pop", "remember"}

\* The figure of q is in the dictionary for k, or on its way there.
atHand(k, q) ==
    /\ cache[k] # NoStore
    /\ \/ q \in Remembered(cache[k])
       \/ \E r \in Requests : key[r] = k /\ pc[r] \in Carrying /\ sql(r) = q

\* Nobody asks for version k any more.
retired(k) ==
    /\ superseded(k)
    /\ \A r \in Requests : pc[r] \in InAudit => key[r] # k

Kept(k) == (\A q \in computed[k] : atHand(k, q)) \/ retired(k)

OnceInv ==
    /\ computed \in [Keys -> SUBSET Sqls]
    /\ \A k \in Cached : k <= stamp /\ key[cache[k]] = k
    /\ \A r \in Requests : key[r] <= stamp /\ Owns(r) /\ FindsRoom(r)
    /\ \A k \in Stamps : Kept(k)
=============================================================================
