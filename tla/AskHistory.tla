---------------------------- MODULE AskHistory -----------------------------
(***************************************************************************)
(* What _CACHE promises about the age of the figures that audits share,    *)
(* and the inductive invariant behind it.                                  *)
(*                                                                         *)
(* DuckDB keeps one instance per path and process: an audit may join one   *)
(* that another request still holds open, although its file has since been *)
(* replaced.  AskService is given a history of such joins, which never     *)
(* restrains it, so that the promises can say what a join does and that    *)
(* nothing else does it.                                                   *)
(*                                                                         *)
(* Why no figure is stale but for a join: an inner dictionary is only ever *)
(* reached by audits that took its own fingerprint (ReachedByItsKey); an   *)
(* audit connects after it took the fingerprint, so unless it joins an old *)
(* instance what it adds is no older than the dictionary                   *)
(* (ConnectedAfterKey, NoFigureOlderThanItsKey); and a version number      *)
(* never comes back (NothingFromTheFuture, KeyIsTheFrames).                *)
(***************************************************************************)
EXTENDS AskInvariant

VARIABLE
    joined   \* the superseded versions audits have joined, each with the
             \* fingerprint the audit had taken

historyVars == <<joined>>
allVars == <<vars, historyVars>>

\* The step of r connects its audit to an instance of a superseded file.
Joins(r) ==
    /\ pc[r] = "miss" /\ con[r] = Closed
    /\ con'[r] \notin {Closed, stamp}

Note(r) ==
    joined' = IF Joins(r) THEN joined \cup {<<key[r], con'[r]>>} ELSE joined

NotedNext ==
    \/ \E r \in Requests : RequestStep(r) /\ Note(r)
    \/ Rebuild /\ UNCHANGED historyVars
    \/ Forget /\ UNCHANGED historyVars
    \/ Finished /\ UNCHANGED historyVars

NotedSpec == Init /\ joined = {} /\ [][NotedNext]_allVars

---------------------------------------------------------------------------
\* memory.py: a rebuild retires every figure derived from the old file.  An
\* inner dictionary made for one fingerprint holds no figure read from an
\* older file, although threads that took the same fingerprint before a
\* rebuild go on filling it, unless DuckDB had one of them join that file.
NoFigureOlderThanItsKey ==
    \A d \in Requests : \A q \in Remembered(d) :
        store[d][q] >= key[d] \/ <<key[d], store[d][q]>> \in joined

\* The audit's purpose, over all interleavings: while the warehouse the rows
\* came from has not been replaced, whatever the cache has handed this audit
\* was read from that same file, be it cached by this thread, by another or
\* by a request that started before an earlier rebuild, or was put there
\* through a join under this very fingerprint.
FiguresMatchRows ==
    \A r \in Requests : undisturbed(r) =>
        \A v \in origins(r) : v = frame[r] \/ <<key[r], v>> \in joined

\* No audit that found a file is handed a figure older than its rows, be the
\* warehouse rebuilt before, during or after it, but for a join under its
\* fingerprint: the rows come first, and what is cached under a fingerprint is
\* no older than the file it was taken of.  (An audit that finds no file
\* shares the key of all the gaps between files.)
OlderOnlyWithoutAFile ==
    \A r \in Requests : key[r] # MissingKey =>
        \A v \in origins(r) : v >= frame[r] \/ <<key[r], v>> \in joined

\* The cache, its invalidation races, evictions and failures included,
\* implements the contract of FreshFigures.
Contract == INSTANCE FreshFigures WITH
    Audits <- Requests, now <- stamp, since <- key,
    got <- [r \in Requests |-> origins(r)]

FiguresAreFresh == Contract!Spec

---------------------------------------------------------------------------
\* An inner dictionary is found under the fingerprint it was made for.
ReachedByItsKey ==
    /\ \A k \in Keys : cache[k] # NoStore => key[cache[k]] = k
    /\ \A r \in Requests : ref[r] # NoStore => key[ref[r]] = key[r]

\* Nobody writes to the dictionary of a thread that has not made one.
NothingStoredYet ==
    \A r \in Requests : key[r] = NotTaken => \A q \in Sqls : store[r][q] = Absent

\* The connection of an audit was opened after its fingerprint was taken, or
\* is one to a file that had been superseded by then.
ConnectedAfterKey ==
    \A r \in Requests :
        key[r] # NotTaken /\ con[r] # Closed =>
            con[r] >= key[r] \/ <<key[r], con[r]>> \in joined

NothingFromTheFuture ==
    \A r \in Requests :
        /\ key[r] <= stamp
        /\ frame[r] <= stamp
        /\ con[r] <= stamp
        /\ \A q \in Sqls : store[r][q] <= stamp
        /\ \A f \in figures[r] : f[2] <= stamp

FiguresAtLeastKey ==
    \A r \in Requests : \A f \in figures[r] :
        f[2] >= key[r] \/ <<key[r], f[2]>> \in joined

\* The file seen by the audit is the one seen by the executor, as long as
\* that one is still there.
KeyIsTheFrames ==
    \A r \in Requests :
        key[r] # NotTaken /\ undisturbed(r) => key[r] = frame[r]

FreshInv ==
    /\ ReachedByItsKey
    /\ NothingStoredYet
    /\ NoFigureOlderThanItsKey
    /\ ConnectedAfterKey
    /\ NothingFromTheFuture
    /\ FiguresAtLeastKey
    /\ KeyIsTheFrames

IInv == OrderInv /\ FreshInv

\* The rows come before the fingerprint (with FreshInv).
RowsBeforeKey ==
    \A r \in Requests : key[r] \in Stamps => frame[r] <= key[r]

=============================================================================
