----------------------------- MODULE KeyMultiset -----------------------------
(***************************************************************************)
(* What an index promises (spec 4.4): a collection of (key, RID) entries   *)
(* in which keys may repeat and each RID is indexed once.  Insert adds an  *)
(* entry; Delete(key) removes one entry with that key and returns TRUE, or *)
(* returns FALSE when there is none; Clear empties it.  ret is what the    *)
(* last call returned (NoResult for the calls that return nothing).  Search  *)
(* and SearchRange read it: they are operators, not steps.                 *)
(***************************************************************************)
EXTENDS Integers, FiniteSets

CONSTANTS Keys, Rids, NoResult   \* NoResult: what a call with no return value leaves in ret

VARIABLES entries, ret

RidsOf(es) == {e[2] : e \in es}

TypeOK ==
  /\ entries \subseteq Keys \X Rids
  /\ ret \in BOOLEAN \cup {NoResult}

Init ==
  /\ entries = {}
  /\ ret = NoResult

Insert(k, r) ==
  /\ r \notin RidsOf(entries)
  /\ entries' = entries \cup {<<k, r>>}
  /\ ret' = NoResult

Delete(k) ==
  \/ \E e \in entries :
       /\ e[1] = k
       /\ entries' = entries \ {e}
       /\ ret' = TRUE
  \/ /\ \A e \in entries : e[1] # k
     /\ UNCHANGED entries
     /\ ret' = FALSE

Clear ==
  /\ entries' = {}
  /\ ret' = NoResult

Next ==
  \/ \E k \in Keys, r \in Rids : Insert(k, r)
  \/ \E k \in Keys : Delete(k)
  \/ Clear

Spec == Init /\ [][Next]_<<entries, ret>>

\* Search(key): the RIDs indexed under key.
Search(k) == RidsOf({e \in entries : e[1] = k})

\* SearchRange(low, high): the entries whose key lies in [low, high].
InRange(lo, hi) == {e \in entries : lo <= e[1] /\ e[1] <= hi}
=============================================================================
