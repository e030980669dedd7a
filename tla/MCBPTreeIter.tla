---------------------------- MODULE MCBPTreeIter ----------------------------
(***************************************************************************)
(* A reader walking the B+tree with a BPTreeIterator while writers call    *)
(* Insert and Delete.  Begin(key) holds index_latch_ shared while it finds *)
(* the first leaf, but the iterator it returns keeps only (leaf_page_id_,  *)
(* index_), and IsValid, GetRID and Next take no latch: each fetches the   *)
(* leaf page by id and reads it as it is then.  Writers may run between    *)
(* any two of them.                                                        *)
(*                                                                         *)
(* One reader: Begin(lo), then for each entry IsValid, GetRID and Next     *)
(* (one step here; writers interleave between entries), until IsValid is   *)
(* false.  A page the iterator stands on may by then be free (a merged     *)
(* leaf, emptied by MoveAllTo) or reused by NewPage for another node.     *)
(* Read as a leaf, an internal page yields meaningless bytes: its RID is   *)
(* recorded as NotARid and the next_page_id_ Next reads is any page id.    *)
(* Clear is left out: it forgets the pages' nodes, which the iterator     *)
(* could still read.                                                       *)
(***************************************************************************)
EXTENDS BPTree

VARIABLES
  phase,    \* the reader: "idle" before Begin, "walking", "done"
  it,       \* the iterator's (leaf_page_id_, index_)
  lo,       \* the key passed to Begin
  seen,     \* ghost: the RIDs GetRID returned, in order
  stable    \* ghost: entries >= lo present at Begin and not deleted since

iterVars == <<phase, it, lo, seen, stable>>
allVars == <<tree, ret, phase, it, lo, seen, stable>>

NotARid == <<0, 0>>

IterInit ==
  /\ BPTreeInit
  /\ phase = "idle" /\ it = End /\ lo = NoKey /\ seen = <<>> /\ stable = {}

\* A writer's Insert or Delete, one step under the exclusive latch; the
\* entries it removes are no longer stable.
Writer ==
  /\ \E k \in Keys : InsertStep(k) \/ DeleteStep(k)
  /\ stable' = stable \cap Entries(tree')
  /\ UNCHANGED <<phase, it, lo, seen>>

\* Begin(key): under the shared latch, the first entry >= key.
IterBegin(k) ==
  /\ phase = "idle"
  /\ phase' = "walking" /\ it' = BeginAt(tree, k) /\ lo' = k /\ seen' = <<>>
  /\ stable' = {e \in Entries(tree) : e[1] >= k}
  /\ UNCHANGED vars

\* Next() past the size_ of an internal page reads next_page_id_ from the
\* internal node's own fields: any page id, or INVALID_PAGE_ID (a page the
\* file never had reads as zeroes, size_ 0, and ends the walk the same way).
GarbageNext == {[leaf |-> p, index |-> 0] : p \in DOMAIN tree.nodes \cup {INVALID_PAGE_ID}}

\* IsValid() true, GetRID(), Next(): read the page leaf_page_id_ holds now.
IterStep ==
  LET n == tree.nodes[it.leaf] IN
  /\ phase = "walking"
  /\ IsValid(tree, it)
  /\ seen' = Append(seen, IF n.leaf THEN ValueAt(n, it.index) ELSE NotARid)
  /\ it' \in IF n.leaf \/ it.index + 1 < Size(n) THEN {IterNext(tree, it)} ELSE GarbageNext
  /\ UNCHANGED <<phase, lo, stable, tree, ret>>

\* IsValid() false: the walk ends.
IterEnd ==
  /\ phase = "walking"
  /\ ~IsValid(tree, it)
  /\ phase' = "done"
  /\ UNCHANGED <<it, lo, seen, stable, tree, ret>>

IterNextAll ==
  \/ Writer
  \/ \E k \in Keys : IterBegin(k)
  \/ IterStep
  \/ IterEnd

IterSpec == IterInit /\ [][IterNextAll]_allVars

(***************************************************************************)
(* Spec 4.4.5 and 5: iteration is a reader and yields the entries in key   *)
(* order.  A walk that has ended has yielded, exactly once, every entry of *)
(* key >= lo that was in the index when Begin ran and that no writer has   *)
(* deleted since, whatever else the writers did.                           *)
(***************************************************************************)
StableEntriesYieldedOnce ==
  phase = "done" =>
    \A e \in stable : Cardinality({i \in DOMAIN seen : seen[i] = e[2]}) = 1
====
