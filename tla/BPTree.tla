------------------------------- MODULE BPTree -------------------------------
(***************************************************************************)
(* BPTreeIndex (src/src/storage/index/index_bptree.cpp).                   *)
(*                                                                         *)
(* tree is the index file: the header fields (root, first free page,       *)
(* height, page_num_, num_entries_) and nodes, the pages allocated so far  *)
(* with their node header (leaf or internal, parent), keys and values (a   *)
(* leaf's RIDs or an internal node's children), the leaf's next_page_id    *)
(* and the page's next_free_page_id.  A node holds size_ entries: keys and *)
(* vals are sequences of that length, 1-based here where the code is       *)
(* 0-based, so KeyAt(n, i) is n.keys[i + 1].  An internal node's key 0 is  *)
(* never read; it is kept as NoKey.                                        *)
(*                                                                         *)
(* Insert, Delete and Clear hold index_latch_ exclusively for the whole    *)
(* call and readers hold it shared, so each public call is one step.  The  *)
(* helpers they call (InsertIntoParent, CoalesceOrRedistribute, ...) are   *)
(* operators from a tree to the next tree, recursive as in the code.  ret  *)
(* is what the last call returned.  Keys are integers (Record::Compare on  *)
(* a one-column key).                                                      *)
(***************************************************************************)
EXTENDS Integers, SequencesExt

CONSTANTS
  Keys,          \* keys callers insert and delete
  MaxDup,        \* entries a key may have at once (1: callers keep keys unique)
  MaxEntries,    \* entries the index may hold at once (model bound)
  LeafMax,       \* header->leaf_max_size_
  InternalMax,   \* header->internal_max_size_
  MaxPage,       \* the largest page id the file grows to (model bound)
  NoResult       \* ret after a call that returns nothing (a model value)

ASSUME Keys \subseteq Nat \ {0} /\ MaxDup \in Nat \ {0} /\ MaxEntries \in Nat
ASSUME LeafMax >= 2 /\ InternalMax >= 2 /\ NoResult \notin BOOLEAN

\* A caller's RID is abstracted to the key it indexes and a number telling
\* the entries of one key apart.
Rids == Keys \X (1 .. MaxDup)

INVALID_PAGE_ID == -1
NoKey == 0

VARIABLES tree, ret

vars == <<tree, ret>>

\* A node: a leaf's values are RIDs, an internal node's are page ids.
IsNode(n) ==
  /\ DOMAIN n = {"leaf", "parent", "keys", "vals", "next", "next_free"}
  /\ n.leaf \in BOOLEAN
  /\ {n.parent, n.next, n.next_free} \subseteq Nat \cup {INVALID_PAGE_ID}
  /\ n.keys \in Seq(Keys \cup {NoKey})
  /\ n.vals \in IF n.leaf THEN Seq(Rids) ELSE Seq(Nat)
  /\ Len(n.keys) = Len(n.vals)

\* InitializeIndex on a new file: no root, no free page, height 0.
TreeInit == [root |-> INVALID_PAGE_ID, free |-> INVALID_PAGE_ID, height |-> 0,
             page_num |-> 1, num_entries |-> 0, nodes |-> <<>>]

\* BPTreeLeafPage::Init and BPTreeInternalPage::Init: size 0, no next leaf.
LeafNode(parent) == [leaf |-> TRUE, parent |-> parent, keys |-> <<>>, vals |-> <<>>,
                     next |-> INVALID_PAGE_ID, next_free |-> INVALID_PAGE_ID]
InternalNode(parent) == [LeafNode(parent) EXCEPT !.leaf = FALSE]

MaxSize(n) == IF n.leaf THEN LeafMax ELSE InternalMax
Size(n) == Len(n.vals)
KeyAt(n, i) == n.keys[i + 1]
ValueAt(n, i) == n.vals[i + 1]

\* Entries [a, b) of a node, and entries appended (CopyNFrom).
Take(n, a, b) == [n EXCEPT !.keys = SubSeq(@, a + 1, b), !.vals = SubSeq(@, a + 1, b)]
AppendAll(n, ks, vs) == [n EXCEPT !.keys = @ \o ks, !.vals = @ \o vs]

\* start_idx of MoveHalfTo: size_ / 2 entries move, the rest stay.
Half(n) == Size(n) - Size(n) \div 2

\* The first index i >= lo whose key satisfies P, or size_ (a for loop).
ScanKeys(n, lo, P(_)) ==
  LET c == {i \in lo .. Size(n) - 1 : P(KeyAt(n, i))} IN IF c = {} THEN Size(n) ELSE Min(c)

\* BPTreeLeafPage::KeyIndex (= LowerBound): first i with key <= KeyAt(i).
KeyIndex(n, k) == ScanKeys(n, 0, LAMBDA x : k <= x)

\* BPTreeLeafPage::Lookup: from KeyIndex, the RIDs while the key is equal.
LeafLookup(n, k) == SubSeq(n.vals, KeyIndex(n, k) + 1, ScanKeys(n, KeyIndex(n, k), LAMBDA x : x # k))

\* BPTreeLeafPage::Insert: shift right from KeyIndex and write there.
LeafInsert(n, k, v) ==
  LET i == KeyIndex(n, k) + 1 IN [n EXCEPT !.keys = InsertAt(@, i, k), !.vals = InsertAt(@, i, v)]

\* BPTreeLeafPage::RemoveRecord: the entry at KeyIndex if its key is equal.
CanRemove(n, k) == KeyIndex(n, k) < Size(n) /\ KeyAt(n, KeyIndex(n, k)) = k
RemoveRecord(n, k) ==
  LET i == KeyIndex(n, k) + 1 IN [n EXCEPT !.keys = RemoveAt(@, i), !.vals = RemoveAt(@, i)]

\* BPTreeInternalPage::Lookup (Less = <) and LookupForLowerBound (<=): the
\* child before the first key i >= 1 the search key is below, else the last.
ChildFor(n, k, Less(_, _)) ==
  LET c == {i \in 1 .. Size(n) - 1 : Less(k, KeyAt(n, i))}
  IN IF c = {} THEN ValueAt(n, Size(n) - 1) ELSE ValueAt(n, Min(c) - 1)

\* Mutant: Lookup descends left of a separator equal to the key.
ChildLookupLeq(n, k) == ChildFor(n, k, LAMBDA a, b : a <= b)

ChildLookup(n, k) == ChildFor(n, k, LAMBDA a, b : a < b)
LookupForLowerBound(n, k) == ChildFor(n, k, LAMBDA a, b : a <= b)

\* The index of child c in an internal node, -1 if absent.
ChildIndex(n, c) == LET I == {i \in 0 .. Size(n) - 1 : ValueAt(n, i) = c} IN IF I = {} THEN -1 ELSE Min(I)

\* BPTreeInternalPage::InsertNodeAfter: (k, new) right after child old.
\* Mutant: the new entry lands at the old child's index, not after it.
InsertNodeAfterOff(n, old, k, new) ==
  LET i == ChildIndex(n, old) IN
  IF i = -1 THEN n ELSE [n EXCEPT !.keys = InsertAt(@, i + 1, k), !.vals = InsertAt(@, i + 1, new)]

InsertNodeAfter(n, old, k, new) ==
  LET i == ChildIndex(n, old) IN
  IF i = -1 THEN n ELSE [n EXCEPT !.keys = InsertAt(@, i + 2, k), !.vals = InsertAt(@, i + 2, new)]

\* Page p's node replaced (or written for the first time), and the parent
\* pointer of the pages in ps set to q.
SetNode(t, p, n) == [t EXCEPT !.nodes = (p :> n) @@ @]
SetParent(t, ps, q) ==
  [t EXCEPT !.nodes = [p \in DOMAIN @ |-> IF p \in ps THEN [t.nodes[p] EXCEPT !.parent = q] ELSE t.nodes[p]]]

\* NewPage pops the free chain, else bumps page_num_; DeletePage pushes.
\* Mutant: a fresh page id is handed out without bumping page_num_.
NewPageNoBump(t) ==
  IF t.free # INVALID_PAGE_ID
  THEN [pid |-> t.free, st |-> [t EXCEPT !.free = t.nodes[t.free].next_free]]
  ELSE [pid |-> t.page_num, st |-> t]

NewPage(t) ==
  IF t.free # INVALID_PAGE_ID
  THEN [pid |-> t.free, st |-> [t EXCEPT !.free = t.nodes[t.free].next_free]]
  ELSE [pid |-> t.page_num, st |-> [t EXCEPT !.page_num = @ + 1]]

\* Mutant: the freed page is not linked to the old head of the free chain.
DeletePageNoLink(t, p) == [t EXCEPT !.free = p]

DeletePage(t, p) == [t EXCEPT !.nodes[p].next_free = t.free, !.free = p]

(***************************************************************************)
(* FindLeafPage and FindLeafPageForRange: descend from the root, picking a *)
(* child at each internal node, to a leaf.  fuel bounds the walk on a      *)
(* corrupted tree; on a tree it is never reached.                          *)
(***************************************************************************)
RECURSIVE Descend(_, _, _, _)
Descend(t, p, Pick(_), fuel) ==
  IF t.nodes[p].leaf \/ fuel = 0 THEN p ELSE Descend(t, Pick(t.nodes[p]), Pick, fuel - 1)

Fuel(t) == t.page_num

FindLeafPage(t, k, leftMost) ==
  IF t.root = INVALID_PAGE_ID THEN INVALID_PAGE_ID
  ELSE Descend(t, t.root, LAMBDA n : IF leftMost THEN ValueAt(n, 0) ELSE ChildLookup(n, k), Fuel(t))

FindLeafPageForRange(t, k, isLowerBound) ==
  IF t.root = INVALID_PAGE_ID THEN INVALID_PAGE_ID
  ELSE Descend(t, t.root, LAMBDA n : IF isLowerBound THEN LookupForLowerBound(n, k)
                                     ELSE ChildLookup(n, k), Fuel(t))

(***************************************************************************)
(* Insert.  An empty tree gets a root leaf (StartNewTree).  Otherwise the  *)
(* leaf FindLeafPage picks takes the entry if it has room; a full leaf is  *)
(* split: the upper size_/2 entries move to a new leaf, the entry goes     *)
(* left if below the new leaf's first key, the new leaf is spliced into    *)
(* the chain, and its first key is pushed into the parent.                 *)
(***************************************************************************)
StartNewTree(t, k, v) ==
  LET np == NewPage(t) IN
  [np.st EXCEPT !.root = np.pid, !.height = 1, !.num_entries = 1,
                !.nodes = (np.pid :> LeafInsert(LeafNode(INVALID_PAGE_ID), k, v)) @@ @]

\* PopulateNewRoot: an internal root with children old (key 0 unused) and
\* new under key k; size_ = 2.
PopulateNewRoot(old, k, new) ==
  [InternalNode(INVALID_PAGE_ID) EXCEPT !.keys = <<NoKey, k>>, !.vals = <<old, new>>]

\* Mutant: a new root does not grow the height.
InsertIntoNewRootNoHeight(t, old, k, new) ==
  LET np == NewPage(t)
      r == PopulateNewRoot(old, k, new)
  IN SetParent([SetNode(np.st, np.pid, r) EXCEPT !.root = np.pid], {old, new}, np.pid)

\* A new internal root over old and new; both are reparented to it.
InsertIntoNewRoot(t, old, k, new) ==
  LET np == NewPage(t)
      r == PopulateNewRoot(old, k, new)
  IN SetParent([SetNode(np.st, np.pid, r) EXCEPT !.root = np.pid, !.height = @ + 1],
               {old, new}, np.pid)

\* A parent with size_ <= max_size_ takes the entry (so it may reach
\* max_size_ + 1); a larger one takes it, then moves its upper half to a new
\* internal node whose children are reparented, and pushes the new node's
\* key 0 up.
RECURSIVE InsertIntoParent(_, _, _, _)
InsertIntoParent(t, old, k, new) ==
  LET par == t.nodes[old].parent IN
  IF par = INVALID_PAGE_ID THEN InsertIntoNewRoot(t, old, k, new)
  ELSE LET P == t.nodes[par] IN
  IF Size(P) <= MaxSize(P) THEN SetNode(t, par, InsertNodeAfter(P, old, k, new))
  ELSE LET np == NewPage(t)
           P2 == InsertNodeAfter(P, old, k, new)
           s == Half(P2)
           Q == AppendAll(InternalNode(P.parent), <<NoKey>> \o SubSeq(P2.keys, s + 2, Size(P2)),
                          SubSeq(P2.vals, s + 1, Size(P2)))
           t1 == SetNode(SetNode(np.st, par, Take(P2, 0, s)), np.pid, Q)
       IN InsertIntoParent(SetParent(t1, ToSet(Q.vals), np.pid), par, KeyAt(P2, s), np.pid)

InsertIntoLeaf(t, k, v) ==
  LET lp == FindLeafPage(t, k, FALSE)
      L == t.nodes[lp]
  IN
  IF Size(L) < MaxSize(L)
  THEN [SetNode(t, lp, LeafInsert(L, k, v)) EXCEPT !.num_entries = @ + 1]
  ELSE LET np == NewPage(t)
           s == Half(L)
           R0 == AppendAll(LeafNode(L.parent), SubSeq(L.keys, s + 1, Size(L)), SubSeq(L.vals, s + 1, Size(L)))
           middle == KeyAt(R0, 0)
           L1 == IF k < middle THEN LeafInsert(Take(L, 0, s), k, v) ELSE Take(L, 0, s)
           R1 == IF k < middle THEN R0 ELSE LeafInsert(R0, k, v)
           t1 == SetNode(SetNode(np.st, lp, [L1 EXCEPT !.next = np.pid]), np.pid, [R1 EXCEPT !.next = L.next])
       IN [InsertIntoParent(t1, lp, middle, np.pid) EXCEPT !.num_entries = @ + 1]

Insert(t, k, v) ==
  IF t.root = INVALID_PAGE_ID THEN StartNewTree(t, k, v) ELSE InsertIntoLeaf(t, k, v)
(***************************************************************************)
(* Delete.  The leaf FindLeafPage picks loses its first entry with the     *)
(* key, if any.  A node left with size_ <= its minimum (IsSafe(false)      *)
(* fails) is rebalanced: a root is adjusted; otherwise, with the left      *)
(* neighbor (the right one for child 0), the two are merged when their     *)
(* sizes fit in max_size_, the right into the left, and the parent loses   *)
(* an entry and is rebalanced in turn if unsafe; else one entry is moved   *)
(* across and the parent's separator updated.                              *)
(***************************************************************************)
MinSize(n) ==
  IF n.parent = INVALID_PAGE_ID THEN (IF n.leaf THEN 1 ELSE 2) ELSE (MaxSize(n) + 1) \div 2

IsSafeDelete(n) == Size(n) > MinSize(n)

\* Mutant: collapsing an internal root keeps the height.
AdjustRootKeepHeight(t, p) ==
  LET n == t.nodes[p] IN
  CASE n.leaf /\ Size(n) = 0 ->
         DeletePage([t EXCEPT !.root = INVALID_PAGE_ID, !.height = 0], p)
    [] ~n.leaf /\ Size(n) = 1 ->
         DeletePage([SetParent(t, {ValueAt(n, 0)}, INVALID_PAGE_ID) EXCEPT !.root = ValueAt(n, 0)], p)
    [] OTHER -> t

\* Mutant: collapsing an internal root does not free the old root's page.
AdjustRootNoFree(t, p) ==
  LET n == t.nodes[p] IN
  CASE n.leaf /\ Size(n) = 0 ->
         DeletePage([t EXCEPT !.root = INVALID_PAGE_ID, !.height = 0], p)
    [] ~n.leaf /\ Size(n) = 1 ->
         [SetParent(t, {ValueAt(n, 0)}, INVALID_PAGE_ID) EXCEPT !.root = ValueAt(n, 0), !.height = @ - 1]
    [] OTHER -> t

\* AdjustRoot: an empty root leaf empties the tree; an internal root with
\* one child hands the root to it.
AdjustRoot(t, p) ==
  LET n == t.nodes[p] IN
  CASE n.leaf /\ Size(n) = 0 ->
         DeletePage([t EXCEPT !.root = INVALID_PAGE_ID, !.height = 0], p)
    [] ~n.leaf /\ Size(n) = 1 ->
         DeletePage([SetParent(t, {ValueAt(n, 0)}, INVALID_PAGE_ID)
                       EXCEPT !.root = ValueAt(n, 0), !.height = @ - 1], p)
    [] OTHER -> t

\* Redistribute(neighbor nb, node p, index of p in its parent).
Redistribute(t, nb, p, index) ==
  LET N == t.nodes[nb]
      M == t.nodes[p]
      par == M.parent
      P == t.nodes[par]
      last == Size(N) - 1
  IN
  CASE M.leaf /\ index = 0 ->
         LET N2 == Take(N, 1, Size(N)) IN
         SetNode(SetNode(SetNode(t, p, AppendAll(M, <<KeyAt(N, 0)>>, <<ValueAt(N, 0)>>)),
                         nb, N2), par, [P EXCEPT !.keys[2] = KeyAt(N2, 0)])
    [] M.leaf /\ index # 0 ->
         LET M2 == [M EXCEPT !.keys = <<KeyAt(N, last)>> \o @, !.vals = <<ValueAt(N, last)>> \o @] IN
         SetNode(SetNode(SetNode(t, p, M2), nb, Take(N, 0, last)),
                 par, [P EXCEPT !.keys[index + 1] = KeyAt(M2, 0)])
    [] ~M.leaf /\ index = 0 ->
         SetParent(SetNode(SetNode(SetNode(t, p, AppendAll(M, <<KeyAt(P, 1)>>, <<ValueAt(N, 0)>>)),
                                   par, [P EXCEPT !.keys[2] = KeyAt(N, 1)]),
                           nb, [N EXCEPT !.keys = <<NoKey>> \o SubSeq(@, 3, Size(N)), !.vals = Tail(@)]),
                   {ValueAt(N, 0)}, p)
    [] ~M.leaf /\ index # 0 ->
         SetParent(SetNode(SetNode(SetNode(t, p, [M EXCEPT !.keys = <<NoKey, KeyAt(P, index)>> \o Tail(@),
                                                           !.vals = <<ValueAt(N, last)>> \o @]),
                                   par, [P EXCEPT !.keys[index + 1] = KeyAt(N, last)]),
                           nb, Take(N, 0, last)),
                   {ValueAt(N, last)}, p)

RECURSIVE CoalesceOrRedistribute(_, _)

\* The leaf's MoveAllTo(recipient N): CopyNFrom appends all of M's entries,
\* and N takes over M's next_page_id.
LeafMoveAllTo(M, N) == [AppendAll(N, M.keys, M.vals) EXCEPT !.next = M.next]

\* Mutant: the leaf merge keeps the left leaf's own next_page_id.
MergedNoNext(N, M, P, index) ==
  IF M.leaf THEN AppendAll(N, M.keys, M.vals)
  ELSE AppendAll(N, <<KeyAt(P, index)>> \o Tail(M.keys), M.vals)

\* Mutant: the internal merge copies M's unused key 0 instead of the
\* parent's separator.
MergedNoSeparator(N, M, P, index) ==
  IF M.leaf THEN LeafMoveAllTo(M, N)
  ELSE AppendAll(N, M.keys, M.vals)

\* Mutant: the internal merge puts M's children before N's.
MergedSwapped(N, M, P, index) ==
  IF M.leaf THEN LeafMoveAllTo(M, N)
  ELSE [N EXCEPT !.keys = <<KeyAt(P, index)>> \o Tail(M.keys) \o @, !.vals = M.vals \o @]

\* N with M's entries appended (MoveAllTo): a leaf takes over M's
\* next_page_id; an internal node takes the parent's separator as M's key 0.
Merged(N, M, P, index) ==
  IF M.leaf THEN LeafMoveAllTo(M, N)
  ELSE AppendAll(N, <<KeyAt(P, index)>> \o Tail(M.keys), M.vals)

\* Coalesce(neighbor nb, node p, parent par, index): p's entries (with the
\* parent's separator pulled down as key 0 for an internal node) are
\* appended to nb, a leaf's next link is taken over, children are
\* reparented, entry index leaves the parent and p's page is freed.
Coalesce(t, nb, p, par, index) ==
  LET N == t.nodes[nb]
      M == t.nodes[p]
      P == t.nodes[par]
      N2 == Merged(N, M, P, index)
      P2 == [P EXCEPT !.keys = RemoveAt(@, index + 1), !.vals = RemoveAt(@, index + 1)]
      t1 == DeletePage(SetNode(SetNode(SetNode(t, nb, N2), p, Take(M, 0, 0)), par, P2), p)
      t2 == IF M.leaf THEN t1 ELSE SetParent(t1, ToSet(M.vals), nb)
  IN IF IsSafeDelete(P2) THEN t2 ELSE CoalesceOrRedistribute(t2, par)

CoalesceOrRedistribute(t, p) ==
  LET M == t.nodes[p] IN
  IF M.parent = INVALID_PAGE_ID THEN AdjustRoot(t, p)
  ELSE LET par == M.parent
           index == ChildIndex(t.nodes[par], p)
           nb == ValueAt(t.nodes[par], IF index = 0 THEN 1 ELSE index - 1)
       IN IF Size(t.nodes[nb]) + Size(M) <= MaxSize(M)
          THEN IF index = 0 THEN Coalesce(t, p, nb, par, 1) ELSE Coalesce(t, nb, p, par, index)
          ELSE Redistribute(t, nb, p, index)

\* Mutant: Delete on an empty index reports success.
DeleteEmptyTrue(t, k) ==
  LET lp == FindLeafPage(t, k, FALSE) IN
  IF lp = INVALID_PAGE_ID THEN [st |-> t, ok |-> TRUE]
  ELSE IF ~CanRemove(t.nodes[lp], k) THEN [st |-> t, ok |-> FALSE]
  ELSE LET L2 == RemoveRecord(t.nodes[lp], k)
           t1 == [SetNode(t, lp, L2) EXCEPT !.num_entries = @ - 1]
       IN [st |-> IF IsSafeDelete(L2) THEN t1 ELSE CoalesceOrRedistribute(t1, lp), ok |-> TRUE]

\* Delete(key): the next tree and the bool returned.
Delete(t, k) ==
  LET lp == FindLeafPage(t, k, FALSE) IN
  IF lp = INVALID_PAGE_ID \/ ~CanRemove(t.nodes[lp], k) THEN [st |-> t, ok |-> FALSE]
  ELSE LET L2 == RemoveRecord(t.nodes[lp], k)
           t1 == [SetNode(t, lp, L2) EXCEPT !.num_entries = @ - 1]
       IN [st |-> IF IsSafeDelete(L2) THEN t1 ELSE CoalesceOrRedistribute(t1, lp), ok |-> TRUE]

\* Clear frees every page (ClearPage) and resets the header to a new file's;
\* pages past page_num_ are re-initialised before they are read again.
Clear == TreeInit

(***************************************************************************)
(* Readers.  Search reads the one leaf FindLeafPage picks.  SearchRange    *)
(* descends with LookupForLowerBound and walks the leaf chain from the     *)
(* lower bound until a key exceeds high.  The iterator is a (leaf, index)  *)
(* position moved by Next along the chain.                                 *)
(***************************************************************************)
Search(t, k) ==
  LET lp == FindLeafPage(t, k, FALSE) IN
  IF lp = INVALID_PAGE_ID THEN <<>> ELSE LeafLookup(t.nodes[lp], k)

\* Mutant: the range stops at the end of the first leaf.
RangeFromOneLeaf(t, lp, lo, hi, fuel) ==
  IF lp = INVALID_PAGE_ID \/ fuel = 0 THEN <<>>
  ELSE LET n == t.nodes[lp] IN SubSeq(n.vals, KeyIndex(n, lo) + 1, ScanKeys(n, KeyIndex(n, lo), LAMBDA x : x > hi))

RECURSIVE RangeFrom(_, _, _, _, _)
RangeFrom(t, lp, lo, hi, fuel) ==
  IF lp = INVALID_PAGE_ID \/ fuel = 0 THEN <<>>
  ELSE LET n == t.nodes[lp]
           s == KeyIndex(n, lo)
           e == ScanKeys(n, s, LAMBDA x : x > hi)
       IN SubSeq(n.vals, s + 1, e) \o (IF e < Size(n) THEN <<>> ELSE RangeFrom(t, n.next, lo, hi, fuel - 1))

SearchRange(t, lo, hi) == RangeFrom(t, FindLeafPageForRange(t, lo, TRUE), lo, hi, Fuel(t))

End == [leaf |-> INVALID_PAGE_ID, index |-> 0]

\* Begin(key): the first entry >= key of the leaf FindLeafPage picks, or
\* the start of the next leaf when there is none.
BeginAt(t, k) ==
  LET lp == FindLeafPage(t, k, FALSE) IN
  IF lp = INVALID_PAGE_ID THEN End
  ELSE LET i == KeyIndex(t.nodes[lp], k) IN
       IF i >= Size(t.nodes[lp]) THEN [leaf |-> t.nodes[lp].next, index |-> 0]
       ELSE [leaf |-> lp, index |-> i]

IsValid(t, it) == it.leaf # INVALID_PAGE_ID /\ it.index < Size(t.nodes[it.leaf])

\* Mutant: Next moves to the next leaf one entry late.
IterNextOff(t, it) ==
  IF it.index >= Size(t.nodes[it.leaf]) THEN [leaf |-> t.nodes[it.leaf].next, index |-> 0]
  ELSE [it EXCEPT !.index = @ + 1]

IterNext(t, it) ==
  IF it.index + 1 >= Size(t.nodes[it.leaf]) THEN [leaf |-> t.nodes[it.leaf].next, index |-> 0]
  ELSE [it EXCEPT !.index = @ + 1]

\* The RIDs an iterator yields until it is invalid or a key exceeds hi.
RECURSIVE IterUntil(_, _, _, _)
IterUntil(t, it, hi, fuel) ==
  IF ~IsValid(t, it) \/ fuel = 0 \/ KeyAt(t.nodes[it.leaf], it.index) > hi THEN <<>>
  ELSE <<ValueAt(t.nodes[it.leaf], it.index)>> \o IterUntil(t, IterNext(t, it), hi, fuel - 1)

(***************************************************************************)
(* The tree as the nodes under the root: its leaves left to right, and the *)
(* (key, RID) entries they hold.                                           *)
(***************************************************************************)
RECURSIVE LeavesUnder(_, _, _)
LeavesUnder(t, p, fuel) ==
  IF t.nodes[p].leaf \/ fuel = 0 THEN <<p>>
  ELSE FlattenSeq([i \in 1 .. Size(t.nodes[p]) |-> LeavesUnder(t, t.nodes[p].vals[i], fuel - 1)])

Leaves(t) == IF t.root = INVALID_PAGE_ID THEN <<>> ELSE LeavesUnder(t, t.root, Fuel(t))

EntrySeq(t) ==
  LET ls == Leaves(t) IN
  FlattenSeq([j \in DOMAIN ls |->
    LET n == t.nodes[ls[j]] IN [i \in DOMAIN n.vals |-> <<n.keys[i], n.vals[i]>>]])

RECURSIVE EntriesUnder(_, _, _)
EntriesUnder(t, p, fuel) ==
  LET n == t.nodes[p] IN
  IF n.leaf \/ fuel = 0 THEN {<<n.keys[i], n.vals[i]>> : i \in DOMAIN n.vals}
  ELSE UNION {EntriesUnder(t, c, fuel - 1) : c \in ToSet(n.vals)}

Entries(t) == IF t.root = INVALID_PAGE_ID THEN {} ELSE EntriesUnder(t, t.root, Fuel(t))

\* The public readers of the header page, each under the shared latch:
\* IsEmpty (root_page_id_ is INVALID), Size (num_entries_), GetHeight.
IsEmpty(t) == t.root = INVALID_PAGE_ID
IndexSize(t) == t.num_entries
GetHeight(t) == t.height

(***************************************************************************)
(* Callers: Insert of a key with a RID not yet indexed (while the key has  *)
(* fewer than MaxDup entries), Delete of a key, Clear.                     *)
(***************************************************************************)
FreeRids(t, k) == LET used == {e[2] : e \in Entries(t)} IN {r \in {k} \X (1 .. MaxDup) : r \notin used}

InsertStep(k) ==
  LET free == FreeRids(tree, k) IN
  /\ free # {}
  /\ tree.num_entries < MaxEntries
  /\ LET t2 == Insert(tree, k, <<k, Min({r[2] : r \in free})>>) IN
     /\ t2.page_num <= MaxPage + 1
     /\ tree' = t2
  /\ ret' = NoResult

DeleteStep(k) ==
  LET d == Delete(tree, k) IN
  /\ tree' = d.st
  /\ ret' = d.ok

ClearStep ==
  /\ tree' = Clear
  /\ ret' = NoResult

BPTreeInit == tree = TreeInit /\ ret = NoResult

BPTreeNext ==
  \/ \E k \in Keys : InsertStep(k) \/ DeleteStep(k)
  \/ ClearStep

BPTreeSpec == BPTreeInit /\ [][BPTreeNext]_vars
=============================================================================
