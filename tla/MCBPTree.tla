------------------------------ MODULE MCBPTree ------------------------------
(***************************************************************************)
(* Properties of the B+tree (module BPTree), from spec 2, 4.4 and 8.       *)
(***************************************************************************)
EXTENDS BPTree, TLC

Abs == INSTANCE KeyMultiset WITH entries <- Entries(tree), ret <- ret, Rids <- Rids

\* Pages allocated so far, the pages under the root, and the free chain.
Allocated == 1 .. tree.page_num - 1

RECURSIVE PagesUnder(_, _)
PagesUnder(p, fuel) ==
  {p} \cup IF tree.nodes[p].leaf \/ fuel = 0 THEN {}
           ELSE UNION {PagesUnder(c, fuel - 1) : c \in ToSet(tree.nodes[p].vals)}

LivePages == IF tree.root = INVALID_PAGE_ID THEN {} ELSE PagesUnder(tree.root, Fuel(tree))

RECURSIVE ChainFrom(_, _, _)
ChainFrom(p, Link(_), fuel) ==
  IF p = INVALID_PAGE_ID \/ fuel = 0 THEN <<>> ELSE <<p>> \o ChainFrom(Link(p), Link, fuel - 1)

FreeChain == ChainFrom(tree.free, LAMBDA p : tree.nodes[p].next_free, Fuel(tree) + 1)

LeafChain == ChainFrom(FindLeafPage(tree, NoKey, TRUE), LAMBDA p : tree.nodes[p].next, Fuel(tree) + 1)

\* The keys stored in the subtree at p.
RECURSIVE KeysUnder(_, _)
KeysUnder(p, fuel) ==
  IF tree.nodes[p].leaf \/ fuel = 0 THEN ToSet(tree.nodes[p].keys)
  ELSE UNION {KeysUnder(c, fuel - 1) : c \in ToSet(tree.nodes[p].vals)}

\* The key a RID was inserted under (InsertStep gives key k the RID <<k, n>>).
KeyOf(r) == r[1]

(***************************************************************************)
(* Trees of height 3 need more entries than the full state space can hold  *)
(* in reach of TLC.  BuiltInit starts from every tree that inserting all   *)
(* of Keys, one by one in some order, into an empty index builds (Insert   *)
(* of module BPTree, the code's path), and DeleteNext then deletes keys in *)
(* every order, down to the empty tree: every merge, borrow and root       *)
(* collapse of the internal levels is reached on its way down.             *)
(***************************************************************************)
RECURSIVE Build(_, _)
Build(t, ks) == IF ks = <<>> THEN t ELSE Build(Insert(t, Head(ks), <<Head(ks), 1>>), Tail(ks))

BuiltInit ==
  /\ tree \in {Build(TreeInit, o) : o \in SetToSeqs(Keys)}
  /\ ret = NoResult

DeleteNext == \E k \in Keys : DeleteStep(k)

DeleteSpec == BuiltInit /\ [][DeleteNext]_vars

BPTreeTypeOK ==
  /\ tree.root \in Allocated \cup {INVALID_PAGE_ID}
  /\ tree.free \in Allocated \cup {INVALID_PAGE_ID}
  /\ tree.page_num \in 1 .. MaxPage + 1
  /\ tree.height \in Nat /\ tree.num_entries \in Nat
  /\ DOMAIN tree.nodes = Allocated
  /\ \A p \in Allocated : IsNode(tree.nodes[p])
  /\ ret \in BOOLEAN \cup {NoResult}

(***************************************************************************)
(* Shape (spec 4.4 header invariant, spec 8 invariants 4 and 6, and 4.4.2  *)
(* "splitting must rewrite the parent_page_id of every child"): the root   *)
(* is INVALID exactly when the index is empty, every leaf lies at depth    *)
(* tree_height_, every child's parent_page_id names the node holding it    *)
(* and the root's is INVALID, and num_entries_ counts the entries.  Splits *)
(* (InsertIntoParent), merges (Coalesce), borrowing (Redistribute) and     *)
(* AdjustRoot each move children between nodes and must keep all of this. *)
(***************************************************************************)
RECURSIVE ShapeUnder(_, _)
ShapeUnder(p, d) ==
  LET n == tree.nodes[p] IN
  IF n.leaf THEN d = GetHeight(tree)
  ELSE /\ d < GetHeight(tree)
       /\ \A c \in ToSet(n.vals) : tree.nodes[c].parent = p /\ ShapeUnder(c, d + 1)

TreeShape ==
  /\ IsEmpty(tree) = (EntrySeq(tree) = <<>>)
  /\ IsEmpty(tree) => GetHeight(tree) = 0
  /\ ~IsEmpty(tree) =>
       tree.nodes[tree.root].parent = INVALID_PAGE_ID /\ ShapeUnder(tree.root, 1)
  /\ IndexSize(tree) = Len(EntrySeq(tree))

(***************************************************************************)
(* Page accounting (spec 4.4.4 and the index file layout): every page id   *)
(* above the header is either in the tree or on the free chain, exactly    *)
(* once.  A merge or root collapse that forgot DeletePage leaks a page; a  *)
(* page freed while still linked is reused under a live node.             *)
(***************************************************************************)
PagesAccounted ==
  /\ IsInjective(FreeChain)
  /\ ToSet(FreeChain) \cap LivePages = {}
  /\ ToSet(FreeChain) \cup LivePages = Allocated

(***************************************************************************)
(* Key order (spec 8 invariant 3 and the node definition of spec 3): leaf  *)
(* keys are sorted, internal keys strictly increase from entry 1, and the  *)
(* keys under child i lie in [keys[i], keys[i+1]).  Separators are set by  *)
(* splits, pulled down by merges and rotated by Redistribute.              *)
(***************************************************************************)
KeysOrdered ==
  \A p \in LivePages :
    LET n == tree.nodes[p] IN
    IF n.leaf THEN IsSorted(n.keys, LAMBDA a, b : a <= b)
    ELSE /\ \A i \in 1 .. Size(n) - 2 : KeyAt(n, i) < KeyAt(n, i + 1)
         /\ \A i \in 0 .. Size(n) - 1 : \A k \in KeysUnder(ValueAt(n, i), Fuel(tree)) :
              /\ i > 0 => KeyAt(n, i) <= k
              /\ i < Size(n) - 1 => k < KeyAt(n, i + 1)

(***************************************************************************)
(* Leaf chain (spec 8 invariant 7): following next_page_id from the        *)
(* leftmost leaf visits every leaf once, in tree order, and the keys along *)
(* it never decrease.  Leaf splits splice the new leaf in; merges unlink   *)
(* the right leaf and take over its link.                                  *)
(***************************************************************************)
LeafChainInOrder ==
  /\ LeafChain = Leaves(tree)
  /\ IsSorted([i \in DOMAIN EntrySeq(tree) |-> EntrySeq(tree)[i][1]], LAMBDA a, b : a <= b)

(***************************************************************************)
(* Search(key) returns every RID indexed under key, once (spec 4.4 and the *)
(* round-trip law of spec 8), reading the one leaf the < descent picks.    *)
(***************************************************************************)
SearchAgrees ==
  \A k \in Keys : LET s == Search(tree, k) IN IsInjective(s) /\ ToSet(s) = Abs!Search(k)

(***************************************************************************)
(* SearchRange(low, high) returns the RIDs whose key lies in [low, high],  *)
(* once each, in ascending key order (spec 4.4), descending with <= and    *)
(* walking the leaf chain.                                                 *)
(***************************************************************************)
SearchRangeAgrees ==
  \A lo, hi \in Keys :
    LET s == SearchRange(tree, lo, hi) IN
    /\ IsInjective(s)
    /\ ToSet(s) = Abs!RidsOf(Abs!InRange(lo, hi))
    /\ \A i \in 1 .. Len(s) - 1 : KeyOf(s[i]) <= KeyOf(s[i + 1])

(***************************************************************************)
(* Range/iterator agreement (spec 8): Begin(lo) followed by Next yields    *)
(* the RIDs SearchRange(lo, hi) returns, until a key exceeds hi.           *)
(***************************************************************************)
IteratorAgreesWithRange ==
  \A lo, hi \in Keys :
    IterUntil(tree, BeginAt(tree, lo), hi, Fuel(tree) * (LeafMax + 1)) = SearchRange(tree, lo, hi)

(***************************************************************************)
(* The tree implements the index: its entries and Delete's return value    *)
(* change as KeyMultiset allows (an entry added, one entry of the key      *)
(* removed with TRUE, FALSE only when no entry has the key).               *)
(***************************************************************************)
BPTreeRefinesIndex == Abs!Spec

(***************************************************************************)
(* A non-root internal node has a sibling-to-be for each child: at least   *)
(* two children.  CoalesceOrRedistribute reads the neighbor of a child at  *)
(* index 1 (child 0) or index - 1, within the parent's size_.              *)
(***************************************************************************)
InternalHasTwoChildren ==
  \A p \in LivePages :
    ~tree.nodes[p].leaf /\ tree.nodes[p].parent # INVALID_PAGE_ID => Size(tree.nodes[p]) >= 2
=============================================================================
