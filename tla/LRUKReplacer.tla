---------------------------- MODULE LRUKReplacer ----------------------------
(***************************************************************************)
(* LRUKReplacer (src/src/storage/buffer/replacer/lru_k_replacer.cpp).      *)
(*                                                                         *)
(* The state is one record: store is node_store_, a function from the      *)
(* tracked frames to their LRUKNode (history of access timestamps, oldest  *)
(* first, and the evictable flag); cur_ts is the logical clock cur_ts_;    *)
(* cur_size is cur_size_.  As in LRUReplacer, methods are operators from a *)
(* state to the next so that the buffer pool can compose them.             *)
(*                                                                         *)
(* LRUKNode lives outside src/; its methods are modelled from spec 3 and   *)
(* 4.1: the history keeps the K most recent timestamps, the backward       *)
(* K-distance is cur_ts minus the K-th most recent timestamp, or +inf with *)
(* fewer than K, and the earliest timestamp is the oldest one kept.        *)
(***************************************************************************)
EXTENDS Integers, SequencesExt, TLC

CONSTANTS
  FrameIds,   \* frame ids a caller may pass
  MaxSize,    \* max_size_, initialised to BUFFER_POOL_SIZE
  K,          \* k_
  MaxTs       \* bound on the logical clock cur_ts_ (model bound)

ASSUME MaxSize \in Nat \ {0} /\ K \in Nat \ {0} /\ MaxTs \in Nat

VARIABLE lruk

NoFrame == -1   \* INVALID_FRAME_ID

\* Every distance is at most MaxTs, so MaxTs + 1 stands for the
\* numeric_limits<...>::max() the code uses for +inf and for "no timestamp".
Inf == MaxTs + 1

Node == [history : Seq(0 .. MaxTs), evictable : BOOLEAN]

LrukTypeOK ==
  /\ DOMAIN lruk.store \subseteq FrameIds
  /\ \A f \in DOMAIN lruk.store : lruk.store[f] \in Node
  /\ lruk.cur_ts \in 0 .. MaxTs
  /\ lruk.cur_size \in Nat

\* Constructor: no nodes, cur_ts_ and cur_size_ 0.
LrukInit == [store |-> <<>>, cur_ts |-> 0, cur_size |-> 0]

\* LRUKNode(frame_id, k): empty history, not evictable.
NewNode == [history |-> <<>>, evictable |-> FALSE]

\* LRUKNode::AddHistory: append, keeping the K most recent.
AddHistory(n, ts) ==
  LET h == Append(n.history, ts) IN
  [n EXCEPT !.history = IF Len(h) > K THEN Tail(h) ELSE h]

\* LRUKNode::GetBackwardKDistance(cur_ts).
BackwardKDistance(n, now) ==
  IF Len(n.history) < K THEN Inf ELSE now - n.history[Len(n.history) - K + 1]

\* LRUKNode::GetEarliestTimestamp for a non-empty history.
EarliestTimestamp(n) == Head(n.history)

Tracked(r) == DOMAIN r.store
Evictable(r) == {f \in DOMAIN r.store : r.store[f].evictable}

\* The store with frame f's node replaced (emplacing it if absent).
SetNode(store, f, n) == (f :> n) @@ store

(***************************************************************************)
(* Victim.  With cur_size_ 0 it returns false at once.  Otherwise it       *)
(* walks node_store_ (an unordered_map: any order) over evictable nodes,   *)
(* keeping victim_fid, max_dist and earliest_ts.  A node with +inf         *)
(* distance takes over from any finite best, and among +inf nodes the one  *)
(* with the strictly earliest timestamp wins; a finite node wins only      *)
(* while no +inf node has been seen, by a strictly larger distance.  An    *)
(* empty history (a node made by Unpin) has no front(): reading it is      *)
(* undefined, so its "earliest timestamp" is any value (garbage).          *)
(***************************************************************************)
\* Mutant: on switching from a finite best to +inf, earliest_ts is left at
\* its initial value.
ScanStepNoEarliest(r, garbage, acc, f) ==
  LET n == r.store[f]
      d == BackwardKDistance(n, r.cur_ts)
      e == IF n.history = <<>> THEN garbage[f] ELSE EarliestTimestamp(n)
  IN
  IF d = Inf
  THEN IF acc.max_dist # Inf
       THEN [acc EXCEPT !.vid = f, !.max_dist = Inf]
       ELSE IF e < acc.earliest THEN [acc EXCEPT !.vid = f, !.earliest = e] ELSE acc
  ELSE IF acc.max_dist # Inf /\ d > acc.max_dist
       THEN [acc EXCEPT !.vid = f, !.max_dist = d]
       ELSE acc

ScanStep(r, garbage, acc, f) ==
  LET n == r.store[f]
      d == BackwardKDistance(n, r.cur_ts)
      e == IF n.history = <<>> THEN garbage[f] ELSE EarliestTimestamp(n)
  IN
  IF d = Inf
  THEN IF acc.max_dist # Inf
       THEN [vid |-> f, max_dist |-> Inf, earliest |-> e]
       ELSE IF e < acc.earliest THEN [acc EXCEPT !.vid = f, !.earliest = e] ELSE acc
  ELSE IF acc.max_dist # Inf /\ d > acc.max_dist
       THEN [acc EXCEPT !.vid = f, !.max_dist = d]
       ELSE acc

\* The frames Victim may return: one per visiting order and garbage value.
Victims(r) ==
  IF r.cur_size = 0 THEN {}
  ELSE LET ev == Evictable(r)
           empty == {f \in ev : r.store[f].history = <<>>}
       IN { FoldLeft(LAMBDA acc, f : ScanStep(r, g, acc, f),
                     [vid |-> NoFrame, max_dist |-> 0, earliest |-> Inf], order).vid :
              order \in SetToSeqs(ev), g \in [empty -> 0 .. Inf] } \ {NoFrame}

HasVictim(r) == Victims(r) # {}

\* Victim returning v: the node is erased and cur_size_ drops.
AfterVictim(r, v) ==
  [r EXCEPT !.store = [f \in DOMAIN r.store \ {v} |-> r.store[f]],
            !.cur_size = @ - 1]

\* Pin: emplace a node if absent, record an access at cur_ts_++, and clear
\* the evictable flag (cur_size_ drops if it was set).
Pin(r, f) ==
  LET n == IF f \in DOMAIN r.store THEN r.store[f] ELSE NewNode
      n2 == AddHistory(n, r.cur_ts)
  IN [store |-> SetNode(r.store, f, [n2 EXCEPT !.evictable = FALSE]),
      cur_ts |-> r.cur_ts + 1,
      cur_size |-> IF n.evictable THEN r.cur_size - 1 ELSE r.cur_size]

\* Mutant: Unpin that emplaces an evictable node without counting it.
UnpinEmplaceUncounted(r, f) ==
  IF f \notin DOMAIN r.store
  THEN IF Cardinality(DOMAIN r.store) >= MaxSize
       THEN r
       ELSE [r EXCEPT !.store = SetNode(r.store, f, [NewNode EXCEPT !.evictable = TRUE])]
  ELSE [r EXCEPT !.store[f].evictable = TRUE,
                 !.cur_size = IF r.store[f].evictable THEN @ ELSE @ + 1]

\* Unpin: an untracked frame is refused when node_store_ holds max_size_
\* nodes, else emplaced evictable with no history; a tracked frame is made
\* evictable (cur_size_ grows if it was not).
Unpin(r, f) ==
  IF f \notin DOMAIN r.store
  THEN IF Cardinality(DOMAIN r.store) >= MaxSize
       THEN r
       ELSE [r EXCEPT !.store = SetNode(r.store, f, [NewNode EXCEPT !.evictable = TRUE]),
                      !.cur_size = @ + 1]
  ELSE [r EXCEPT !.store[f].evictable = TRUE,
                 !.cur_size = IF r.store[f].evictable THEN @ ELSE @ + 1]

\* Size returns cur_size_.
Size(r) == r.cur_size

\* Every Pin advances the clock; the model stops pinning at MaxTs.
CanPin(r) == r.cur_ts < MaxTs

(***************************************************************************)
(* The replacer on its own: any caller may call any method at any time.    *)
(***************************************************************************)
PinStep(f) ==
  /\ CanPin(lruk)
  /\ lruk' = Pin(lruk, f)

UnpinStep(f) == lruk' = Unpin(lruk, f)

VictimStep(v) ==
  /\ v \in Victims(lruk)
  /\ lruk' = AfterVictim(lruk, v)

NoVictimStep ==
  /\ ~HasVictim(lruk)
  /\ UNCHANGED lruk

LrukNext ==
  \/ \E f \in FrameIds : PinStep(f) \/ UnpinStep(f) \/ VictimStep(f)
  \/ NoVictimStep

LrukSpec == lruk = LrukInit /\ [][LrukNext]_lruk
=============================================================================
