---------------------------- MODULE MCReplacers ----------------------------
(***************************************************************************)
(* The two replacer classes on their own, driven by any sequence of Pin,   *)
(* Unpin and Victim calls on FrameIds (more ids than MaxSize, so that      *)
(* Unpin's capacity refusal is reached).  The buffer pool's constructor    *)
(* builds one of them, as config.h's REPLACER says; a behaviour starts     *)
(* from a new LRUReplacer or a new LRUKReplacer and keeps it.  The state   *)
(* of an LRUReplacer (a list) tells it from an LRUKReplacer's (a store).   *)
(* For LRU, the ghost before orders the tracked frames by their last use:  *)
(* <<a, b>> \in before when a was last pinned (or, never pinned, admitted  *)
(* by Unpin) before b was.                                                 *)
(***************************************************************************)
EXTENDS Integers, FiniteSets

CONSTANTS FrameIds, MaxSize, K, MaxTs

VARIABLES replacer, before

vars == <<replacer, before>>

RL == INSTANCE LRUReplacer WITH lru <- replacer
RK == INSTANCE LRUKReplacer WITH lruk <- replacer

IsLRU == "list" \in DOMAIN replacer

ReplacersInit == replacer \in {RL!LruInit, RK!LrukInit} /\ before = {}

\* Frame f is used now: it follows every other tracked frame.
UsedNow(f) ==
  before' = {p \in before : f \notin {p[1], p[2]}} \cup {<<g, f>> : g \in RL!Tracked(replacer) \ {f}}

\* The LRU steps of LRUReplacer's LruNext, each with its ghost update.
LruGhostNext ==
  \/ \E f \in FrameIds : RL!PinStep(f) /\ UsedNow(f)
  \/ \E f \in FrameIds :
       /\ RL!UnpinStep(f)
       /\ IF f \in RL!Tracked(replacer') \ RL!Tracked(replacer) THEN UsedNow(f) ELSE UNCHANGED before
  \/ RL!VictimStep /\ before' = {p \in before : {p[1], p[2]} \subseteq RL!Tracked(replacer')}
  \/ RL!NoVictimStep /\ UNCHANGED before

ReplacersNext ==
  \/ IsLRU /\ LruGhostNext
  \/ ~IsLRU /\ RK!LrukNext /\ UNCHANGED before

ReplacersSpec == ReplacersInit /\ [][ReplacersNext]_vars

ReplacerTypeOK == IF IsLRU THEN RL!LruTypeOK ELSE RK!LrukTypeOK

Tracked == IF IsLRU THEN RL!Tracked(replacer) ELSE RK!Tracked(replacer)
Evictable == IF IsLRU THEN RL!Evictable(replacer) ELSE RK!Evictable(replacer)

Abs == INSTANCE Replacer WITH tracked <- Tracked, evictable <- Evictable

\* Either replacer implements the replacer contract: every Pin, Unpin and
\* Victim is a step of Replacer under the mapping tracked = frames in
\* lru_list_ or node_store_, evictable = those flagged evictable.  This
\* covers Victim only returning evictable frames and Unpin refusing a new
\* frame only at capacity.
RefinesReplacer == Abs!Spec

\* Size() (cur_size_, adjusted by hand in Pin, Unpin and Victim) equals the
\* number of evictable entries of lru_list_, or evictable nodes of
\* node_store_ (spec 4.1 invariant), after any sequence of calls.
SizeIsEvictableCount ==
  replacer.cur_size =
    IF IsLRU THEN Cardinality({i \in DOMAIN replacer.list : replacer.list[i].evictable})
    ELSE Cardinality(RK!Evictable(replacer))

\* The victim policy of spec 4.1, for a victim v chosen in LRU-K state r: a
\* node with fewer than K accesses (+inf distance) is chosen before any with
\* K; among +inf nodes the one first accessed earliest (nodes that were
\* never pinned have no access time and are not compared); among finite
\* ones the largest backward K-distance.
BestVictim(r, v) ==
  LET ev   == RK!Evictable(r)
      dist(f) == RK!BackwardKDistance(r.store[f], r.cur_ts)
      infs == {f \in ev : dist(f) = RK!Inf}
  IN /\ v \in ev
     /\ infs # {} => v \in infs
     /\ (v \in infs /\ r.store[v].history # <<>>) =>
          \A w \in infs : r.store[w].history # <<>> =>
            RK!EarliestTimestamp(r.store[v]) <= RK!EarliestTimestamp(r.store[w])
     /\ infs = {} => \A w \in ev : dist(v) >= dist(w)

\* LRUKReplacer::Victim removes only a best victim, whatever order
\* node_store_ is iterated in.
VictimFollowsPolicy ==
  [][~IsLRU => \A v \in DOMAIN replacer.store \ DOMAIN replacer'.store :
                 BestVictim(replacer, v)]_vars

\* LRUReplacer::Victim removes the evictable frame used least recently,
\* where a use is a Pin, or the Unpin that first admits a frame; an Unpin
\* of a tracked frame is not a use (spec 4.1: Pin moves a frame to the MRU
\* end; the order lru_list_ keeps through splice, push_back and erase).
LRUVictimLeastRecentlyUsed ==
  [][IsLRU => \A v \in RL!Tracked(replacer) \ RL!Tracked(replacer') :
                \A w \in RL!Evictable(replacer) \ {v} : <<v, w>> \in before]_vars
=============================================================================
