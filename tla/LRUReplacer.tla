----------------------------- MODULE LRUReplacer -----------------------------
(***************************************************************************)
(* LRUReplacer (src/src/storage/buffer/replacer/lru_replacer.cpp).         *)
(*                                                                         *)
(* The replacer's state is one record: list is lru_list_, the sequence of  *)
(* (frame_id, evictable) pairs in list order, and cur_size is cur_size_,   *)
(* the counter the code adjusts by hand beside the list.  lru_hash_ maps a *)
(* frame to its list position, so it is the set of frames in the list and *)
(* is not kept separately.  Every public method takes the replacer latch,  *)
(* so each is one step.  The methods are written as operators from a      *)
(* state to the next state so that the buffer pool, which calls several of *)
(* them inside one of its own latched operations, can compose them.        *)
(***************************************************************************)
EXTENDS Integers, SequencesExt

CONSTANTS
  FrameIds,   \* frame ids a caller may pass
  MaxSize     \* max_size_, initialised to BUFFER_POOL_SIZE

ASSUME MaxSize \in Nat \ {0}

VARIABLE lru

Entry == [frame_id : FrameIds, evictable : BOOLEAN]

\* cur_size_ is a size_t: it never goes below 0 in a correct run.
LruTypeOK == lru \in [list : Seq(Entry), cur_size : Nat]

\* Constructor: empty list, cur_size_(0).
LruInit == [list |-> <<>>, cur_size |-> 0]

\* Position of frame f in lru_list_ (the lookup in lru_hash_), 0 if absent.
Position(r, f) == SelectInSeq(r.list, LAMBDA e : e.frame_id = f)

\* The frames lru_hash_ holds, and those flagged evictable.
Tracked(r) == {r.list[i].frame_id : i \in DOMAIN r.list}
Evictable(r) == {r.list[i].frame_id : i \in {j \in DOMAIN r.list : r.list[j].evictable}}

\* Victim scans the list from the front for the first evictable entry;
\* if there is one it is erased from hash and list and cur_size_ drops.
FirstEvictable(r) == SelectInSeq(r.list, LAMBDA e : e.evictable)

HasVictim(r) == FirstEvictable(r) # 0

VictimFrame(r) == r.list[FirstEvictable(r)].frame_id

AfterVictim(r) ==
  [list |-> RemoveAt(r.list, FirstEvictable(r)), cur_size |-> r.cur_size - 1]

\* Mutant: Pin that clears a tracked frame's flag but does not splice it.
PinNoSplice(r, f) ==
  LET i == Position(r, f) IN
  IF i # 0
  THEN [list |-> [r.list EXCEPT ![i].evictable = FALSE],
        cur_size |-> IF r.list[i].evictable THEN r.cur_size - 1 ELSE r.cur_size]
  ELSE [list |-> Append(r.list, [frame_id |-> f, evictable |-> FALSE]),
        cur_size |-> r.cur_size]

\* Pin: a tracked frame loses its evictable flag (cur_size_ drops if it had
\* it) and is spliced to the end of the list; an untracked frame is pushed
\* at the end as non-evictable.
Pin(r, f) ==
  LET i == Position(r, f) IN
  IF i # 0
  THEN [list |-> Append(RemoveAt(r.list, i), [frame_id |-> f, evictable |-> FALSE]),
        cur_size |-> IF r.list[i].evictable THEN r.cur_size - 1 ELSE r.cur_size]
  ELSE [list |-> Append(r.list, [frame_id |-> f, evictable |-> FALSE]),
        cur_size |-> r.cur_size]

\* Mutant: Unpin that sets the flag of a tracked frame without counting it.
UnpinKeepsSize(r, f) ==
  LET i == Position(r, f) IN
  IF i # 0
  THEN [list |-> [r.list EXCEPT ![i].evictable = TRUE], cur_size |-> r.cur_size]
  ELSE IF Len(r.list) >= MaxSize
       THEN r
       ELSE [list |-> Append(r.list, [frame_id |-> f, evictable |-> TRUE]),
             cur_size |-> r.cur_size + 1]

\* Mutant: Unpin whose capacity check is off by one (<= for <).
UnpinOffByOne(r, f) ==
  LET i == Position(r, f) IN
  IF i # 0
  THEN [list |-> [r.list EXCEPT ![i].evictable = TRUE],
        cur_size |-> IF r.list[i].evictable THEN r.cur_size ELSE r.cur_size + 1]
  ELSE IF Len(r.list) > MaxSize
       THEN r
       ELSE [list |-> Append(r.list, [frame_id |-> f, evictable |-> TRUE]),
             cur_size |-> r.cur_size + 1]

\* Unpin: a tracked frame gets its evictable flag (cur_size_ grows if it
\* lacked it) and keeps its list position; an untracked frame is pushed at
\* the end as evictable, unless the list already holds max_size_ entries.
Unpin(r, f) ==
  LET i == Position(r, f) IN
  IF i # 0
  THEN [list |-> [r.list EXCEPT ![i].evictable = TRUE],
        cur_size |-> IF r.list[i].evictable THEN r.cur_size ELSE r.cur_size + 1]
  ELSE IF Len(r.list) >= MaxSize
       THEN r
       ELSE [list |-> Append(r.list, [frame_id |-> f, evictable |-> TRUE]),
             cur_size |-> r.cur_size + 1]

\* Size returns cur_size_.
Size(r) == r.cur_size

(***************************************************************************)
(* The replacer on its own: any caller may call any method at any time.    *)
(***************************************************************************)
PinStep(f) == lru' = Pin(lru, f)

UnpinStep(f) == lru' = Unpin(lru, f)

VictimStep ==
  /\ HasVictim(lru)
  /\ lru' = AfterVictim(lru)

NoVictimStep ==
  /\ ~HasVictim(lru)
  /\ UNCHANGED lru

LruNext ==
  \/ \E f \in FrameIds : PinStep(f) \/ UnpinStep(f)
  \/ VictimStep
  \/ NoVictimStep

LruSpec == lru = LruInit /\ [][LruNext]_lru
=============================================================================
