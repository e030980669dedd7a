----------------------------- MODULE BufferPool -----------------------------
(***************************************************************************)
(* BufferPoolManager (src/src/storage/buffer/buffer_pool_manager.cpp) with *)
(* the threads that use it through page guards.                            *)
(*                                                                         *)
(* Every public method of the pool holds latch_ for its whole body, so    *)
(* each is one step; the replacer calls it makes are composed inside that  *)
(* step.  Concurrency is between those steps: several client threads hold  *)
(* pins (guards) on pages, write the bytes of pages they hold for writing  *)
(* (outside the latch), and release them, while any thread may flush or    *)
(* delete pages.  Page bytes are abstracted to a version number: a write   *)
(* makes a new version, the disk keeps the version last written to it.     *)
(***************************************************************************)
EXTENDS Integers, SequencesExt, FiniteSets

CONSTANTS
  BufferPoolSize,  \* BUFFER_POOL_SIZE
  Pages,           \* the (file_id, page_id) pairs in use, as <<fid, pid>>
  Clients,         \* threads holding guards
  MaxVersion,      \* bound on the writes to any one page
  REPLACERS,       \* the replacer policies config.h may name (one per build)
  ReplacerK,       \* replacer_lru_k, the K passed to LRUKReplacer
  MaxTs            \* bound on the LRU-K clock (model bound)

ASSUME BufferPoolSize \in Nat \ {0}
ASSUME MaxVersion \in Nat
ASSUME REPLACERS \subseteq {"LRUReplacer", "LRUKReplacer"} /\ REPLACERS # {}

Frames == 0 .. BufferPoolSize - 1
Files == {p[1] : p \in Pages}
FileOf(p) == p[1]

NoFrame == -1                 \* INVALID_FRAME_ID: page not in page table
NoPage == <<-1, -1>>          \* identity of a reset frame
Versions == 0 .. MaxVersion

VARIABLES
  frame_page,   \* frame -> identity of the page it holds (Page file/page id)
  pin_count,    \* frame -> pin count
  dirty,        \* frame -> dirty flag
  frame_data,   \* frame -> version of the page bytes it holds
  page_table,   \* page_frame_lookup_: page -> frame, NoFrame if absent
  free_list,    \* free_list_: frames, front first
  replacer,     \* the replacer's state (LRUReplacer or LRUKReplacer)
  disk,         \* page -> version last written by DiskManager::WritePage
  guards,       \* client -> page -> "none", "read" or "write" guard held
  latest        \* ghost: page -> the last version any client wrote

vars == <<frame_page, pin_count, dirty, frame_data, page_table, free_list,
          replacer, disk, guards, latest>>

RL == INSTANCE LRUReplacer WITH FrameIds <- Frames, MaxSize <- BufferPoolSize,
                                lru <- replacer
RK == INSTANCE LRUKReplacer WITH FrameIds <- Frames, MaxSize <- BufferPoolSize,
                                 K <- ReplacerK, lruk <- replacer

(***************************************************************************)
(* The pool holds its replacer behind the Replacer interface; the          *)
(* constructor picks the class from REPLACER, one of REPLACERS; the state *)
(* of an LRUReplacer (a list) tells it from an LRUKReplacer's (a store).   *)
(* These operators dispatch a call to the chosen policy.  LRU picks one victim; LRU-K may pick any of *)
(* a set, as its scan order over node_store_ is unspecified.  Every LRU-K  *)
(* Pin advances the clock, so a step that pins is taken only while the     *)
(* clock has room (RCanPin(n): n more pins fit).                           *)
(***************************************************************************)
IsLRU(r) == "list" \in DOMAIN r
RInit(REPLACER) == IF REPLACER = "LRUReplacer" THEN RL!LruInit ELSE RK!LrukInit
RTypeOK == IF IsLRU(replacer) THEN RL!LruTypeOK ELSE RK!LrukTypeOK
RPin(r, f) == IF IsLRU(r) THEN RL!Pin(r, f) ELSE RK!Pin(r, f)
RUnpin(r, f) == IF IsLRU(r) THEN RL!Unpin(r, f) ELSE RK!Unpin(r, f)
REvictable(r) == IF IsLRU(r) THEN RL!Evictable(r) ELSE RK!Evictable(r)
RVictims(r) ==
  IF IsLRU(r) THEN (IF RL!HasVictim(r) THEN {RL!VictimFrame(r)} ELSE {})
  ELSE RK!Victims(r)
RAfterVictim(r, v) == IF IsLRU(r) THEN RL!AfterVictim(r) ELSE RK!AfterVictim(r, v)
RCanPin(r, n) == IF IsLRU(r) THEN TRUE ELSE r.cur_ts + n <= MaxTs

TypeOK ==
  /\ frame_page \in [Frames -> Pages \cup {NoPage}]
  /\ pin_count \in [Frames -> Nat]
  /\ dirty \in [Frames -> BOOLEAN]
  /\ frame_data \in [Frames -> Versions]
  /\ page_table \in [Pages -> Frames \cup {NoFrame}]
  /\ free_list \in Seq(Frames)
  /\ RTypeOK
  /\ disk \in [Pages -> Versions]
  /\ guards \in [Clients -> [Pages -> {"none", "read", "write"}]]
  /\ latest \in [Pages -> Versions]

Resident(p) == page_table[p] # NoFrame

\* Constructor: every frame on the free list in order, all frames reset;
\* the disk holds version 0 of every page.
Init ==
  /\ frame_page = [f \in Frames |-> NoPage]
  /\ pin_count = [f \in Frames |-> 0]
  /\ dirty = [f \in Frames |-> FALSE]
  /\ frame_data = [f \in Frames |-> 0]
  /\ page_table = [p \in Pages |-> NoFrame]
  /\ free_list = [i \in 1 .. BufferPoolSize |-> i - 1]
  /\ replacer \in {RInit(x) : x \in REPLACERS}
  /\ disk = [p \in Pages |-> 0]
  /\ guards = [c \in Clients |-> [p \in Pages |-> "none"]]
  /\ latest = [p \in Pages |-> 0]

\* Frame::Reset: no page, unpinned, clean, zeroed bytes.
ResetFrame(f) ==
  /\ frame_page' = [frame_page EXCEPT ![f] = NoPage]
  /\ pin_count' = [pin_count EXCEPT ![f] = 0]
  /\ dirty' = [dirty EXCEPT ![f] = FALSE]
  /\ frame_data' = [frame_data EXCEPT ![f] = 0]

\* The disk after writing out frame f's bytes when it is dirty.
FlushedIfDirty(d, f) ==
  IF dirty[f] THEN [d EXCEPT ![frame_page[f]] = frame_data[f]] ELSE d

(***************************************************************************)
(* FetchPage(fid, pid).  A hit pins the frame and tells the replacer.  A   *)
(* miss takes a frame (GetAvailableFrame: the free list's head, else the   *)
(* replacer's victim, written out if dirty and dropped from the page       *)
(* table), then UpdateFrame resets it, reads the page from disk, pins it,  *)
(* tells the replacer and enters it in the page table.  With no free frame *)
(* and no victim the NJUDB_NO_FREE_FRAME exception becomes a null return   *)
(* and nothing changes.  The caller c gets a guard of the given mode.      *)
(***************************************************************************)
\* Mutant: a hit that pins the frame but does not tell the replacer.
FetchHitNoReplacerPin(c, p, mode) ==
  LET f == page_table[p] IN
  /\ Resident(p)
  /\ pin_count' = [pin_count EXCEPT ![f] = @ + 1]
  /\ UNCHANGED <<frame_page, dirty, frame_data, page_table, free_list, disk, replacer>>

FetchHit(c, p, mode) ==
  LET f == page_table[p] IN
  /\ Resident(p)
  /\ pin_count' = [pin_count EXCEPT ![f] = @ + 1]
  /\ replacer' = RPin(replacer, f)
  /\ UNCHANGED <<frame_page, dirty, frame_data, page_table, free_list, disk>>

\* UpdateFrame(f, p) on top of a reset frame; the page table is given the
\* new entry on top of `table`.
LoadInto(f, p, table, repl) ==
  /\ frame_page' = [frame_page EXCEPT ![f] = p]
  /\ pin_count' = [pin_count EXCEPT ![f] = 1]
  /\ dirty' = [dirty EXCEPT ![f] = FALSE]
  /\ replacer' = RPin(repl, f)
  /\ page_table' = [table EXCEPT ![p] = f]

FetchFromFreeList(c, p, mode) ==
  LET f == Head(free_list) IN
  /\ ~Resident(p)
  /\ free_list # <<>>
  /\ free_list' = Tail(free_list)
  /\ LoadInto(f, p, page_table, replacer)
  /\ frame_data' = [frame_data EXCEPT ![f] = disk[p]]
  /\ UNCHANGED disk

FetchByEviction(c, p, mode) ==
  /\ ~Resident(p)
  /\ free_list = <<>>
  /\ \E v \in RVictims(replacer) :
       LET d == FlushedIfDirty(disk, v) IN
       /\ disk' = d
       /\ LoadInto(v, p, [page_table EXCEPT ![frame_page[v]] = NoFrame],
                   RAfterVictim(replacer, v))
       /\ frame_data' = [frame_data EXCEPT ![v] = d[p]]
  /\ UNCHANGED free_list

FetchPage(c, p, mode) ==
  /\ guards[c][p] = "none"
  /\ RCanPin(replacer, 1)
  /\ \/ FetchHit(c, p, mode)
     \/ FetchFromFreeList(c, p, mode)
     \/ FetchByEviction(c, p, mode)
  /\ guards' = [guards EXCEPT ![c][p] = mode]
  /\ UNCHANGED latest

FetchPageFails(c, p) ==
  /\ guards[c][p] = "none"
  /\ ~Resident(p)
  /\ free_list = <<>>
  /\ RVictims(replacer) = {}
  /\ UNCHANGED vars

(***************************************************************************)
(* A thread holding a write guard changes the page bytes.  This is done    *)
(* through the Page pointer, outside the pool latch.                       *)
(***************************************************************************)
WritePage(c, p) ==
  LET f == page_table[p] IN
  /\ guards[c][p] = "write"
  /\ latest[p] < MaxVersion
  /\ frame_data' = [frame_data EXCEPT ![f] = latest[p] + 1]
  /\ latest' = [latest EXCEPT ![p] = @ + 1]
  /\ UNCHANGED <<frame_page, pin_count, dirty, page_table, free_list, replacer,
                 disk, guards>>

(***************************************************************************)
(* UnpinPage(fid, pid, is_dirty): false if the page is not resident or its *)
(* pin count is already 0; otherwise set dirty if asked, drop one pin, and *)
(* when the count reaches 0 tell the replacer the frame is evictable.      *)
(***************************************************************************)
\* Mutants: UnpinPage that ignores is_dirty; that tells the replacer on
\* every unpin instead of at pin count 0; that lacks the pin count check.
UnpinPageIgnoresDirty(p, is_dirty) ==
  LET f == page_table[p] IN
  \/ /\ ~Resident(p)
     /\ UNCHANGED <<frame_page, pin_count, dirty, replacer>>
  \/ /\ Resident(p)
     /\ pin_count[f] <= 0
     /\ UNCHANGED <<frame_page, pin_count, dirty, replacer>>
  \/ /\ Resident(p)
     /\ pin_count[f] > 0
     /\ pin_count' = [pin_count EXCEPT ![f] = @ - 1]
     /\ replacer' = IF pin_count[f] - 1 = 0 THEN RUnpin(replacer, f) ELSE replacer
     /\ UNCHANGED <<frame_page, dirty>>

UnpinPageAlwaysTellsReplacer(p, is_dirty) ==
  LET f == page_table[p] IN
  \/ /\ ~Resident(p)
     /\ UNCHANGED <<frame_page, pin_count, dirty, replacer>>
  \/ /\ Resident(p)
     /\ pin_count[f] <= 0
     /\ UNCHANGED <<frame_page, pin_count, dirty, replacer>>
  \/ /\ Resident(p)
     /\ pin_count[f] > 0
     /\ dirty' = [dirty EXCEPT ![f] = @ \/ is_dirty]
     /\ pin_count' = [pin_count EXCEPT ![f] = @ - 1]
     /\ replacer' = RUnpin(replacer, f)
     /\ UNCHANGED frame_page

UnpinPageNoPinCheck(p, is_dirty) ==
  LET f == page_table[p] IN
  \/ /\ ~Resident(p)
     /\ UNCHANGED <<frame_page, pin_count, dirty, replacer>>
  \/ /\ Resident(p)
     /\ dirty' = [dirty EXCEPT ![f] = @ \/ is_dirty]
     /\ pin_count' = [pin_count EXCEPT ![f] = @ - 1]
     /\ replacer' = IF pin_count[f] - 1 = 0 THEN RUnpin(replacer, f) ELSE replacer
     /\ UNCHANGED frame_page

UnpinPage(p, is_dirty) ==
  LET f == page_table[p] IN
  \/ /\ ~Resident(p)
     /\ UNCHANGED <<frame_page, pin_count, dirty, replacer>>
  \/ /\ Resident(p)
     /\ pin_count[f] <= 0
     /\ UNCHANGED <<frame_page, pin_count, dirty, replacer>>
  \/ /\ Resident(p)
     /\ pin_count[f] > 0
     /\ dirty' = [dirty EXCEPT ![f] = @ \/ is_dirty]
     /\ pin_count' = [pin_count EXCEPT ![f] = @ - 1]
     /\ replacer' = IF pin_count[f] - 1 = 0 THEN RUnpin(replacer, f) ELSE replacer
     /\ UNCHANGED frame_page

\* A guard's destructor (or Drop) unpins, dirty iff it was a write guard.
ReleaseGuard(c, p) ==
  /\ guards[c][p] # "none"
  /\ UnpinPage(p, guards[c][p] = "write")
  /\ guards' = [guards EXCEPT ![c][p] = "none"]
  /\ UNCHANGED <<frame_data, page_table, free_list, disk, latest>>

\* A repeated UnpinPage for a page whose pins have all been released
\* (spec 8: the second of two UnpinPage calls returns false).
RepeatedUnpin(p, is_dirty) ==
  /\ \A c \in Clients : guards[c][p] = "none"
  /\ UnpinPage(p, is_dirty)
  /\ UNCHANGED <<frame_data, page_table, free_list, disk, guards, latest>>

(***************************************************************************)
(* FlushPage(fid, pid): false if not resident; a dirty frame is written    *)
(* out and marked clean.  FlushAllPages(fid) does that for every resident  *)
(* page of the file.                                                       *)
(***************************************************************************)
FlushPage(p) ==
  LET f == page_table[p] IN
  /\ Resident(p)
  /\ disk' = FlushedIfDirty(disk, f)
  /\ dirty' = [dirty EXCEPT ![f] = FALSE]
  /\ UNCHANGED <<frame_page, pin_count, frame_data, page_table, free_list,
                 replacer, guards, latest>>

FlushPageMiss(p) ==
  /\ ~Resident(p)
  /\ UNCHANGED vars

FlushAllPages(fid) ==
  LET fs == {page_table[p] : p \in {q \in Pages : FileOf(q) = fid /\ Resident(q)}} IN
  /\ disk' = [p \in Pages |-> IF Resident(p) /\ page_table[p] \in fs /\ dirty[page_table[p]]
                              THEN frame_data[page_table[p]] ELSE disk[p]]
  /\ dirty' = [f \in Frames |-> IF f \in fs THEN FALSE ELSE dirty[f]]
  /\ UNCHANGED <<frame_page, pin_count, frame_data, page_table, free_list,
                 replacer, guards, latest>>

(***************************************************************************)
(* DeletePage(fid, pid): true with no effect if not resident; false if     *)
(* pinned; otherwise write it out if dirty, erase it from the page table,  *)
(* Pin the frame in the replacer (so it is no longer a victim candidate),  *)
(* reset the frame and push it on the back of the free list.               *)
(***************************************************************************)
\* Mutants: DeletePage that leaves the page table entry behind; that does
\* not return the frame to the free list.
DeletePageKeepsEntry(p) ==
  LET f == page_table[p] IN
  /\ Resident(p)
  /\ pin_count[f] = 0
  /\ RCanPin(replacer, 1)
  /\ disk' = FlushedIfDirty(disk, f)
  /\ replacer' = RPin(replacer, f)
  /\ ResetFrame(f)
  /\ free_list' = Append(free_list, f)
  /\ UNCHANGED <<guards, latest, page_table>>

DeletePageNoFreeList(p) ==
  LET f == page_table[p] IN
  /\ Resident(p)
  /\ pin_count[f] = 0
  /\ RCanPin(replacer, 1)
  /\ disk' = FlushedIfDirty(disk, f)
  /\ page_table' = [page_table EXCEPT ![p] = NoFrame]
  /\ replacer' = RPin(replacer, f)
  /\ ResetFrame(f)
  /\ UNCHANGED <<guards, latest, free_list>>

DeletePage(p) ==
  LET f == page_table[p] IN
  /\ Resident(p)
  /\ pin_count[f] = 0
  /\ RCanPin(replacer, 1)
  /\ disk' = FlushedIfDirty(disk, f)
  /\ page_table' = [page_table EXCEPT ![p] = NoFrame]
  /\ replacer' = RPin(replacer, f)
  /\ ResetFrame(f)
  /\ free_list' = Append(free_list, f)
  /\ UNCHANGED <<guards, latest>>

DeletePageRefused(p) ==
  /\ Resident(p)
  /\ pin_count[page_table[p]] > 0
  /\ UNCHANGED vars

DeletePageMiss(p) ==
  /\ ~Resident(p)
  /\ UNCHANGED vars

(***************************************************************************)
(* DeleteAllPages(fid) walks page_frame_lookup_ (an unordered map, so in   *)
(* an order the model leaves open) deleting each page of the file as       *)
(* DeletePage does, but returns false at the first pinned one, keeping the *)
(* deletions already done.  `gone` is the set deleted before stopping: all *)
(* of the file's resident pages when none is pinned, otherwise any set of  *)
(* unpinned ones.  Freed frames join the free list in visiting order.      *)
(***************************************************************************)
DeleteAllPages(fid) ==
  LET mine == {p \in Pages : FileOf(p) = fid /\ Resident(p)}
      unpinned == {p \in mine : pin_count[page_table[p]] = 0}
  IN
  \E gone \in SUBSET unpinned :
    /\ unpinned = mine => gone = mine
    /\ RCanPin(replacer, Cardinality(gone))
    /\ \E order \in SetToSeqs(gone) :
         LET fs == {page_table[p] : p \in gone} IN
         /\ disk' = [p \in Pages |-> IF p \in gone /\ dirty[page_table[p]]
                                     THEN frame_data[page_table[p]] ELSE disk[p]]
         /\ page_table' = [p \in Pages |-> IF p \in gone THEN NoFrame ELSE page_table[p]]
         /\ replacer' = FoldLeft(LAMBDA r, p : RPin(r, page_table[p]), replacer, order)
         /\ frame_page' = [f \in Frames |-> IF f \in fs THEN NoPage ELSE frame_page[f]]
         /\ pin_count' = [f \in Frames |-> IF f \in fs THEN 0 ELSE pin_count[f]]
         /\ dirty' = [f \in Frames |-> IF f \in fs THEN FALSE ELSE dirty[f]]
         /\ frame_data' = [f \in Frames |-> IF f \in fs THEN 0 ELSE frame_data[f]]
         /\ free_list' = free_list \o [i \in DOMAIN order |-> page_table[order[i]]]
  /\ UNCHANGED <<guards, latest>>

Next ==
  \/ \E c \in Clients, p \in Pages :
       \/ \E mode \in {"read", "write"} : FetchPage(c, p, mode)
       \/ FetchPageFails(c, p)
       \/ WritePage(c, p)
       \/ ReleaseGuard(c, p)
  \/ \E p \in Pages :
       \/ \E is_dirty \in BOOLEAN : RepeatedUnpin(p, is_dirty)
       \/ FlushPage(p) \/ FlushPageMiss(p)
       \/ DeletePage(p) \/ DeletePageRefused(p) \/ DeletePageMiss(p)
  \/ \E fid \in Files : FlushAllPages(fid) \/ DeleteAllPages(fid)

Spec == Init /\ [][Next]_vars
=============================================================================
