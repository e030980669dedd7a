# TLA+ models of the NJU_DBPractice storage core

This directory holds TLA+ models of the storage engine in `src/src`: the
buffer pool and its page replacers, the table heap, the B+tree index, and
the index-scan executor. Each model is written from the C++ source. The
models are checked with TLC. `PROJECT.json` lists the components, the
runs, the mutants that show each property can fail, the source lines each
definition models, the findings and the hazards.

## 1. Inventory of the system

| Component | Source | State it keeps | Operations |
|---|---|---|---|
| LRU replacer | `storage/buffer/replacer/lru_replacer.cpp` | `lru_list_` of (frame, evictable) pairs in list order; `lru_hash_` (frame -> list position); `cur_size_`; `max_size_` = `BUFFER_POOL_SIZE` | `Pin`, `Unpin`, `Victim`, `Size` |
| LRU-K replacer | `storage/buffer/replacer/lru_k_replacer.cpp` | `node_store_` (frame -> `LRUKNode`: up to K timestamps and an evictable flag); the logical clock `cur_ts_`; `cur_size_`; `max_size_`; `k_` | `Pin`, `Unpin`, `Victim`, `Size` |
| Buffer pool manager | `storage/buffer/buffer_pool_manager.cpp` | `frames_` (page identity, bytes, pin count, dirty flag); `page_frame_lookup_` ((fid, pid) -> frame); `free_list_`; one replacer; `latch_` | `FetchPage`, `UnpinPage`, `FlushPage`, `FlushAllPages`, `DeletePage`, `DeleteAllPages`, `FetchPageRead`/`Write` (guard factories), and the helpers `GetAvailableFrame` and `UpdateFrame` |
| Page guards | `page_guard.h/.cpp` (not under `src/`) | the page pointer and (fid, pid) | construction after `FetchPage`; `GetMutableData` (a write); `Drop` and the destructor unpin once (dirty for write guards); a move hands the same pin to another handle and changes no pool state |
| Table handle | `system/handle/table_handle.cpp` | the table header (`page_num_`, `first_free_page_`, `rec_per_page_`); for each slotted page its bitmap, `record_num` and `next_free_page_id` | `InsertRecord(r)`, `InsertRecord(rid, r)`, `DeleteRecord`, `UpdateRecord`, `GetRecord`, `GetChunk`, `GetFirstRID`, `GetNextRID`, and the helpers `CreatePageHandle` and `CreateNewPageHandle` |
| B+tree index | `storage/index/index_bptree.cpp` | the header page (root, height, `page_num_`, `num_entries_`, free page chain, max sizes); leaf and internal nodes (keys, RIDs/children, size, parent, next leaf); `index_latch_` | `Insert` (`StartNewTree`, `InsertIntoLeaf`, `InsertIntoParent`, `InsertIntoNewRoot`), `Delete` (`CoalesceOrRedistribute`, `Coalesce`, `Redistribute`, `AdjustRoot`), `Search`, `SearchRange`, `Begin`/`End` and the iterator, `Clear`, `Size`, `IsEmpty`, `GetHeight`, `NewPage`, `DeletePage` |
| Index-scan executor | `execution/executor_idxscan.cpp` | the range keys `low_` and `high_`; the two "exclusive endpoint" flags; the RID vector; `start_idx_`, `end_idx_`, `current_idx_` | `GenerateRangeKeys`, `Init`, `Next`, `IsEnd` |
| Disk manager, log manager, records, bitmaps, page handles (NARY/PAX), key schema | not under `src/` | - | used as black boxes: the disk stores the page bytes last written |

### How the components interact

* The table handle and the B+tree reach pages only through the buffer
  pool. They call `FetchPage`, or a guard factory, and later `UnpinPage`,
  either directly or through the guard's destructor.
* The buffer pool calls its replacer inside its own latch. A fetch calls
  `Pin`. An unpin that drops the pin count to 0 calls `Unpin`. A miss with
  an empty free list calls `Victim`. `DeletePage` calls `Pin` on the frame
  it frees. The pool reads and writes page bytes through the disk manager,
  synchronously and under the latch.
* The index-scan executor calls `SearchRange` on the index once. It then
  calls `GetRecord` on the table for the first and last RIDs, to trim
  exclusive bounds, and for each RID it yields.

### What is hard

* **Interleaving.** Every buffer-pool method is atomic under `latch_`.
  Threads still interleave between those methods, and they change page
  bytes through the pointers they hold with no latch. A pin taken by one
  thread must keep its frame from being reused. A write must reach the
  disk before its frame is reused.
* **Bookkeeping spread over several structures.** Three things must agree
  at every step: the frame array, the page table with the free list, and
  the replacer's list with its hand-kept `cur_size_`.
* **Partial failure.** `DeleteAllPages` returns false at the first pinned
  page it meets. By then it has already deleted the pages it visited, in
  `unordered_map` order.
* **Boundaries.** A full buffer pool, where every frame is pinned. The
  replacer's capacity. A slotted page that becomes full, or is no longer
  full. A B+tree node at its maximum or minimum size. Duplicate keys that
  span leaves. Exclusive range bounds.
* **Sequences of legal calls.** The table heap's free-page chain is
  maintained in three places. `InsertRecord(rid, r)` unlinks a page that
  becomes full only when that page is the head of the chain.

### What makes each component correct

* Replacer: `Size()` equals the number of evictable frames. `Victim`
  returns only an evictable frame, and removes it. `Unpin` refuses a new
  frame only at capacity. Which victim is chosen is the policy: LRU order
  for LRU; the largest backward K-distance for LRU-K, where fewer than K
  accesses counts as infinite and ties go to the earliest timestamp.
* Buffer pool: no write is lost. A pinned page stays in its frame. Pin
  counts equal the number of outstanding guards. Every frame is on the
  free list or in the page table, never both. The replacer's evictable set
  is exactly the resident frames that nobody has pinned. A fetch fails
  only when every frame is pinned.
* Table heap: the bitmap's popcount equals `record_num`. The free chain
  holds exactly the pages that are not full, each once, with no cycle. A
  record is readable exactly between its insert and its delete.
* B+tree: keys are sorted within each node and across the leaf chain.
  Separators bound their subtrees. Every leaf is at the same depth. Node
  sizes stay within their bounds. `num_entries_` equals the entries in
  the leaves. `Search` and `SearchRange` return exactly the matching
  entries of the abstract multiset.
* Index scan: the scan yields exactly the RIDs whose keys satisfy the
  predicate, in the requested order.

## 2. Plan

Modules, in the order they are built. The most important behaviour comes
first: page lifetime and write durability in the buffer pool, which
everything else stands on.

1. `Replacer`: the abstract replacer contract.
2. `LRUReplacer`: LRU, shown to refine `Replacer`. *(done)*
3. `BufferPool` and `MCBufferPool`: the pool composed with a replacer and
   with client threads holding read and write guards. *(done)*
4. `LRUKReplacer`: LRU-K, its refinement to `Replacer`, and its victim
   order. `MCReplacers` checks both replacers. `BufferPool` takes its
   replacer from a `REPLACERS` constant and dispatches the way the
   constructor does. *(done)*
5. `TableHeap`: the table handle's record and free-chain operations over
   slotted pages. Page access through the pool is abstracted to atomic
   per-call steps; the spec gives mutual exclusion to a higher layer.
   Properties: the free chain is exact, callers' records are stored, the
   scan yields every record. Violation runs for `InsertRecord(rid, r)`.
   *(done)*
6. `BPTree`: the B+tree as a set of nodes keyed by page id, with `Insert`
   and `Delete`, including splits, coalescing, redistribution and root
   adjustment, under the tree lock. One operation is one step. Properties:
   structural invariants; refinement to an abstract multiset `KeyMultiset`
   with `Search` and `SearchRange` as operators; a check of `Search` with
   duplicate keys. *(done)*
7. `IndexScan`: `GenerateRangeKeys` and `Init` as pure operators over
   small predicate sets, checked against a reference filter. *(done)*
8. `MCBPTreeIter`: a reader's iterator walk, whose calls take no latch,
   interleaved with writers. *(done)*

Bounds for each run are given with the run below.

## 3. Modules and runs

### `Replacer` (abstract)

State: `tracked` (the frames the replacer knows) and `evictable`.
`Pin(f)` tracks f as non-evictable. `Unpin(f)` makes f evictable, and may
refuse an untracked f only when `MaxSize` frames are already tracked.
`Victim(v)` removes an evictable v. The contract says nothing about which
victim is chosen.

### `LRUReplacer`

The state is one record `lru = [list, cur_size]`. `list` is `lru_list_`;
`lru_hash_` is derived from it. Each method is an operator from a replacer
state to the next one. `BufferPool` composes several replacer calls inside
one latched step, for example `Victim` followed by `Pin` in a fetch that
evicts. `LruNext` drives the replacer alone, with any call at any time.

The run for both replacers is described after `LRUKReplacer`.

### `LRUKReplacer`

The state is one record `lruk = [store, cur_ts, cur_size]`. `store` is
`node_store_`: a function from the tracked frames to their node, which
holds a history of up to K timestamps (oldest first) and the evictable
flag. `cur_ts` is the logical clock `cur_ts_`. `LRUKNode` is not under
`src/`, so its methods (`AddHistory`, `GetBackwardKDistance`,
`GetEarliestTimestamp`) are modelled from spec 3. `+inf` and the
"no timestamp" value are `MaxTs + 1`, larger than any distance or time the
bounded clock reaches.

`Victim` walks `node_store_`, an `unordered_map`, so its visiting order is
not fixed. `Victims(r)` folds the loop body `ScanStep` over every order of
the evictable nodes and returns the set of frames the walk can pick. A node
that `Unpin` created without a `Pin` has an empty history; reading its
front is undefined, and the model lets it be any value.

### `MCReplacers`

`MCReplacers` drives one replacer alone, with any call at any time. A
behaviour starts from a new `LRUReplacer` or a new `LRUKReplacer` and
keeps it, as the buffer pool's constructor does. The state tells the two
classes apart: an LRU state has a `list` and an LRU-K state has a `store`.
For LRU it keeps a ghost `before`, the order of last use of the tracked
frames: `UsedNow(f)` puts f after every other tracked frame at a `Pin`, and
at the `Unpin` that admits f; `LruGhostNext` is `LRUReplacer`'s steps with
that update.

Run `replacers` (`MCReplacers.cfg`). Frames {0,1,2}, `MaxSize` 2, K = 2,
and clock bound 5. With these bounds LRU-K nodes reach both finite and
infinite distance, and the third frame meets the capacity refusal in
`Unpin`. It reaches 6,301 states.
* `SizeIsEvictableCount`: `cur_size_` equals the number of evictable
  entries or nodes.
* `RefinesReplacer`: `Replacer!Spec` holds for either class under the
  mapping tracked = frames in the list or in `node_store_`, evictable =
  flagged frames.
* `VictimFollowsPolicy` (action property): whatever order LRU-K walks
  the map in, its victim is one the spec's policy allows. An infinite
  distance beats every finite one. Among infinite ones the earliest first
  access wins. Among finite ones the largest distance wins.
* `LRUVictimLeastRecentlyUsed` (action property): the LRU victim is the
  evictable frame used least recently, where a use is a `Pin` or the
  admitting `Unpin`. It holds only if `Pin`'s splice to the end, the
  `push_back` of a new frame and the `erase` of the victim keep
  `lru_list_` in that order; a `Pin` that clears the flag without the
  splice breaks it after `Unpin(0)`, `Unpin(1)`, `Pin(0)`, `Unpin(0)`.

An observation, not kept as a run: spec 4.1 glosses the LRU victim as the
least recently *unpinned* frame. `Unpin` flags an entry in place, so the
list stays in the order of the last `Pin`, and after `Pin(0)`, `Unpin(1)`,
`Unpin(0)` `Victim` returns 0. The spec's own description of the list
(Pin moves to the MRU end) agrees with the code; only the gloss does not.
`LRUVictimLeastRecentlyUsed` states the order the code keeps.

### `BufferPool`

Variables and their counterparts in the code:

* `frame_page`, `pin_count`, `dirty` and `frame_data` are the frames.
  `frame_data` is the version of the page bytes.
* `page_table` is `page_frame_lookup_`.
* `free_list` is `free_list_`.
* `replacer` is the state of the replacer the constructor built:
  `REPLACERS` is the set of classes it may be (`LRUReplacer`,
  `LRUKReplacer`). `IsLRU` tells them apart by their state, and the operators
  `RPin`, `RUnpin`, `RVictims`, `RAfterVictim` dispatch to it. LRU-K may
  offer several victims (its scan order is open), so a fetch that evicts
  takes any of them. Every LRU-K `Pin` advances the clock, so a step that
  pins is taken only while the bounded clock has room (`RCanPin`).
* `disk` is the version the disk manager last wrote for each page.
* `guards` records which guards each client thread holds.
* `latest` is a ghost variable: the last version written to each page.

Each pool method is one action, since it runs under `latch_`. The replacer
calls inside it are composed into that action. `FetchPage` has three
cases: a hit, a miss served from the free list, and a miss served by
eviction. `FetchPageFails` is the null return. Client threads fetch read
or write guards, write the pages they hold for writing (`WritePage`), and
release guards (`ReleaseGuard` = `UnpinPage(p, is_write)`).
`RepeatedUnpin` is an `UnpinPage` on a page with no outstanding guard. It
models the spec's law that the second of two unpins returns false. Any
thread may flush or delete pages. `DeleteAllPages` picks, as the
unordered-map order would allow, which unpinned pages were deleted before
the first pinned one stopped it.

Run `buffer_pool` (`MCBufferPool.cfg`). 2 frames, 3 pages over 2 files
(so fetches must evict, and the per-file operations skip a page), 2
clients, and one write per page. Both replacers are checked in the one
run, with `REPLACERS` = both classes, K = 2 and a clock bound of 6 LRU-K
pins. It reaches 1,030,001 states in about 80 seconds.
* `TypeOK`: the type invariant, with the replacer's own type invariant.
* `NoLostWrite`: the last version written is in the frame while the page
  is resident, and on disk once it is not.
* `PinCountMatchesGuards`: a guarded page is resident in a frame that
  still holds it. The frame's pin count equals the number of guards on
  the page.
* `FrameAccounting`: each frame is on the free list exactly once or in
  the page table exactly once.
* `EvictableIffUnpinned`: the replacer's evictable set equals the
  resident frames with pin count 0.
* `NoFreeFrameOnlyWhenAllPinned`: when the free list is empty and the
  replacer has no victim (the state in which `FetchPage` returns null),
  every frame is pinned.

Through the pool every `Unpin` follows a `Pin` of the same frame, so the
empty-history case of LRU-K does not arise there.

Why these bounds are enough: two frames and three pages make every fetch
path reachable. So is eviction of a dirty page that is then read back. Two
clients let two pins stack on one frame, and let one client hold a page
while the other forces evictions. One write per page is enough for
`NoLostWrite`. A lost write shows as version 1 missing from the frame
or from the disk, whichever one the page is in.

### `TableHeap`

Variables and their counterparts in the code:

* `page_num` and `first_free` are `tab_hdr_.page_num_` and
  `first_free_page_`.
* `bitmap`, `record_num` and `next_free` are, for each slotted page, its
  occupancy bitmap, its `record_num`, and its `next_free_page_id`.
  `bitmap` may hold bit `RecPerPage`, one past the last slot. That is
  where `InsertRecord` writes when it is handed a full page.
* `data` is the record stored in each slot, one of the small set `Values`
  (0 for a slot never written). `WriteSlot` is the page handle's write of
  a slot, done by both inserts and by `UpdateRecord`.
* `held` is a ghost variable: for each RID, how many records callers were
  handed there and have not deleted.

`InsertRecord` includes `CreatePageHandle` and `CreateNewPageHandle`.
`InsertRecordAt` is `InsertRecord(rid, r)`, on any slot of an allocated
page, with `InsertRecordAtExists` as its `RECORD_EXISTS` path.
`DeleteRecord` and `DeleteRecordMiss` cover delete, `UpdateRecord` and
`UpdateRecordMiss` cover update, and `GetRecord` is an operator returning
the slot's record or `RECORD_MISS`. `GetFirstRID` and
`GetNextRID` are recursive operators, and `TableScan` chains them the way
a sequential scan would. Bounds: 2 slots per page (so a page fills after
two inserts), pages 1..3, and `record_num` capped at 3. The cap only
matters once a page has been overfilled.

* Run `table_heap` (`MCTableHeap.cfg`): the table used through
  `InsertRecord(r)`, `UpdateRecord` and `DeleteRecord`, with two record
  values. 16,549 states.
  * `FreeChainExact` is spec invariant 9: the chain from
    `first_free_page_` ends, visits each page once, and holds exactly the
    allocated pages with a free slot.
  * `HeldRecordsStored`: the RIDs callers hold are exactly the real slots
    where `GetRecord` finds a record, and each was handed out once. No
    insert reuses a live RID or writes outside the slots. It does not
    compare record contents: `WriteSlot` is the only write to a slot, so
    such a comparison could not fail.
* Run `table_scan` (`MCTableScan.cfg`): with all operations, including
  `InsertRecord(rid, r)`, `ScanYieldsStoredRecords` holds. The scan yields
  every stored record once, in page and slot order. 35,420 states.
* Run `table_free_chain` (expected violation): `FreeChainExact` fails in
  five steps. `InsertRecord(rid, r)` fills page 2 while page 1 heads the
  chain, so the full page 2 stays on the chain (line 111 unlinks only the
  head).
* A consequence of the same bug, not kept as a run: with all operations
  enabled, `HeldRecordsStored` also fails. Once a full page reaches the
  head of the chain, `InsertRecord(r)` takes `FindFirst`'s "none" result
  `rec_per_page_` as the slot. It writes past the slots, returns an
  out-of-range RID, and keeps the page at the head. `table_heap` drives
  `InsertRecord(r)` and `DeleteRecord` alone, where this cannot happen.

### `BPTree` and `KeyMultiset`

`KeyMultiset` is what an index promises (spec 4.4). It holds a set of
(key, RID) entries in which keys may repeat. `Insert` adds an entry.
`Delete(key)` removes one entry of that key and returns TRUE, or returns
FALSE when there is none. `Clear` empties the set. `Search` and
`InRange` are operators that read the set.

`BPTree` models `BPTreeIndex` (`storage/index/index_bptree.cpp`).

* State. `tree` is the index file: the header fields (root, first free
  page, height, `page_num_`, `num_entries_`) and a function from the
  allocated page ids to their nodes. A node holds its kind and its parent.
  It holds its keys and values as sequences of length `size_`. It also
  holds the leaf's `next_page_id` and the page's `next_free_page_id`.
  `ret` is what the last call returned.
* Steps. `Insert`, `Delete` and `Clear` hold `index_latch_` exclusively for
  the whole call, so each is one step: `InsertStep`, `DeleteStep` and
  `ClearStep`.
* Helpers. The helpers the code calls (`FindLeafPage`,
  `InsertIntoParent`, `CoalesceOrRedistribute`, `Coalesce`,
  `Redistribute`, `AdjustRoot`, `NewPage`, `DeletePage`) are operators
  from a tree to the next tree. They are recursive where the code recurses.
* Node methods. The node methods (`KeyIndex`, `Lookup`,
  `LookupForLowerBound`, `InsertNodeAfter`, `MoveHalfTo`, `CopyNFrom`,
  the merges in the two `MoveAllTo`s, `PopulateNewRoot`) are operators on
  one node. `Merged` is the internal merge and `LeafMoveAllTo` the leaf
  merge, which also hands over `next_page_id_`.
* Header readers. `IsEmpty`, `Size` (`IndexSize`, since `Size` is the
  node operator) and `GetHeight` read the header under the shared latch.
  `TreeShape` is stated through them.
* Reads. `Search`, `SearchRange` and the iterator (`Begin`, `IsValid`,
  `Next`) are operators, and the properties evaluate them in every state,
  i.e. on a tree no writer changes during the read. `MCBPTreeIter` drops
  that assumption for the iterator.
* Abstractions. Keys are integers. A RID is `<<key, n>>`, where n tells
  the entries of one key apart.

The page accesses through the buffer pool are not modelled here. The tree
calls `FetchPage` under its own exclusive latch and keeps each page pinned
only for the guard's scope. The `buffer_pool` run covers that use.

Bounds: `bptree` uses the build's max sizes, 4 and 4. The other runs use
leaf max size 2 and internal max size 4, the smallest sizes at which
leaves split, merge and borrow, and internal nodes do the same, so that
height 3 is in reach (`bptree_deep`). `MaxPage` bounds how far the file grows. An insert whose
`NewPage` would pass it is not taken. `NewPage` takes pages from the free
chain first, so the bound limits only the number of pages live at one
time.

* Run `bptree` (`MCBPTree.cfg`). It uses the max sizes this build
  uses: `index_bptree.cpp` `#define`s `TEST_BPTREE` (line 30), which
  fixes both at 4 (lines 403-404). It runs every sequence of inserts,
  deletes and clears of keys 1..7, unique keys, up to 7 entries (13,095
  states, 15 s). That gives trees of height 2, with leaf splits and root
  splits, leaf merges and borrows on both sides, and the root collapsing
  back to a leaf.
  * `TreeShape`: the root is INVALID exactly when the index is empty,
    every leaf is at depth `tree_height_`, every `parent_page_id` is
    right, and `num_entries_` is the number of entries.
  * `PagesAccounted`: every page id is in the tree or on the free chain,
    exactly once.
  * `KeysOrdered`: keys are sorted in each node, and every separator
    bounds its subtrees.
  * `LeafChainInOrder`: the chain of `next_page_id` from the leftmost
    leaf visits the leaves in tree order, with keys that never decrease.
  * `SearchAgrees`, `SearchRangeAgrees`: `Search` and `SearchRange`
    return exactly the RIDs of the abstract multiset, once each, and
    `SearchRange` returns them in key order.
  * `IteratorAgreesWithRange`: `Begin(lo)` followed by `Next` up to `hi`
    yields what `SearchRange(lo, hi)` returns.
  * `BPTreeRefinesIndex`: every step is a `KeyMultiset` step under the
    mapping entries = the leaves' entries. This covers `Delete`'s return
    value.
* Run `bptree_deep` (`MCBPTreeDeep.cfg`). Height 3 needs more entries
  than the full state space can reach. The run therefore starts from
  every tree that inserting keys 1..7 in some order builds (`BuiltInit`,
  through the model's `Insert`). It then deletes keys in every order,
  down to the empty tree (`DeleteSpec`). Along the way it reaches
  internal merges, internal borrows from either side with the child
  reparented, and the root collapsing from height 3. It checks the four
  structural invariants.
* Run `bptree_duplicates` (expected violation): `SearchAgrees` with keys
  that may repeat (`MaxDup` 2). Insert key 1 twice and key 2. The leaf
  split leaves one RID of key 1 in the left leaf and puts separator 1 in
  the root. `Search(1)` descends with `Lookup`'s `<` comparison (line
  270), as spec 4.4.1 prescribes. It reads only the right leaf and misses
  the first RID. Spec 4.4 allows duplicate keys, and the round-trip law
  of spec 8 says `Search` finds every RID inserted under the key. The
  descent rule of the spec does not support the duplicates it allows.
  `SearchRange` uses `LookupForLowerBound` (`<=`) and finds both.
* Run `bptree_narrow` (expected violation): `InternalHasTwoChildren`
  with internal max size 2.
  * The cause. The minimum `(max_size + 1) / 2` (line 108) is then 1.
    `Redistribute` may take a child from a neighbour holding 2 and leave
    it with one child.
  * What follows. A later delete under that lone child reaches
    `CoalesceOrRedistribute` with index 0, and reads
    `parent->ValueAt(1)` (line 677) past `size_`.
  * The trace. TLC finds it after inserting 1..5 and deleting 1.
  * Who is affected. Not the build as it stands: the file `#define`s
    `TEST_BPTREE` (line 30), which fixes the sizes at 4. The comment at
    lines 400-401 says to undefine it once the tests pass; the internal
    max size then comes from the key size (line 413) and is 2 for a key
    between about a third and a half of a page.

### `MCBPTreeIter`

Only `Begin` takes `index_latch_` (shared, lines 922-943). The iterator it
returns keeps `leaf_page_id_` and `index_`, and `IsValid`, `GetRID` and
`Next` (882-915) each fetch the leaf by id with no latch. The module adds a
reader to `BPTree`: `IterBegin(k)` is `Begin(k)`, `IterStep` is one
`IsValid`/`GetRID`/`Next` round on whatever the page holds then, and
`IterEnd` is `IsValid` returning false. `Writer` is any `Insert` or
`Delete` step, between any two reader steps. A page the iterator stands on
may have been freed by a merge (emptied, as `MoveAllTo` leaves it) or
reused for an internal node. Read as a leaf, an internal page gives
meaningless bytes (spec 6 puts the internal node's own fields where a
leaf has `next_page_id`): the RID is `NotARid`, and `GarbageNext` lets
`Next` past its `size_` read any page id or INVALID. `Clear` is
left out, since the model forgets the nodes of the pages it frees while
the code leaves their bytes. Ghosts: `seen` (RIDs returned) and `stable`
(entries of key >= lo present at `Begin` and not deleted since).

* Run `bptree_iter` (expected violation): `StableEntriesYieldedOnce`, a
  finished walk yields every stable entry exactly once. Keys 1..3, leaf
  max size 2 and internal max size 4. A trace TLC gives: insert two keys
  a < b; `Begin(b)` stands at index 1; `Delete(a)` shifts b to index 0;
  `IsValid` is false and the walk ends without b, which was never
  deleted. Which two keys TLC picks (1 and 2, or 1 and 3) varies between
  runs with two workers; the mechanism is the same. Spec 5 lists iteration
  among readers holding the shared lock "for the duration of the call";
  as each call is separate, no lock spans a walk.
* A liveness check made while modelling, not kept as a run (so the
  project states no liveness property, see section 4): under weak
  fairness of the reader's steps, "a walk that has begun ends" fails.
  TLC found a lasso in which writers
  free a leaf and reuse its page earlier in the chain, so the reader
  steps back and walks forever while the writers keep going. Its cause
  is the one above.

Two observations about the spec were met while modelling and are not
runs:

* Overfull internal nodes. `InsertIntoParent` inserts into a parent with
  `size <= max_size` (line 571). An internal node therefore holds
  `max_size + 1` entries in stable states, not only "briefly" as the
  spec's open question says (spec line 268). That breaks invariant 5 of
  spec 8. The node arrays of the page layout have `max_size` slots (spec
  line 198). So if the arrays are laid out as the spec says, the extra
  key lands over the first value. The header that lays them out is not
  under `src/`, so the model cannot tell.
* The minimum size. Spec 4.4.3 and invariant 5 say `⌈(max+1)/2⌉`. The code
  uses `(max_size + 1) / 2`, which rounds down. A leaf split of `MoveHalfTo`
  (line 201) leaves nodes below the ceiling, so the spec's own split
  contradicts its minimum.

### `IndexScan`

`IndexScan` models `IdxScanExecutor`. The table is a function from RIDs
to key tuples. `SearchRange` is the index's contract from spec 4.4: the
RIDs whose key lies in `[low, high]`, in ascending key order with ties
broken by RID. The `bptree` run checks the tree's `SearchRange` against
the same contract, through `KeyMultiset`. Variables are the executor's members (`low_`, `high_`, the two
`needs_*_record_check_` flags, `rids_`, the three indices). There are two
ghosts: `out` is the records loaded since `Init`, and `opened` records
that `Init` has run.

How the code maps to the model:

* `GenerateRangeKeys` is two recursive operators. `ApplyCols` walks the key
  columns and `ApplyConds` walks the conditions on one column. An
  equality sets both ends and the walk goes on. The first one-sided
  condition sets its end and stops both loops, as the code's
  `goto done` does.
* `ScanInit` is all of `Init`: range keys, `SearchRange`, the trimming of
  exclusive ends (`TrimStart`, `TrimEnd`), the reversal of the trimmed
  slice for a descending scan (`Orient`), and loading the first record.
  `Init` may be called again to rescan.
* `ScanNext` is `Next`, and `IsEnd` is `IsEnd`.

The reference the runs compare against is `Matches(r)`: the conjunction
of the conditions, evaluated directly on the record's key.

* Run `index_scan` (`MCIndexScan.cfg`) passes with 230,240 states. It
  covers every table of three records whose keys have two columns and
  values in {1,2}, every vector of up to two conditions, and both
  orders.
  * `ScanYieldsAllMatches`: once the scan ends, every matching record has
    been yielded.
  * `ScanOrdered`: no record is yielded twice, and the keys yielded
    follow the requested order.
* Run `idxscan_range` (expected violation): `k > 1 AND k < 2` over keys
  1,2,3 yields keys 2 and 3, neither of which matches. In ascending order
  key 2 comes first, and in descending order key 3. The walk stopped at `k > 1` (line 62), so `high_`
  stays at the maximum. Spec 4.6 and its scenario 2 say a `<` lowers
  `high_`.
* A second observation, not kept as a run: `k > 1` over keys 1,1,1
  yields two records. Only one record equal to an exclusive end is
  trimmed (lines 89 and 97). That is the rule spec 4.6 step 3 states, so
  the code follows its spec here.

Both cases break `ScanYieldsOnlyMatches`. So `index_scan` checks
completeness and order only; soundness is left to a filter above the
scan. No executor applies one in `src/`.

## 4. Abstractions and what is not modelled

* Page bytes are a version number. Torn writes are out of scope: a page
  write through a guard races a `FlushPage` of the same page, with no page
  latch. The spec leaves mutual exclusion to higher layers.
* A client holds at most one guard per page. The code allows two, and
  pins are counts. Two clients on one page give the stacked pins.
* `Frame::Reset`, the page guards and the disk manager are not under
  `src/`. They are modelled from the spec (`spec_modelled` in the map).
* `UpdateFrame` writes out a dirty frame before loading (lines 216-218).
  That branch is dead: both callers hand it a frame that is reset or
  already written out. It is not modelled.
* Liveness: no fairness is assumed and no liveness property is stated.
  Every operation runs to completion under one latch, with no waiting
  and no retry, so "each call returns" holds by the model's shape. The
  pool promises no eventual success: clients whose pins overlap forever
  keep a frame pinned, and a fetch may fail each time. A scan or iterator
  walk ends because the model's state is finite, which says nothing
  about the code. The iterator's non-termination under
  concurrent writers (section 3, `MCBPTreeIter`) was found by a liveness
  check made while modelling. It is reported there and not kept as a
  run.
* Table heap: a record's bytes are one of a few values, so
  `UpdateRecord` and `GetRecord` are modelled; `GetChunk` reads through
  the page handle's `ReadChunk`, not under `src/`, and is not. Each table
  call takes its buffer-pool
  calls to succeed. The pool model shows `FetchPage` can return null when
  every frame is pinned, and the handle does not check for it.
* Index scan: conditions whose right side is a column (skipped at line 52)
  are not modelled, and neither are other key types. The schema's
  min/max values are `MinVal`/`MaxVal`, below and above every value.
* B+tree: each call is one step under `index_latch_`, so the
  latch-coupling helpers that are left incomplete are not modelled. The
  buffer pool under the tree is abstracted to direct page access. The key
  schema stored after the header, and the header's byte layout, are not
  modelled.
* Page guards are not under `src/`. Every guard operation that changes
  pool state is an action of `BufferPool`, modelled from spec 4.3, so
  the component counts as modelled.
* Not modelled: the disk manager, the log manager, the record and key
  formats, NARY vs PAX layout (which the spec says does not affect the
  algorithms), `GetChunk`, `GetTableName` and other accessors.

### Why the model stops here

What is left unmapped in `src/` cannot be modelled in a way that adds
anything:
* constructors, getters and debug printing;
* the `TEST_BPTREE` size setup, which the `bptree` bounds already follow;
* the PAX constructor's offset arithmetic, and `GetChunk`, which reads
  through a handle not under `src/`.

The open hazards need one of the following:
* a page latch (torn writes);
* a writer-exclusion layer above the table heap (concurrent
  `InsertRecord`);
* a composition of the table heap with a bounded pool, where a
  null `FetchPage` crashes the caller (listed with notes in
  `PROJECT.json`).

Spec 5 places the first two outside this code. The third would only
restate `NoFreeFrameOnlyWhenAllPinned` together with an unchecked
dereference.
