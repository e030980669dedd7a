---------------------------- MODULE MCBufferPool ----------------------------
(***************************************************************************)
(* The buffer pool with client threads, instantiated for TLC: a pool of    *)
(* two frames, three pages over two files (so a fetch must evict and the   *)
(* per-file operations have something to skip), two client threads.       *)
(***************************************************************************)
EXTENDS BufferPool

MCPages == {<<1, 1>>, <<1, 2>>, <<2, 1>>}

Holders(p) == {c \in Clients : guards[c][p] # "none"}

\* No write is lost across eviction, deletion, flushing and re-reading: the
\* last version a client wrote to a page is in the page's frame while it is
\* resident and on disk once it is not (spec 8.2; the dirty flag set by
\* UnpinPage and the write-out in GetAvailableFrame, DeletePage and
\* DeleteAllPages are what make this hold).
NoLostWrite ==
  \A p \in Pages :
    IF Resident(p) THEN frame_data[page_table[p]] = latest[p]
                   ELSE disk[p] = latest[p]

\* A page some thread holds a guard on is resident, its frame still holds
\* that page, and the frame's pin count is exactly the number of guards on
\* it: no pin is lost or leaked and no pinned frame is reused.
PinCountMatchesGuards ==
  \A p \in Pages :
    IF Resident(p)
    THEN /\ frame_page[page_table[p]] = p
         /\ pin_count[page_table[p]] = Cardinality(Holders(p))
    ELSE Holders(p) = {}

\* Every frame is on the free list (exactly once) or is the frame of exactly
\* one page in page_frame_lookup_, never both and never neither (spec 4.2).
FrameAccounting ==
  \A f \in Frames :
    LET onFree == Cardinality({i \in DOMAIN free_list : free_list[i] = f})
        owners == Cardinality({p \in Pages : page_table[p] = f})
    IN onFree + owners = 1

\* The replacer's evictable frames are exactly the resident frames with pin
\* count 0 (spec 8.1 and its converse): a pinned frame is never a victim
\* candidate, and an unpinned resident frame is never lost to eviction.
EvictableIffUnpinned ==
  \A f \in Frames :
    f \in REvictable(replacer)
      <=> (\E p \in Pages : page_table[p] = f) /\ pin_count[f] = 0

\* FetchPage of a non-resident page returns null (NJUDB_NO_FREE_FRAME)
\* exactly when the free list is empty and the replacer has no victim; that
\* may happen only when every frame is pinned.
NoFreeFrameOnlyWhenAllPinned ==
  (free_list = <<>> /\ RVictims(replacer) = {}) => \A f \in Frames : pin_count[f] > 0
=============================================================================
