----------------------------- MODULE MCTableHeap -----------------------------
(***************************************************************************)
(* The table heap for TLC: the invariants spec 7 states of slotted pages   *)
(* and the free chain, the callers' view of their records, and the scan.   *)
(***************************************************************************)
EXTENDS TableHeap

\* The pages met following next_free_page_id from first_free_page_, cut
\* after MaxPage + 1 pages (a chain that long has a cycle).
RECURSIVE ChainFrom(_, _)
ChainFrom(p, n) ==
  IF p = INVALID_PAGE_ID \/ n = 0 THEN <<>>
  ELSE <<p>> \o ChainFrom(next_free[p], n - 1)

FreeChain == ChainFrom(first_free, MaxPage + 1)

\* The table used through InsertRecord(r), UpdateRecord and DeleteRecord,
\* without InsertRecord(rid, r): the question is whether those two alone keep the
\* chain and the records right.
RecordOnlyNext ==
  \/ \E v \in Values : InsertRecord(v)
  \/ \E p \in Allocated, s \in Slots :
       \/ \E v \in Values : UpdateRecord(p, s, v)
       \/ UpdateRecordMiss(p, s) \/ DeleteRecord(p, s) \/ DeleteRecordMiss(p, s)

RecordOnlySpec == TableInit /\ [][RecordOnlyNext]_vars

\* Spec 7, invariant 9 and 4.2: the free chain ends, visits each page at
\* most once, and holds exactly the allocated pages with a free slot; the
\* unlink in InsertRecord and the push in DeleteRecord must keep it so.
FreeChainExact ==
  /\ Len(FreeChain) <= MaxPage
  /\ IsInjective(FreeChain)
  /\ ToSet(FreeChain) = {p \in Allocated : record_num[p] < RecPerPage}

\* The RIDs callers were handed and have not deleted are exactly the RIDs
\* in a real slot where GetRecord finds a record, each handed out once: no
\* InsertRecord reuses a live RID or writes outside the slots, and no
\* record is stored without a caller holding its RID.
HeldRecordsStored ==
  \A r \in Rids :
    held[r] = IF r[2] \in Slots /\ GetRecord(r[1], r[2]) # RECORD_MISS THEN 1 ELSE 0

\* A scan by GetFirstRID and GetNextRID yields every stored record once, in
\* page and slot order, across empty and full pages.
RidLess(a, b) == a[1] < b[1] \/ (a[1] = b[1] /\ a[2] < b[2])
StoredRids == {<<p, s>> \in Allocated \X Slots : s \in bitmap[p]}
ScanYieldsStoredRecords == TableScan = SetToSortSeq(StoredRids, RidLess)
=============================================================================
