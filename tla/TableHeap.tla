------------------------------ MODULE TableHeap ------------------------------
(***************************************************************************)
(* TableHandle (src/src/system/handle/table_handle.cpp): the records of a  *)
(* table in slotted pages, and the chain of pages with a free slot rooted  *)
(* at the header's first_free_page_ and linked through each page's         *)
(* next_free_page_id.                                                      *)
(*                                                                         *)
(* Every call fetches its page from the buffer pool, changes it and        *)
(* unpins it, with no latch of the handle's own (exclusion between writers *)
(* is left to a higher layer, spec 5), so each call is one step.  A page   *)
(* is its occupancy bitmap, record_num, next_free_page_id and the record   *)
(* in each slot; a record's bytes are one of a few Values (0: zeroes).     *)
(* Slot RecPerPage, one past the last slot, stands for the write           *)
(* InsertRecord makes past the slots when it is handed a full page         *)
(* (FindFirst then returns rec_per_page_).                                 *)
(*                                                                         *)
(* held is a ghost of the callers: for each RID, how many records callers  *)
(* were handed at that RID and have not deleted.                           *)
(***************************************************************************)
EXTENDS Integers, SequencesExt

CONSTANTS
  RecPerPage,   \* tab_hdr_.rec_per_page_
  MaxPage,      \* the largest page id the table grows to (model bound)
  MaxRecordNum, \* bound on a page's record_num (model bound)
  Values        \* the records callers write (nonzero: 0 is a zeroed slot)

ASSUME RecPerPage \in Nat \ {0} /\ MaxPage \in Nat \ {0}
ASSUME MaxRecordNum \in Nat /\ MaxRecordNum >= RecPerPage
ASSUME Values \subseteq Nat \ {0}

INVALID_PAGE_ID == -1
FILE_HEADER_PAGE_ID == 0

DataPages == FILE_HEADER_PAGE_ID + 1 .. MaxPage
Slots == 0 .. RecPerPage - 1
Bits == 0 .. RecPerPage            \* the slots and the one past them
Rids == DataPages \X Bits
INVALID_RID == <<INVALID_PAGE_ID, -1>>

VARIABLES
  page_num,     \* tab_hdr_.page_num_: pages in the file, header included
  first_free,   \* tab_hdr_.first_free_page_
  bitmap,       \* page -> set bits of its occupancy bitmap
  record_num,   \* page -> its record_num
  next_free,    \* page -> its next_free_page_id
  data,         \* RID -> the record bytes in that slot
  held          \* ghost: RID -> records callers hold at it

vars == <<page_num, first_free, bitmap, record_num, next_free, data, held>>

\* Pages allocated so far.
Allocated == FILE_HEADER_PAGE_ID + 1 .. page_num - 1

TableTypeOK ==
  /\ page_num \in FILE_HEADER_PAGE_ID + 1 .. MaxPage + 1
  /\ first_free \in DataPages \cup {INVALID_PAGE_ID}
  /\ bitmap \in [DataPages -> SUBSET Bits]
  /\ record_num \in [DataPages -> 0 .. MaxRecordNum]
  /\ next_free \in [DataPages -> DataPages \cup {INVALID_PAGE_ID}]
  /\ data \in [Rids -> Values \cup {0}]
  /\ held \in [Rids -> Nat]

\* A newly created table: only the header page, an empty free chain.  Pages
\* past the end of the file read as zeroes: no bits set, record_num 0; their
\* next_free_page_id is written by CreateNewPageHandle before it is read.
TableInit ==
  /\ page_num = FILE_HEADER_PAGE_ID + 1
  /\ first_free = INVALID_PAGE_ID
  /\ bitmap = [p \in DataPages |-> {}]
  /\ record_num = [p \in DataPages |-> 0]
  /\ next_free = [p \in DataPages |-> INVALID_PAGE_ID]
  /\ data = [r \in Rids |-> 0]
  /\ held = [r \in Rids |-> 0]

\* BitMap::FindFirst(bits, size, start, value): the first index in
\* [start, size) whose bit equals value, or size if there is none.
FindFirst(bits, size, start, value) ==
  LET found == {i \in start .. size - 1 : (i \in bits) = value} IN
  IF found = {} THEN size ELSE Min(found)

\* PageHandle::WriteSlot of record v at slot s of page p.
WriteSlot(p, s, v) == data' = [data EXCEPT ![<<p, s>>] = v]

(***************************************************************************)
(* InsertRecord(r).  CreatePageHandle takes the head of the free chain, or *)
(* when the chain is empty CreateNewPageHandle appends page page_num_ and  *)
(* pushes it on the chain.  The first clear bit is set and record_num      *)
(* grows; a page that becomes full is unlinked from the head of the chain. *)
(***************************************************************************)
\* The page CreatePageHandle hands to InsertRecord, and the header fields
\* after it: [page, page_num, first_free, next_free].
CreatePageHandle ==
  IF first_free = INVALID_PAGE_ID
  THEN [page |-> page_num, page_num |-> page_num + 1, first_free |-> page_num,
        next_free |-> [next_free EXCEPT ![page_num] = first_free]]
  ELSE [page |-> first_free, page_num |-> page_num, first_free |-> first_free,
        next_free |-> next_free]

\* Mutant: a page that becomes full is left on the chain.
InsertRecordNoUnlink(v) ==
  LET h == CreatePageHandle
      p == h.page
      slot == FindFirst(bitmap[p], RecPerPage, 0, FALSE)
  IN
  /\ first_free = INVALID_PAGE_ID => page_num <= MaxPage
  /\ record_num[p] < MaxRecordNum
  /\ WriteSlot(p, slot, v)
  /\ bitmap' = [bitmap EXCEPT ![p] = @ \cup {slot}]
  /\ record_num' = [record_num EXCEPT ![p] = @ + 1]
  /\ page_num' = h.page_num
  /\ first_free' = h.first_free
  /\ next_free' = h.next_free
  /\ held' = [held EXCEPT ![<<p, slot>>] = @ + 1]

InsertRecord(v) ==
  LET h == CreatePageHandle
      p == h.page
      slot == FindFirst(bitmap[p], RecPerPage, 0, FALSE)
      full == record_num[p] + 1 = RecPerPage
  IN
  /\ first_free = INVALID_PAGE_ID => page_num <= MaxPage
  /\ record_num[p] < MaxRecordNum
  /\ WriteSlot(p, slot, v)
  /\ bitmap' = [bitmap EXCEPT ![p] = @ \cup {slot}]
  /\ record_num' = [record_num EXCEPT ![p] = @ + 1]
  /\ page_num' = h.page_num
  /\ first_free' = IF full THEN h.next_free[p] ELSE h.first_free
  /\ next_free' = IF full THEN [h.next_free EXCEPT ![p] = INVALID_PAGE_ID] ELSE h.next_free
  /\ held' = [held EXCEPT ![<<p, slot>>] = @ + 1]

(***************************************************************************)
(* InsertRecord(rid, r) at a caller's RID on an allocated page: refused    *)
(* (RECORD_EXISTS) when the slot is taken; otherwise the bit is set and    *)
(* record_num grows, and a page that becomes full is unlinked, but only    *)
(* when it is the head of the chain.                                       *)
(***************************************************************************)
InsertRecordAt(p, s, v) ==
  LET full == record_num[p] + 1 = RecPerPage IN
  /\ s \notin bitmap[p]
  /\ record_num[p] < MaxRecordNum
  /\ WriteSlot(p, s, v)
  /\ bitmap' = [bitmap EXCEPT ![p] = @ \cup {s}]
  /\ record_num' = [record_num EXCEPT ![p] = @ + 1]
  /\ IF full /\ first_free = p
     THEN /\ first_free' = next_free[p]
          /\ next_free' = [next_free EXCEPT ![p] = INVALID_PAGE_ID]
     ELSE UNCHANGED <<first_free, next_free>>
  /\ held' = [held EXCEPT ![<<p, s>>] = @ + 1]
  /\ UNCHANGED page_num

InsertRecordAtExists(p, s) ==
  /\ s \in bitmap[p]
  /\ UNCHANGED vars

(***************************************************************************)
(* DeleteRecord(rid): RECORD_MISS when the bit is clear; otherwise clear   *)
(* it, drop record_num, and push the page on the chain when it has just    *)
(* gone from full to one free slot.                                        *)
(***************************************************************************)
\* Mutant: DeleteRecord without the RECORD_MISS check.
DeleteRecordNoBitCheck(p, s) ==
  /\ bitmap' = [bitmap EXCEPT ![p] = @ \ {s}]
  /\ record_num' = [record_num EXCEPT ![p] = @ - 1]
  /\ IF record_num[p] - 1 = RecPerPage - 1
     THEN /\ next_free' = [next_free EXCEPT ![p] = first_free]
          /\ first_free' = p
     ELSE UNCHANGED <<first_free, next_free>>
  /\ held' = [held EXCEPT ![<<p, s>>] = IF @ > 0 THEN @ - 1 ELSE 0]
  /\ UNCHANGED <<page_num, data>>

\* Mutant: the page is pushed on the chain at every delete.
DeleteRecordAlwaysPushes(p, s) ==
  /\ s \in bitmap[p]
  /\ bitmap' = [bitmap EXCEPT ![p] = @ \ {s}]
  /\ record_num' = [record_num EXCEPT ![p] = @ - 1]
  /\ next_free' = [next_free EXCEPT ![p] = first_free]
  /\ first_free' = p
  /\ held' = [held EXCEPT ![<<p, s>>] = IF @ > 0 THEN @ - 1 ELSE 0]
  /\ UNCHANGED <<page_num, data>>

DeleteRecord(p, s) ==
  /\ s \in bitmap[p]
  /\ bitmap' = [bitmap EXCEPT ![p] = @ \ {s}]
  /\ record_num' = [record_num EXCEPT ![p] = @ - 1]
  /\ IF record_num[p] - 1 = RecPerPage - 1
     THEN /\ next_free' = [next_free EXCEPT ![p] = first_free]
          /\ first_free' = p
     ELSE UNCHANGED <<first_free, next_free>>
  /\ held' = [held EXCEPT ![<<p, s>>] = IF @ > 0 THEN @ - 1 ELSE 0]
  /\ UNCHANGED <<page_num, data>>

DeleteRecordMiss(p, s) ==
  /\ s \notin bitmap[p]
  /\ UNCHANGED vars

(***************************************************************************)
(* UpdateRecord(rid, r): RECORD_MISS when the bit is clear; otherwise the  *)
(* slot is overwritten in place.  GetRecord(rid): RECORD_MISS when the bit *)
(* is clear, otherwise the slot's record (a read: an operator).            *)
(***************************************************************************)
RECORD_MISS == -1   \* the NJUDB_RECORD_MISS exception, as a result

UpdateRecord(p, s, v) ==
  /\ s \in bitmap[p]
  /\ WriteSlot(p, s, v)
  /\ UNCHANGED <<page_num, first_free, bitmap, record_num, next_free, held>>

UpdateRecordMiss(p, s) ==
  /\ s \notin bitmap[p]
  /\ UNCHANGED vars

GetRecord(p, s) == IF s \in bitmap[p] THEN data[<<p, s>>] ELSE RECORD_MISS

(***************************************************************************)
(* GetFirstRID and GetNextRID: walk the allocated pages in order, and in   *)
(* each the set bits among the slots, returning INVALID_RID at the end.    *)
(***************************************************************************)
RECURSIVE FirstFrom(_)
FirstFrom(p) ==
  IF p >= page_num THEN INVALID_RID
  ELSE LET id == FindFirst(bitmap[p], RecPerPage, 0, TRUE) IN
       IF id # RecPerPage THEN <<p, id>> ELSE FirstFrom(p + 1)

GetFirstRID == FirstFrom(FILE_HEADER_PAGE_ID + 1)

\* Mutant: the slot is not reset to -1 when the walk moves to the next page.
RECURSIVE GetNextRIDNoReset(_)
GetNextRIDNoReset(rid) ==
  LET p == rid[1] s == rid[2] IN
  IF p >= page_num THEN INVALID_RID
  ELSE LET id == FindFirst(bitmap[p], RecPerPage, s + 1, TRUE) IN
       IF id = RecPerPage THEN GetNextRIDNoReset(<<p + 1, s>>) ELSE <<p, id>>

RECURSIVE GetNextRID(_)
GetNextRID(rid) ==
  LET p == rid[1] s == rid[2] IN
  IF p >= page_num THEN INVALID_RID
  ELSE LET id == FindFirst(bitmap[p], RecPerPage, s + 1, TRUE) IN
       IF id = RecPerPage THEN GetNextRID(<<p + 1, -1>>) ELSE <<p, id>>

\* The RIDs a full scan yields: GetFirstRID, then GetNextRID until invalid.
RECURSIVE ScanFrom(_)
ScanFrom(rid) ==
  IF rid = INVALID_RID THEN <<>> ELSE <<rid>> \o ScanFrom(GetNextRID(rid))

TableScan == ScanFrom(GetFirstRID)

TableNext ==
  \/ \E v \in Values : InsertRecord(v)
  \/ \E p \in Allocated, s \in Slots :
       \/ \E v \in Values : InsertRecordAt(p, s, v) \/ UpdateRecord(p, s, v)
       \/ InsertRecordAtExists(p, s) \/ UpdateRecordMiss(p, s)
       \/ DeleteRecord(p, s) \/ DeleteRecordMiss(p, s)

TableSpec == TableInit /\ [][TableNext]_vars
=============================================================================
