------------------------------ MODULE IndexScan ------------------------------
(***************************************************************************)
(* IdxScanExecutor (src/src/execution/executor_idxscan.cpp): a cursor over *)
(* the records of a table that an index finds for a conjunction of         *)
(* column/value conditions on the key columns.                             *)
(*                                                                         *)
(* The table is a function from RIDs to key tuples; the index's            *)
(* SearchRange(low, high) returns the RIDs whose key k has low <= k <=     *)
(* high, in ascending key order (ties by RID).  Init builds the range keys *)
(* (GenerateRangeKeys), asks the index, trims the exclusive endpoints and  *)
(* reverses a descending scan; Next advances the cursor.  out is what the  *)
(* cursor has yielded so far (each record_ it loaded).                     *)
(***************************************************************************)
EXTENDS Integers, SequencesExt

CONSTANTS
  NumCols,     \* key columns, schema.GetFieldCount()
  Vals,        \* values a key column or a condition may hold
  MinVal,      \* ValueFactory::CreateMinValueForType
  MaxVal,      \* ValueFactory::CreateMaxValueForType
  Rids,        \* the table's RIDs
  Tables,      \* the tables the scan may run over (RID -> key)
  CondSeqs     \* the condition vectors conds_ the scan may be given

Cols == 1 .. NumCols
Ops == {"EQ", "GT", "GE", "LT", "LE"}
Cond == [col : Cols, op : Ops, val : Vals]

ASSUME \A v \in Vals : MinVal < v /\ v < MaxVal
ASSUME CondSeqs \subseteq Seq(Cond)

VARIABLES
  table,        \* RID -> key tuple: the table and its index
  conds,        \* conds_
  asc,          \* is_ascending_
  low, high,    \* low_ and high_
  first_check,  \* needs_first_record_check_
  last_check,   \* needs_last_record_check_
  rids,         \* rids_
  start_idx, end_idx, current_idx,
  out,          \* ghost: the RIDs of the records yielded since Init
  opened        \* ghost: Init has been called

vars == <<table, conds, asc, low, high, first_check, last_check, rids,
          start_idx, end_idx, current_idx, out, opened>>

\* Record::Compare on keys: lexicographic over the columns.
RECURSIVE KeyLessFrom(_, _, _)
KeyLessFrom(x, y, i) ==
  /\ i <= NumCols
  /\ \/ x[i] < y[i]
     \/ x[i] = y[i] /\ KeyLessFrom(x, y, i + 1)

KeyLess(x, y) == KeyLessFrom(x, y, 1)
KeyLeq(x, y) == x = y \/ KeyLess(x, y)

(***************************************************************************)
(* GenerateRangeKeys.  low and high start at the type's min and max in     *)
(* every column.  For each key column in order, every condition on it is   *)
(* applied in order: an equality sets both ends and the walk goes on; the  *)
(* first one-sided condition sets its end (and the exclusive flag for > or *)
(* <) and leaves both loops (goto done).  A column with no condition ends  *)
(* the walk.                                                               *)
(***************************************************************************)
RECURSIVE ApplyConds(_, _, _, _)
ApplyConds(cs, i, j, st) ==
  IF j > Len(cs) THEN st
  ELSE LET c == cs[j] IN
       IF c.col # i THEN ApplyConds(cs, i, j + 1, st)
       ELSE CASE c.op = "EQ" ->
                   ApplyConds(cs, i, j + 1,
                     [st EXCEPT !.low[i] = c.val, !.high[i] = c.val, !.found = TRUE])
              [] c.op \in {"GT", "GE"} ->
                   [st EXCEPT !.low[i] = c.val, !.first = @ \/ c.op = "GT",
                              !.found = TRUE, !.done = TRUE]
              [] c.op \in {"LT", "LE"} ->
                   [st EXCEPT !.high[i] = c.val, !.last = @ \/ c.op = "LT",
                              !.found = TRUE, !.done = TRUE]

RECURSIVE ApplyCols(_, _, _)
ApplyCols(cs, i, st) ==
  IF i > NumCols THEN st
  ELSE LET st2 == ApplyConds(cs, i, 1, [st EXCEPT !.found = FALSE]) IN
       IF st2.done \/ ~st2.found THEN st2 ELSE ApplyCols(cs, i + 1, st2)

\* The exclusive flags are members that GenerateRangeKeys only ever sets,
\* so they start from their current values fc and lc.
GenerateRangeKeys(cs, fc, lc) ==
  ApplyCols(cs, 1, [low |-> [i \in Cols |-> MinVal], high |-> [i \in Cols |-> MaxVal],
                    first |-> fc, last |-> lc, found |-> FALSE, done |-> FALSE])

\* BPlusTreeIndex::SearchRange as the index promises it (module BPTree
\* checks the tree against this).
SearchRange(t, lo, hi) ==
  SetToSortSeq({r \in Rids : KeyLeq(lo, t[r]) /\ KeyLeq(t[r], hi)},
               LAMBDA x, y : KeyLess(t[x], t[y]) \/ (t[x] = t[y] /\ x < y))

\* std::reverse of the slice [s, e) of a 0-based vector held 1-based.
ReverseSlice(v, s, e) ==
  [k \in DOMAIN v |-> IF k - 1 >= s /\ k - 1 < e THEN v[s + e - (k - 1)] ELSE v[k]]

\* The record at rids_[i] (0-based) as yielded by GetRecord.
At(v, i) == v[i + 1]

IsEnd == current_idx >= end_idx

(***************************************************************************)
(* Init: build the range keys, materialize, trim the exclusive ends (a     *)
(* record equal to an exclusive end is dropped from that end, once), and   *)
(* for a descending scan reverse the trimmed slice, then load the first    *)
(* record.  It may be called again to rescan.                              *)
(***************************************************************************)
\* Mutant: the exclusive low end is trimmed without comparing the first key.
TrimStartBlind(t, v, g) == IF g.first /\ v # <<>> THEN 1 ELSE 0

TrimStart(t, v, g) == IF g.first /\ v # <<>> /\ t[At(v, 0)] = g.low THEN 1 ELSE 0

TrimEnd(t, v, g, s) ==
  IF g.last /\ v # <<>> /\ Len(v) > s /\ t[At(v, Len(v) - 1)] = g.high
  THEN Len(v) - 1 ELSE Len(v)

\* Mutant: the slice is reversed for an ascending scan instead.
OrientInverted(v, s, e, a) == IF a THEN ReverseSlice(v, s, e) ELSE v

Orient(v, s, e, a) == IF ~a THEN ReverseSlice(v, s, e) ELSE v

ScanInit ==
  LET g  == GenerateRangeKeys(conds, first_check, last_check)
      v  == SearchRange(table, g.low, g.high)
      s  == TrimStart(table, v, g)
      e  == TrimEnd(table, v, g, s)
      v2 == Orient(v, s, e, asc)
  IN
  /\ low' = g.low /\ high' = g.high
  /\ first_check' = g.first /\ last_check' = g.last
  /\ rids' = v2 /\ start_idx' = s /\ end_idx' = e /\ current_idx' = s
  /\ out' = IF s < e THEN <<At(v2, s)>> ELSE <<>>
  /\ opened' = TRUE
  /\ UNCHANGED <<table, conds, asc>>

\* The constructor: flags false, indices 0, nothing loaded.
Constructed ==
  /\ table \in Tables /\ conds \in CondSeqs /\ asc \in BOOLEAN
  /\ low = [i \in Cols |-> MinVal] /\ high = [i \in Cols |-> MaxVal]
  /\ first_check = FALSE /\ last_check = FALSE
  /\ rids = <<>> /\ start_idx = 0 /\ end_idx = 0 /\ current_idx = 0
  /\ out = <<>> /\ opened = FALSE

\* Next: advance, and load the record if not at the end.
ScanNext ==
  /\ ~IsEnd
  /\ current_idx' = current_idx + 1
  /\ out' = IF current_idx + 1 < end_idx THEN Append(out, At(rids, current_idx + 1)) ELSE out
  /\ UNCHANGED <<table, conds, asc, low, high, first_check, last_check, rids,
                 start_idx, end_idx, opened>>

IndexScanInit == Constructed

IndexScanNext == ScanInit \/ ScanNext

IndexScanSpec == IndexScanInit /\ [][IndexScanNext]_vars
=============================================================================
