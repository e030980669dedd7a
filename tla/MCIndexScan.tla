----------------------------- MODULE MCIndexScan -----------------------------
(***************************************************************************)
(* The index-scan cursor for TLC over every small table and every vector   *)
(* of up to two conditions, compared with the predicate the conditions     *)
(* state.                                                                  *)
(***************************************************************************)
EXTENDS IndexScan

MCRids == {1, 2, 3}
Keys == [Cols -> Vals]
AllTables == [MCRids -> Keys]
DistinctTables == {t \in AllTables : IsInjective(t)}
AllCondSeqs == UNION {[1 .. n -> Cond] : n \in 0 .. 2}
SingleConds == {<<c>> : c \in Cond}
\* A lower and then an upper bound on one column, as in "k > 3 AND k < 7".
RangeConds == {<<lo, hi>> \in Cond \X Cond :
                 lo.col = hi.col /\ lo.val < hi.val /\ lo.op \in {"GT", "GE"} /\ hi.op \in {"LT", "LE"}}

\* The predicate a condition states of a value.
Holds(v, op, w) ==
  CASE op = "EQ" -> v = w [] op = "GT" -> v > w [] op = "GE" -> v >= w
    [] op = "LT" -> v < w [] op = "LE" -> v <= w

Matches(r) == \A j \in DOMAIN conds : Holds(table[r][conds[j].col], conds[j].op, conds[j].val)

Done == opened /\ IsEnd

\* Every record whose key satisfies every condition is yielded by the scan,
\* whatever the conditions' order, columns and strictness: the range keys
\* and the trimmed ends never cut off a matching record.
ScanYieldsAllMatches == Done => \A r \in Rids : Matches(r) => r \in ToSet(out)

\* The scan yields each record at most once, in ascending key order for an
\* ascending scan and descending order otherwise, across the trim and the
\* reversal of the slice.
ScanOrdered ==
  /\ IsInjective(out)
  /\ \A i \in 1 .. Len(out) - 1 :
       IF asc THEN KeyLeq(table[out[i]], table[out[i + 1]])
              ELSE KeyLeq(table[out[i + 1]], table[out[i]])

\* Spec 4.6 and scenario 2: the scan yields only records whose key
\* satisfies the predicate ("k > 3 AND k < 7 yields keys 4,5,6").
ScanYieldsOnlyMatches == \A i \in 1 .. Len(out) : Matches(out[i])
=============================================================================
