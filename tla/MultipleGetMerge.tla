--------------------------- MODULE MultipleGetMerge ---------------------------
(***************************************************************************)
(* ObMultipleGetMerge (src/oceanbase/src/sql/ob_multiple_get_merge.cpp)   *)
(* on its base ObMultipleMerge (ob_multiple_merge.cpp): an operator that  *)
(* answers a multi-get by reading one row from each child per            *)
(* get_next_row, in child order, and fusing them; child 0 gives the       *)
(* rowkey.  All children must end together.                                *)
(*                                                                         *)
(* A child is an iterator over rowsOf[op] rows: open() restarts it,        *)
(* get_next_row returns its next row or OB_ITER_END, and keeps returning   *)
(* OB_ITER_END once it ended.  A row is <<op, n>>, the n-th row of its     *)
(* child; the cells and ObRowFuse are left out (no property reads them).  *)
(* The caller builds the operator (set_child, reuse/reset) while it is not *)
(* open, opens it, pulls rows until the first return that is not           *)
(* OB_SUCCESS, and closes it.                                              *)
(***************************************************************************)
EXTENDS Integers

CONSTANTS
  Ops,       \* child operators
  MaxChild,  \* MAX_CHILD_OPERATOR_NUM
  MaxRows,   \* most rows a child returns
  UNSET      \* a child_array_ slot never written (the memset is commented out)

ASSUME MaxChild \in Nat \ {0} /\ MaxRows \in Nat /\ UNSET \notin Ops

VARIABLES
  childArray,  \* child_array_: [0..MaxChild-1 -> Ops \cup {UNSET}]
  childNum,    \* child_num_
  rowsOf,      \* rows each child operator holds (fixed for a behaviour)
  cursor,      \* rows each child has returned since it was opened
  phase,       \* "idle" or "iter" (between a successful open and close)
  ret,         \* the last return code of open/get_next_row/set_child
  emitted,     \* rows get_next_row returned since open (history)
  curRowkey    \* cur_rowkey_: <<op, n>> of the row it points into, or UNSET

vars == <<childArray, childNum, rowsOf, cursor, phase, ret, emitted, curRowkey>>

Idx == 0..MaxChild - 1
Rets == {"none", "success", "iter_end", "unexpected", "not_init", "size_overflow", "open_fail", "desc_fail"}

\* get_child: the operator at idx when idx < child_num_
GetChild(idx) == childArray[idx]
\* the child at idx has a row left
HasRow(idx) == cursor[GetChild(idx)] < rowsOf[GetChild(idx)]
\* cursor after the children at the indexes in S each returned a row
Advance(S) == [o \in Ops |-> IF \E i \in S : GetChild(i) = o THEN cursor[o] + 1 ELSE cursor[o]]
\* copy_rowkey of child idx's next row into cur_row_ (cur_rowkey_ then
\* points into it); only which row it is, not its cells, is kept
CopyRowkey(idx) == <<GetChild(idx), cursor[GetChild(idx)] + 1>>

\* what child_array_[0]->get_row_desc gives: a descriptor with a rowkey,
\* an error, OB_SUCCESS with a NULL descriptor, or no rowkey cells
RowDescs == {"ok", "err", "null", "no_rowkey"}

(***************************************************************************)
(* ObMultipleMerge::get_row_desc: OB_NOT_INIT without children, else the  *)
(* first child's descriptor; a rowkey count <= 0 is OB_ERR_UNEXPECTED.     *)
(* A NULL descriptor with OB_SUCCESS is only logged, so the call succeeds. *)
(***************************************************************************)
GetRowDesc(desc) ==
  IF childNum <= 0 THEN "not_init"
  ELSE IF desc = "err" THEN "desc_fail"
  ELSE IF desc = "no_rowkey" THEN "unexpected"
  ELSE "none"

Init ==
  /\ childArray = [i \in Idx |-> UNSET]
  /\ childNum = 0
  /\ rowsOf \in [Ops -> 0..MaxRows]
  /\ cursor = [o \in Ops |-> 0]
  /\ phase = "idle"
  /\ ret = "none"
  /\ emitted = 0
  /\ curRowkey = UNSET
-----------------------------------------------------------------------------
(***************************************************************************)
(* set_child: OB_SIZE_OVERFLOW past MAX_CHILD_OPERATOR_NUM; else grows     *)
(* child_num_ to idx + 1 and stores the child.  The caller fills the slots *)
(* in order (idx <= child_num_) with distinct children.                    *)
(***************************************************************************)
\* mutant: the MAX_CHILD_OPERATOR_NUM check left out
SetChildNoOverflowCheck(idx, op) ==
  /\ phase = "idle"
  /\ op \notin {childArray[i] : i \in {j \in Idx : j < childNum /\ j # idx}}
  /\ childNum' = IF childNum < idx + 1 THEN idx + 1 ELSE childNum
  /\ childArray' = [childArray EXCEPT ![idx] = op]
  /\ ret' = "success"
  /\ UNCHANGED <<rowsOf, cursor, phase, emitted, curRowkey>>

SetChild(idx, op) ==
  /\ phase = "idle"
  /\ op \notin {childArray[i] : i \in {j \in Idx : j < childNum /\ j # idx}}
  /\ IF idx >= MaxChild
     THEN ret' = "size_overflow" /\ UNCHANGED <<childArray, childNum>>
     ELSE /\ childNum' = IF childNum < idx + 1 THEN idx + 1 ELSE childNum
          /\ childArray' = [childArray EXCEPT ![idx] = op]
          /\ ret' = "success"
  /\ UNCHANGED <<rowsOf, cursor, phase, emitted, curRowkey>>

\* reset / reuse: the allocator is freed or reused (not modelled),
\* child_num_ = 0 and is_ups_row_ = true; child_array_ and cur_rowkey_ stay
Reuse ==
  /\ phase = "idle"
  /\ childNum' = 0
  /\ UNCHANGED <<childArray, rowsOf, cursor, phase, ret, emitted, curRowkey>>

(***************************************************************************)
(* open: opens the children in order (the k-th open may fail and stops   *)
(* the loop), then get_row_desc.  On a NULL descriptor open logs and     *)
(* still returns OB_SUCCESS, leaving cur_row_ without a row descriptor.   *)
(***************************************************************************)
Open ==
  /\ phase = "idle"
  /\ \E k \in 0..childNum, desc \in RowDescs :
       \* children opened; k < childNum: child k failed
       LET opened == {GetChild(i) : i \in 0..k - 1}
           rd == IF k < childNum THEN "open_fail" ELSE GetRowDesc(desc)
           ok == rd = "none"
       IN /\ cursor' = [o \in Ops |-> IF o \in opened THEN 0 ELSE cursor[o]]
          /\ phase' = IF ok THEN "iter" ELSE "idle"
          /\ ret' = rd
  /\ emitted' = 0
  /\ UNCHANGED <<childArray, childNum, rowsOf, curRowkey>>

(***************************************************************************)
(* The return code of a get_next_row in which child j ended first; `live` *)
(* are the children after 0 that still had a row in the end check.        *)
(***************************************************************************)
\* mutant: the end check left out; child 0's OB_ITER_END ends the pass
EndRetNoCheck(j, live) == IF j = 0 THEN "iter_end" ELSE "unexpected"

\* mutant: the end of the pass is reported as OB_SUCCESS with no row
EndRetAsSuccess(j, live) == IF j = 0 /\ live = {} THEN "success" ELSE "unexpected"

EndRet(j, live) == IF j = 0 /\ live = {} THEN "iter_end" ELSE "unexpected"

(***************************************************************************)
(* get_next_row: reads child 0, 1, ... in turn.  If every child gave a     *)
(* row: OB_SUCCESS, and cur_rowkey_ follows child 0's row.  If child j > 0 *)
(* ended first: OB_ERR_UNEXPECTED after children 0..j-1 gave their rows.  *)
(* If child 0 ended: the end check reads children 1, 2, ... until one      *)
(* gives a row (consumed; OB_ERR_UNEXPECTED) or all ended (OB_ITER_END).   *)
(***************************************************************************)
GetNextRow ==
  /\ phase = "iter"
  /\ ret \in {"none", "success"}
  /\ LET kids == 0..childNum - 1
         ended == {j \in kids : ~HasRow(j)}
         j == CHOOSE j \in ended : \A i \in ended : j <= i
         live == {k \in kids \ {0} : HasRow(k)}
         k == CHOOSE k \in live : \A i \in live : k <= i
     IN IF ended = {}
        THEN /\ cursor' = Advance(kids)
             /\ ret' = "success"
             /\ emitted' = emitted + 1
             /\ curRowkey' = CopyRowkey(0)
        ELSE /\ cursor' = IF j > 0 THEN Advance(0..j - 1)
                          ELSE IF live = {} THEN cursor ELSE Advance({k})
             /\ ret' = EndRet(j, live)
             /\ UNCHANGED <<emitted, curRowkey>>
  /\ UNCHANGED <<childArray, childNum, rowsOf, phase>>

\* close: closes every child (their state is not kept); the caller is done
Close ==
  /\ phase = "iter"
  /\ phase' = "idle"
  /\ UNCHANGED <<childArray, childNum, rowsOf, cursor, ret, emitted, curRowkey>>

Next ==
  \/ \E idx \in 0..childNum, op \in Ops : SetChild(idx, op)
  \/ Reuse
  \/ Open
  \/ GetNextRow
  \/ Close

\* the parent operator keeps pulling rows while get_next_row succeeds
Spec == Init /\ [][Next]_vars /\ WF_vars(GetNextRow)
-----------------------------------------------------------------------------
TypeOK ==
  /\ childArray \in [Idx -> Ops \cup {UNSET}]
  /\ childNum \in 0..MaxChild
  /\ rowsOf \in [Ops -> 0..MaxRows]
  /\ cursor \in [Ops -> 0..MaxRows]
  /\ phase \in {"idle", "iter"}
  /\ ret \in Rets
  /\ emitted \in 0..MaxRows
  /\ curRowkey \in (Ops \X (1..MaxRows)) \cup {UNSET}

(***************************************************************************)
(* A pass that ends with OB_ITER_END returned exactly one fused row per    *)
(* row of every child: no child had rows left over and none was short.    *)
(* It is about the end check of get_next_row (all children must reach     *)
(* OB_ITER_END in the same call) and the lock-step reading of children.   *)
(***************************************************************************)
NoRowLost ==
  ret = "iter_end" => \A i \in 0..childNum - 1 : rowsOf[GetChild(i)] = emitted

(***************************************************************************)
(* A parent that keeps calling get_next_row gets a return that is not     *)
(* OB_SUCCESS: every child reaches its end, so the merge ends.            *)
(***************************************************************************)
PassEnds == [](phase = "iter" => <>(ret \notin {"none", "success"} \/ phase = "idle"))
====
