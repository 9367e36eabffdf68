---------------------------- MODULE MC_RowStore ----------------------------
(***************************************************************************)
(* ObRowStore for TLC: two columns, a narrow and a wide value, blocks of  *)
(* 6 units and at most 2 of them, one reserved column.  The rows are      *)
(* chosen so that one block holds one or two rows (rA, rB), a row never   *)
(* fits (rBig) and a row carries an unsupported extend flag (rBad).        *)
(***************************************************************************)
EXTENDS RowStoreSerial

CONSTANTS c1, c2, v1, w

MCCols == {c1, c2}
MCVals == {v1, w}
MCWideVals == {w}

rA == << [col |-> c1, val |-> v1] >>
rB == << [col |-> c1, val |-> w], [col |-> c2, val |-> v1] >>
rBig == << [col |-> c1, val |-> w], [col |-> c2, val |-> w], [col |-> c1, val |-> w] >>
rBad == << [col |-> c1, val |-> BADEXT] >>

\* inputs with a cell append_row refuses, and inputs whose cells it accepts
MCAllRows == {rA, rB, rBad}
MCGoodRows == {rA, rB, rBig}

=============================================================================
