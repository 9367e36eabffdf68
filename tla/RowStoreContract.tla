-------------------------- MODULE RowStoreContract --------------------------
(***************************************************************************)
(* What ObRowStore promises its writer: the stored content is the         *)
(* sequence of rows added since the last reuse/clear; a successful add_row *)
(* appends its row, a failed one leaves the content alone, and            *)
(* rollback_last_row returns to the content before the last add_row when  *)
(* a checkpoint exists and is refused otherwise.  `undo` is that          *)
(* checkpoint (NONE: rollback is refused); `last` names the kind of the   *)
(* last call, so that a rollback cannot pass for a failed add_row.        *)
(***************************************************************************)
EXTENDS Sequences

CONSTANTS Rows, NONE

VARIABLES rows, undo, last

Init == rows = << >> /\ undo = NONE /\ last = "query"

\* add_row succeeded: the row is appended; a checkpoint may be taken
Add(r) == rows' = Append(rows, r) /\ undo' \in {rows, NONE} /\ last' = "add"

\* add_row failed: the content is unchanged
AddFailed == UNCHANGED rows /\ undo' \in {rows, NONE} /\ last' = "add_failed"

\* rollback_last_row: back to the checkpoint, or refused without one
Rollback ==
  /\ IF undo # NONE THEN rows' = undo ELSE UNCHANGED rows
  /\ undo' = NONE
  /\ last' = "rollback"

\* reuse, clear, clear_rows
Reset == rows' = << >> /\ undo' = NONE /\ last' = "reset"

\* add_reserved_column, reset_iterator, get_next_row
Query == UNCHANGED <<rows, undo>> /\ last' = "query"

Next == (\E r \in Rows : Add(r)) \/ AddFailed \/ Rollback \/ Reset \/ Query

Spec == Init /\ [][Next]_<<rows, undo, last>>

=============================================================================
