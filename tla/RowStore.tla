------------------------------ MODULE RowStore ------------------------------
(***************************************************************************)
(* ObRowStore (src/src/common/ob_row_store.cpp): a list of fixed-size      *)
(* blocks, oldest (block_list_tail_) first, into which add_row appends     *)
(* stored rows (a header of reserved cells followed by the compact row).  *)
(*                                                                         *)
(* A block is the sequence of entries written between its start and its   *)
(* curr_data_pos_; the bytes past curr_data_pos_ are never read by the     *)
(* code, so they are not kept.  Block i of `blocks` is the i-th block of   *)
(* the list counted from the tail; `head` is block_list_head_ (0 = NULL).  *)
(* Sizes are in abstract units: a plain cell takes 1 unit (a wide value   *)
(* 2), an extend cell 1, the row-finish marker 1, and a stored-row header *)
(* with k reserved cells 1 + k.                                            *)
(***************************************************************************)
EXTENDS Integers, Sequences, SequencesExt

CONSTANTS
  BlockCap,     \* BLOCK_SIZE - sizeof(BlockInfo): usable units of a block
  MaxBlocks,    \* blocks ob_tc_malloc hands out before it returns NULL
  MaxReserved,  \* entries reserved_columns_.push_back accepts
  Cols,         \* (table_id, column_id) pairs
  Vals,         \* plain cell values
  WideVals,     \* plain values whose compact encoding takes 2 units
  NOP,          \* ObExtendType cell with a supported flag (OP_NOP)
  BADEXT,       \* ObExtendType cell with an unsupported flag
  InputRows,    \* rows (sequences of [col, val] cells) the caller adds
  NULLOBJ,      \* a default-constructed ObObj
  UNDEF,        \* a reserved cell slot never written (stale block bytes)
  GARBAGE,      \* what decoding a header without a row yields
  NONE          \* "no checkpoint" in the contract

ASSUME WideVals \subseteq Vals
ASSUME BlockCap \in Nat \ {0} /\ MaxBlocks \in Nat \ {0}

VARIABLES
  blocks,        \* Seq of Seq(Entry): the block list, tail first
  head,          \* block_list_head_ as an index into blocks, 0 = NULL
  blockCount,    \* block_count_
  reserved,      \* reserved_columns_
  lastSize,      \* last_row_store_size_
  lastPrevSize,  \* last_prev_row_store_size_
  rbBlock,       \* rollback_block_list_ (0 = NULL)
  rbPos,         \* rollback_iter_pos_
  iterBlock,     \* cur_iter_block_ (0 = NULL)
  iterPos,       \* cur_iter_pos_
  gotFirst,      \* got_first_next_
  op,            \* the last public call
  ret,           \* its return code
  readOut,       \* history: rows returned by get_next_row since the pass began
  mixed          \* history: a write happened while a read pass was open

vars == <<blocks, head, blockCount, reserved, lastSize, lastPrevSize, rbBlock,
          rbPos, iterBlock, iterPos, gotFirst, op, ret, readOut, mixed>>

Cell == [col : Cols, val : Vals \cup {NOP, BADEXT}]
Entry == [kind : {"row", "garbage"}, row : Seq(Cell), cols : Seq(Cols),
          res : Seq(Vals \cup {NULLOBJ, UNDEF}), size : 1..BlockCap]

-----------------------------------------------------------------------------
(* Sizes.                                                                  *)

\* get_reserved_cells_size(k): the StoredRow header plus k ObObj copies
ReservedCellsSize(k) == 1 + k

CellSize(v) == IF v \in WideVals THEN 2 ELSE 1

\* get_compact_row_min_size(n): every cell at its smallest, plus row_finish
CompactRowMinSize(n) == n + 1

\* bytes the cell writer has written after the first i cells of r
RECURSIVE CumSize(_, _)
CumSize(r, i) == IF i = 0 THEN 0 ELSE CumSize(r, i - 1) + CellSize(r[i].val)

\* BlockInfo::get_curr_data_pos of a block holding entries es
RECURSIVE Pos(_)
Pos(es) == IF es = << >> THEN 0 ELSE Head(es).size + Pos(Tail(es))

\* BlockInfo::get_remain_size of block b
RemainSize(bs, b) == BlockCap - Pos(bs[b])

\* ObRowStore::append_extend_cell (lines 251-291): OP_VALID,
\* OP_ROW_DOES_NOT_EXIST, OP_DEL_ROW, OP_NEW_ADD and OP_NOP have an escape
\* code (NOP stands for them all), any other flag is OB_NOT_SUPPORTED
AppendExtendCell(v) == IF v = NOP THEN "SUCCESS" ELSE "NOT_SUPPORTED"

\* the cell at i is refused before its size matters
Unsupported(r, i) == r[i].val \notin Vals /\ AppendExtendCell(r[i].val) = "NOT_SUPPORTED"

-----------------------------------------------------------------------------
(* ObRowStore::append_row (lines 296-368): encode r into `avail` units.    *)
(* Cells are appended in order; an extend cell with an unsupported flag   *)
(* fails with OB_NOT_SUPPORTED, a cell or the row-finish marker that does *)
(* not fit fails with OB_BUF_NOT_ENOUGH.  A cell whose column is reserved *)
(* is copied into the first matching slot; the copy is cell_clone, which  *)
(* only a plain cell sets, so an extend cell copies the last plain value. *)
AppendRow(r, avail, cols) ==
  LET failing == {i \in 1..Len(r) : Unsupported(r, i) \/ CumSize(r, i) > avail}
      clone(i) == LET plain == {m \in 1..i : r[m].val \in Vals}
                  IN IF plain = {} THEN NULLOBJ ELSE r[Max(plain)].val
      slot(j) == LET hits == {i \in 1..Len(r) :
                                /\ r[i].col = cols[j]
                                /\ \A j2 \in 1..(j - 1) : cols[j2] # r[i].col}
                 IN IF hits = {} THEN UNDEF ELSE clone(Max(hits))
  IN IF failing # {}
     THEN [ret |-> IF Unsupported(r, Min(failing)) THEN "NOT_SUPPORTED"
                                                   ELSE "BUF_NOT_ENOUGH"]
     ELSE IF CumSize(r, Len(r)) + 1 > avail
     THEN [ret |-> "BUF_NOT_ENOUGH"]
     ELSE [ret |-> "SUCCESS", size |-> CumSize(r, Len(r)) + 1,
           res |-> [j \in 1..Len(cols) |-> slot(j)]]

\* mutant: block_count_ is incremented on the reuse branch too
NewBlockCountingReuse(s) ==
  IF s.head # 0 /\ s.head < Len(s.blocks)
  THEN [ok |-> TRUE, head |-> s.head + 1, count |-> s.count + 1,
        blocks |-> [s.blocks EXCEPT ![s.head + 1] = << >>]]
  ELSE IF Len(s.blocks) = MaxBlocks
  THEN [s EXCEPT !.ok = FALSE]
  ELSE [ok |-> TRUE, head |-> Len(s.blocks) + 1, count |-> s.count + 1,
        blocks |-> Append(s.blocks, << >>)]

(* ObRowStore::new_block (lines 208-250): move to the block after the     *)
(* head when a rollback left one there, else allocate and link one.       *)
NewBlock(s) ==
  IF s.head # 0 /\ s.head < Len(s.blocks)
  THEN [ok |-> TRUE, head |-> s.head + 1, count |-> s.count,
        blocks |-> [s.blocks EXCEPT ![s.head + 1] = << >>]]
  ELSE IF Len(s.blocks) = MaxBlocks
  THEN [s EXCEPT !.ok = FALSE]
  ELSE [ok |-> TRUE, head |-> Len(s.blocks) + 1, count |-> s.count + 1,
        blocks |-> Append(s.blocks, << >>)]

(* The retry loop of add_row (lines 400-437) from write state s.  The     *)
(* header is reserved before append_row; it is given back only on         *)
(* OB_BUF_NOT_ENOUGH, which moves to a new block.  The new_block call     *)
(* after the second failure is made before the loop sees retry = 2.       *)
RECURSIVE AddLoop(_, _, _, _)
AddLoop(r, cols, s, retry) ==
  LET hdr == ReservedCellsSize(Len(cols))
      res == AppendRow(r, RemainSize(s.blocks, s.head) - hdr, cols)
      put(e) == [s EXCEPT !.blocks[s.head] = Append(@, e)]
      nb == NewBlock(s)
  IN CASE res.ret = "SUCCESS" ->
            [ret |-> "SUCCESS", size |-> res.size + hdr,
             st |-> put([kind |-> "row", row |-> r, cols |-> cols,
                         res |-> res.res, size |-> res.size + hdr])]
       [] res.ret = "NOT_SUPPORTED" ->
            [ret |-> "NOT_SUPPORTED", size |-> 0,
             st |-> put([kind |-> "garbage", row |-> << >>, cols |-> cols,
                         res |-> << >>, size |-> hdr])]
       [] retry + 1 >= 2 ->
            [ret |-> "ERR_UNEXPECTED", size |-> 0, st |-> IF nb.ok THEN nb ELSE s]
       [] ~nb.ok -> [ret |-> "ALLOCATE_MEMORY_FAILED", size |-> 0, st |-> s]
       [] OTHER -> AddLoop(r, cols, nb, retry + 1)

-----------------------------------------------------------------------------
(* Reading.                                                                *)

\* BlockInfo::set_curr_data_pos(p) on a block: keep the entries before p
TruncateTo(es, p) ==
  SubSeq(es, 1, Max({i \in 0..Len(es) : Pos(SubSeq(es, 1, i)) <= p}))

\* the entry that starts at offset p of entries es, if p is a row boundary
EntryAt(es, p) ==
  LET starts == {i \in 1..Len(es) : Pos(SubSeq(es, 1, i - 1)) = p}
  IN IF starts = {} THEN NONE ELSE es[CHOOSE i \in starts : TRUE]

\* mutant: the skip loop tests 0 > remain instead of 0 >= remain
RECURSIVE NextIterPosStrict(_, _)
NextIterPosStrict(b, p) ==
  IF b = 0 THEN [b |-> 0, p |-> p]
  ELSE IF Pos(blocks[b]) - p < 0
       THEN NextIterPosStrict(IF b < Len(blocks) THEN b + 1 ELSE 0, 0)
       ELSE [b |-> b, p |-> p]

\* ObRowStore::next_iter_pos (lines 441-462): skip blocks read to the end
RECURSIVE NextIterPos(_, _)
NextIterPos(b, p) ==
  IF b = 0 THEN [b |-> 0, p |-> p]
  ELSE IF Pos(blocks[b]) - p <= 0
       THEN NextIterPos(IF b < Len(blocks) THEN b + 1 ELSE 0, 0)
       ELSE [b |-> b, p |-> p]

RowOf(e) == IF e.kind = "row" THEN e.row ELSE GARBAGE

(* ObRowStore::get_last_stored_row (lines 89-107), a const query.          *)
GetLastStoredRow ==
  IF lastSize = 0 THEN [ret |-> "NOT_INIT"]
  ELSE IF Pos(blocks[head]) - lastSize < 0 THEN [ret |-> "ERR_UNEXPECTED"]
  ELSE LET e == EntryAt(blocks[head], Pos(blocks[head]) - lastSize)
       IN [ret |-> "SUCCESS", row |-> IF e = NONE THEN GARBAGE ELSE RowOf(e)]

-----------------------------------------------------------------------------
Init ==
  /\ blocks = << >>
  /\ head = 0
  /\ blockCount = 0
  /\ reserved = << >>
  /\ lastSize = 0
  /\ lastPrevSize = 0
  /\ rbBlock = 0
  /\ rbPos = -1
  /\ iterBlock = 0
  /\ iterPos = 0
  /\ gotFirst = FALSE
  /\ op = "init"
  /\ ret = "SUCCESS"
  /\ readOut = << >>
  /\ mixed = FALSE

WriteDuringRead == mixed' = (mixed \/ gotFirst)

\* mutant: push_back without a capacity check
AddReservedColumnUnbounded(c) ==
  /\ reserved' = Append(reserved, c) /\ ret' = "SUCCESS"
  /\ op' = "add_reserved_column"
  /\ WriteDuringRead
  /\ UNCHANGED <<blocks, head, blockCount, lastSize, lastPrevSize, rbBlock,
                 rbPos, iterBlock, iterPos, gotFirst, readOut>>

(* ObRowStore::add_reserved_column (lines 109-117).                        *)
AddReservedColumn(c) ==
  /\ IF Len(reserved) < MaxReserved
     THEN reserved' = Append(reserved, c) /\ ret' = "SUCCESS"
     ELSE UNCHANGED reserved /\ ret' = "SIZE_OVERFLOW"
  /\ op' = "add_reserved_column"
  /\ WriteDuringRead
  /\ UNCHANGED <<blocks, head, blockCount, lastSize, lastPrevSize, rbBlock,
                 rbPos, iterBlock, iterPos, gotFirst, readOut>>

(* ObRowStore::add_row (lines 383-439): take the rollback checkpoint,     *)
(* start a block when the head cannot hold the smallest encoding of r,    *)
(* then run the retry loop.                                               *)
AddRow(r) ==
  LET cols == reserved
      s0 == [ok |-> TRUE, blocks |-> blocks, head |-> head, count |-> blockCount]
      needBlock == head = 0 \/ RemainSize(blocks, head)
                     <= CompactRowMinSize(Len(r)) + ReservedCellsSize(Len(cols))
      s1 == IF needBlock THEN NewBlock(s0) ELSE s0
      out == IF s1.ok THEN AddLoop(r, cols, s1, 0)
             ELSE [ret |-> "ALLOCATE_MEMORY_FAILED", size |-> 0, st |-> s0]
  IN /\ rbBlock' = head
     /\ rbPos' = IF head = 0 THEN -1 ELSE Pos(blocks[head])
     /\ blocks' = out.st.blocks
     /\ head' = out.st.head
     /\ blockCount' = out.st.count
     /\ ret' = out.ret
     /\ IF out.ret = "SUCCESS"
        THEN lastPrevSize' = lastSize /\ lastSize' = out.size
        ELSE UNCHANGED <<lastPrevSize, lastSize>>
     /\ op' = "add_row"
     /\ WriteDuringRead
     /\ UNCHANGED <<reserved, iterBlock, iterPos, gotFirst, readOut>>

\* mutant: the head is moved back but its curr_data_pos_ is not restored
RollbackLastRowKeepPos ==
  /\ IF rbPos < 0
     THEN /\ ret' = "NOT_SUPPORTED"
          /\ UNCHANGED <<blocks, head, lastSize, rbPos>>
     ELSE /\ head' = rbBlock
          /\ UNCHANGED blocks
          /\ lastSize' = lastPrevSize
          /\ rbPos' = -1
          /\ ret' = "SUCCESS"
  /\ op' = "rollback_last_row"
  /\ WriteDuringRead
  /\ UNCHANGED <<blockCount, reserved, lastPrevSize, rbBlock, iterBlock,
                 iterPos, gotFirst, readOut>>

(* ObRowStore::rollback_last_row (lines 185-206): back to the checkpoint  *)
(* of the last add_row; the blocks linked after it stay in the list.      *)
RollbackLastRow ==
  /\ IF rbPos < 0
     THEN /\ ret' = "NOT_SUPPORTED"
          /\ UNCHANGED <<blocks, head, lastSize, rbPos>>
     ELSE /\ head' = rbBlock
          /\ IF rbBlock = 0
             THEN UNCHANGED <<blocks, lastSize>>
             ELSE /\ blocks' = [blocks EXCEPT ![rbBlock] = TruncateTo(@, rbPos)]
                  /\ lastSize' = lastPrevSize
          /\ rbPos' = -1
          /\ ret' = "SUCCESS"
  /\ op' = "rollback_last_row"
  /\ WriteDuringRead
  /\ UNCHANGED <<blockCount, reserved, lastPrevSize, rbBlock, iterBlock,
                 iterPos, gotFirst, readOut>>

(* ObRowStore::reuse (lines 119-135): rewind the tail block and make it    *)
(* the head; the other blocks keep their curr_data_pos_.                  *)
Reuse ==
  /\ head' = IF blocks = << >> THEN 0 ELSE 1
  /\ blocks' = IF blocks = << >> THEN blocks ELSE [blocks EXCEPT ![1] = << >>]
  /\ reserved' = << >>
  /\ lastSize' = 0 /\ lastPrevSize' = 0
  /\ iterBlock' = 0 /\ iterPos' = 0 /\ gotFirst' = FALSE
  /\ rbPos' = -1 /\ rbBlock' = 0
  /\ op' = "reuse" /\ ret' = "SUCCESS"
  /\ readOut' = << >> /\ mixed' = FALSE
  /\ UNCHANGED blockCount

(* ObRowStore::clear_rows (lines 157-182) frees every block but keeps the *)
(* reserved columns; ObRowStore::clear (lines 137-151) is reuse() followed *)
(* by freeing every block, walking from the tail.                         *)
FreeAllBlocks(keepReserved) ==
  /\ blocks' = << >> /\ head' = 0 /\ blockCount' = 0
  /\ reserved' = IF keepReserved THEN reserved ELSE << >>
  /\ lastSize' = 0 /\ lastPrevSize' = 0
  /\ iterBlock' = 0 /\ iterPos' = 0 /\ gotFirst' = FALSE
  /\ rbPos' = -1 /\ rbBlock' = 0
  /\ ret' = "SUCCESS"
  /\ readOut' = << >> /\ mixed' = FALSE

ClearRows == FreeAllBlocks(TRUE) /\ op' = "clear_rows"

Clear == FreeAllBlocks(FALSE) /\ op' = "clear"

(* ObRowStore::reset_iterator (lines 464-469).                             *)
ResetIterator ==
  /\ iterBlock' = IF blocks = << >> THEN 0 ELSE 1
  /\ iterPos' = 0
  /\ gotFirst' = FALSE
  /\ op' = "reset_iterator" /\ ret' = "SUCCESS"
  /\ readOut' = << >> /\ mixed' = FALSE
  /\ UNCHANGED <<blocks, head, blockCount, reserved, lastSize, lastPrevSize,
                 rbBlock, rbPos>>

(* ObRowStore::get_next_row (lines 471-513): a first call starts at the   *)
(* tail; the row at the cursor is decoded and the cursor moves past its   *)
(* header and compact bytes.  A cursor that is not at a row boundary (a   *)
(* write moved the data under an open pass), or a header left by a failed *)
(* add_row, is decoded with a stale compact_row_size_; the model returns  *)
(* GARBAGE and moves the cursor past the block's data.                    *)
GetNextRow ==
  LET b0 == IF gotFirst THEN iterBlock ELSE IF blocks = << >> THEN 0 ELSE 1
      p0 == IF gotFirst THEN iterPos ELSE 0
      base == IF gotFirst THEN readOut ELSE << >>
      nx == NextIterPos(b0, p0)
      e == IF nx.b = 0 THEN NONE ELSE EntryAt(blocks[nx.b], nx.p)
  IN /\ gotFirst' = TRUE
     /\ iterBlock' = nx.b
     /\ IF nx.b = 0
        THEN /\ ret' = "ITER_END" /\ iterPos' = nx.p /\ readOut' = base
        ELSE IF e = NONE
        THEN /\ ret' = "ERROR" /\ iterPos' = Pos(blocks[nx.b])
             /\ readOut' = Append(base, GARBAGE)
        ELSE /\ ret' = IF e.kind = "row" THEN "SUCCESS" ELSE "ERROR"
             /\ iterPos' = IF e.kind = "row" THEN nx.p + e.size ELSE Pos(blocks[nx.b])
             /\ readOut' = Append(base, RowOf(e))
     /\ op' = "get_next_row"
     /\ mixed' = (mixed /\ gotFirst)
     /\ UNCHANGED <<blocks, head, blockCount, reserved, lastSize, lastPrevSize,
                    rbBlock, rbPos>>

Next ==
  \/ \E c \in Cols : AddReservedColumn(c)
  \/ \E r \in InputRows : AddRow(r)
  \/ RollbackLastRow
  \/ Reuse
  \/ ClearRows
  \/ Clear
  \/ ResetIterator
  \/ GetNextRow

Spec == Init /\ [][Next]_vars

-----------------------------------------------------------------------------
(* What the writer has written: the entries of the blocks up to the head. *)
WrittenRows == FlattenSeq([i \in 1..head |-> [k \in 1..Len(blocks[i]) |-> RowOf(blocks[i][k])]])

(* The content a rollback would return to.                                *)
CheckpointRows ==
  IF rbPos < 0 THEN NONE
  ELSE FlattenSeq([i \in 1..rbBlock |->
         LET es == IF i = rbBlock THEN TruncateTo(blocks[i], rbPos) ELSE blocks[i]
         IN [k \in 1..Len(es) |-> RowOf(es[k])]])

TypeOK ==
  /\ blocks \in Seq(Seq(Entry)) /\ Len(blocks) <= MaxBlocks
  /\ \A b \in 1..Len(blocks) : Pos(blocks[b]) <= BlockCap
  /\ head \in 0..Len(blocks) /\ (head = 0) = (blocks = << >>)
  /\ blockCount \in Nat
  /\ reserved \in Seq(Cols) /\ Len(reserved) <= MaxReserved
  /\ lastSize \in 0..BlockCap /\ lastPrevSize \in 0..BlockCap
  /\ rbBlock \in 0..Len(blocks) /\ rbPos \in -1..BlockCap
  /\ iterBlock \in 0..Len(blocks) /\ iterPos \in 0..BlockCap
  /\ gotFirst \in BOOLEAN /\ mixed \in BOOLEAN

(* No block is leaked: get_used_mem_size() (block_count_ * BLOCK_SIZE)     *)
(* counts exactly the blocks reachable from block_list_tail_.  clear and  *)
(* clear_rows walk from the tail so that blocks left after the head by a  *)
(* rollback are freed too (the comment at lines 143-144).                 *)
NoLeakedBlocks == blockCount = Len(blocks)

(* A read pass begun after the writes returns the written rows first and *)
(* in the order they were added (get_next_row, next_iter_pos, reset).     *)
IterationReadsWrittenFirst ==
  ~mixed => (IsPrefix(readOut, WrittenRows) \/ IsPrefix(WrittenRows, readOut))

(* Spec §4.2, §8.6: a read pass begun after the writes returns exactly    *)
(* the written rows: when it ends, nothing else has been returned.        *)
IterationYieldsWritten ==
  (~mixed /\ op = "get_next_row" /\ ret = "ITER_END") => readOut = WrittenRows

(* Spec §4.2 failure semantics: a failed add_row leaves the written rows  *)
(* as they were.                                                           *)
FailedAddKeepsRows ==
  [][(op' = "add_row" /\ ret' # "SUCCESS") => WrittenRows' = WrittenRows]_vars

(* get_last_stored_row, when it succeeds, returns the last row of the     *)
(* written content.                                                        *)
LastStoredRowIsLast ==
  GetLastStoredRow.ret = "SUCCESS" =>
    WrittenRows # << >> /\ GetLastStoredRow.row = Last(WrittenRows)

-----------------------------------------------------------------------------
(* The contract of the writer side, and its refinement mapping.          *)
CallKind ==
  CASE op = "add_row" /\ ret = "SUCCESS" -> "add"
    [] op = "add_row" -> "add_failed"
    [] op = "rollback_last_row" -> "rollback"
    [] op \in {"reuse", "clear", "clear_rows"} -> "reset"
    [] OTHER -> "query"

Contract == INSTANCE RowStoreContract
              WITH rows <- WrittenRows, undo <- CheckpointRows, last <- CallKind,
                   Rows <- InputRows

ContractSpec == Contract!Spec

=============================================================================
