---------------------------- MODULE RowStoreSerial ----------------------------
(***************************************************************************)
(* The wire format of ObRowStore (src/src/common/ob_row_store.cpp, lines  *)
(* 522-684): serialize writes, for every block from block_list_tail_      *)
(* along next_block_, an ObObj int with the block's curr_data_pos_ and    *)
(* then the block's bytes; then an extend ObObj BASIC_PARAM_FIELD, the    *)
(* vi64 last_row_store_size_ and an extend ObObj OP_END_FLAG.             *)
(* deserialize reuses the store and copies each block into new_block().   *)
(*                                                                         *)
(* The buffer is a sequence of tokens, each with the size it takes: an    *)
(* ObObj or a varint 1 unit, a block's bytes Pos(block) units.  Decoding a *)
(* token as the wrong kind fails, and so does decoding past the data.     *)
(* serialize and deserialize are operators of the store state they run   *)
(* on; the round trip is checked on every reachable state of RowStore.   *)
(***************************************************************************)
EXTENDS RowStore

Tok(k, v) == [k |-> k, v |-> v]
\* the bytes of a block: nothing for an empty one (a memcpy of 0 bytes)
DataToks(es) == IF es = << >> THEN << >> ELSE << Tok("data", es) >>

\* the store state new_block and deserialize work on
Store(bs, h, n) == [ok |-> TRUE, blocks |-> bs, head |-> h, count |-> n]

-----------------------------------------------------------------------------
(***************************************************************************)
(* The block loop of serialize into `cap` units from `pos`.  A block       *)
(* header that does not fit fails (the ObObj serialize error) and breaks  *)
(* the loop.  Block bytes that do not fit set OB_BUF_NOT_ENOUGH but the   *)
(* loop goes on, and the next header's serialize overwrites ret.          *)
(***************************************************************************)
RECURSIVE SerializeBlocks(_, _, _, _, _, _)
SerializeBlocks(bs, i, cap, pos, img, rc) ==
  IF i > Len(bs) THEN [ret |-> rc, img |-> img, pos |-> pos]
  ELSE IF pos + 1 > cap THEN [ret |-> "SIZE_OVERFLOW", img |-> img, pos |-> pos]
  ELSE LET hdr == Append(img, Tok("int", Pos(bs[i])))
       IN IF cap - (pos + 1) < Pos(bs[i])
          THEN SerializeBlocks(bs, i + 1, cap, pos + 1, hdr, "BUF_NOT_ENOUGH")
          ELSE SerializeBlocks(bs, i + 1, cap, pos + 1 + Pos(bs[i]),
                               hdr \o DataToks(bs[i]), "SUCCESS")

\* serialize of the store (blocks, last) into a buffer of cap units
Serialize(bs, last, cap) ==
  LET r == SerializeBlocks(bs, 1, cap, 0, << >>, "SUCCESS")
      tail == << Tok("ext", "basic"), Tok("vi64", last), Tok("ext", "end") >>
      fits == r.pos + Len(tail) <= cap
  IN IF r.ret # "SUCCESS" THEN [ret |-> r.ret, img |-> r.img]
     ELSE IF ~fits THEN [ret |-> "SIZE_OVERFLOW", img |-> r.img]
     ELSE [ret |-> "SUCCESS", img |-> r.img \o tail]

\* get_serialize_size: a header and the bytes of every block, then the
\* two markers and last_row_store_size_
GetSerializeSize(bs) == FoldLeft(LAMBDA n, b : n + 1 + Pos(b), 0, bs) + 3

-----------------------------------------------------------------------------
(***************************************************************************)
(* The block loop of deserialize from token i into store s.  An extend    *)
(* ObObj ends the loop; any other ObObj but an int is OB_ERROR.  Each     *)
(* block gets new_block() (which fails at MaxBlocks), then its bytes are  *)
(* copied if 0 <= size <= the new head's remain.  When the bytes after    *)
(* the header are not that block's data (a truncated image), the copy     *)
(* takes the next header's bytes and decoding goes on at an offset inside *)
(* a token, which the model takes as a decode failure.                    *)
(***************************************************************************)
\* mutant: a block that exactly fills the new block is refused
RECURSIVE DeserializeBlocksStrictFit(_, _, _)
DeserializeBlocksStrictFit(img, i, s) ==
  IF i > Len(img) THEN [ret |-> "DESERIALIZE_ERROR", i |-> i, st |-> s]
  ELSE IF img[i].k = "ext" THEN [ret |-> "SUCCESS", i |-> i + 1, st |-> s]
  ELSE IF img[i].k # "int" THEN [ret |-> "ERROR", i |-> i, st |-> s]
  ELSE LET n == img[i].v
           nb == NewBlock(s)
           data == IF n = 0 THEN << >> ELSE img[i + 1].v
           next == IF n = 0 THEN i + 1 ELSE i + 2
           isData == n = 0 \/ (i + 1 <= Len(img) /\ img[i + 1].k = "data"
                                /\ Pos(img[i + 1].v) = n)
       IN IF ~nb.ok THEN [ret |-> "ALLOCATE_MEMORY_FAILED", i |-> i, st |-> s]
          ELSE IF ~(n < RemainSize(nb.blocks, nb.head) /\ n >= 0)
          THEN [ret |-> "ERROR", i |-> i, st |-> nb]
          ELSE IF ~isData THEN [ret |-> "DESERIALIZE_ERROR", i |-> i, st |-> nb]
          ELSE DeserializeBlocksStrictFit(img, next,
                 [nb EXCEPT !.blocks[nb.head] = data])

RECURSIVE DeserializeBlocks(_, _, _)
DeserializeBlocks(img, i, s) ==
  IF i > Len(img) THEN [ret |-> "DESERIALIZE_ERROR", i |-> i, st |-> s]
  ELSE IF img[i].k = "ext" THEN [ret |-> "SUCCESS", i |-> i + 1, st |-> s]
  ELSE IF img[i].k # "int" THEN [ret |-> "ERROR", i |-> i, st |-> s]
  ELSE LET n == img[i].v
           nb == NewBlock(s)
           data == IF n = 0 THEN << >> ELSE img[i + 1].v
           next == IF n = 0 THEN i + 1 ELSE i + 2
           isData == n = 0 \/ (i + 1 <= Len(img) /\ img[i + 1].k = "data"
                                /\ Pos(img[i + 1].v) = n)
       IN IF ~nb.ok THEN [ret |-> "ALLOCATE_MEMORY_FAILED", i |-> i, st |-> s]
          ELSE IF ~(n <= RemainSize(nb.blocks, nb.head) /\ n >= 0)
          THEN [ret |-> "ERROR", i |-> i, st |-> nb]
          ELSE IF ~isData THEN [ret |-> "DESERIALIZE_ERROR", i |-> i, st |-> nb]
          ELSE DeserializeBlocks(img, next, [nb EXCEPT !.blocks[nb.head] = data])

\* mutant: the end marker is not read, so the image may stop after the vi64
DeserializeNoEndCheck(img, s) ==
  LET r0 == IF s.blocks = << >> THEN s
            ELSE [s EXCEPT !.blocks[1] = << >>, !.head = 1]
      r == DeserializeBlocks(img, 1, r0)
      j == r.i
      lastOk == j <= Len(img) /\ img[j].k = "vi64"
  IN IF r.ret # "SUCCESS" THEN [ret |-> r.ret, st |-> r.st, last |-> 0]
     ELSE IF ~lastOk THEN [ret |-> "DESERIALIZE_ERROR", st |-> r.st, last |-> 0]
     ELSE [ret |-> "SUCCESS", st |-> r.st, last |-> img[j].v]

(***************************************************************************)
(* deserialize of img into store s: reuse() (the tail block is rewound    *)
(* and made the head; later blocks keep their data), the block loop, then *)
(* last_row_store_size_ and the end marker.  The two marker checks test   *)
(* `ObExtendType != type && flag != ...`, so any extend ObObj passes.      *)
(* Returns [ret, st, last].                                               *)
(***************************************************************************)
Deserialize(img, s) ==
  LET r0 == IF s.blocks = << >> THEN s
            ELSE [s EXCEPT !.blocks[1] = << >>, !.head = 1]
      r == DeserializeBlocks(img, 1, r0)
      j == r.i
      lastOk == j <= Len(img) /\ img[j].k = "vi64"
      endOk == j + 1 <= Len(img) /\ img[j + 1].k = "ext"
  IN IF r.ret # "SUCCESS" THEN [ret |-> r.ret, st |-> r.st, last |-> 0]
     ELSE IF ~lastOk THEN [ret |-> "DESERIALIZE_ERROR", st |-> r.st, last |-> 0]
     ELSE IF ~endOk THEN [ret |-> "DESERIALIZE_ERROR", st |-> r.st, last |-> img[j].v]
     ELSE [ret |-> "SUCCESS", st |-> r.st, last |-> img[j].v]

-----------------------------------------------------------------------------
(***************************************************************************)
(* Spec §8.3 round trip: the store, serialized into a buffer of           *)
(* get_serialize_size() units and deserialized into a fresh store, gives  *)
(* back every block byte for byte (so iteration of the copy returns what  *)
(* iteration of the original returns), last_row_store_size_, and a        *)
(* block_count_ equal to its blocks.  It is about serialize walking every  *)
(* block from the tail, get_serialize_size agreeing with serialize, and   *)
(* deserialize's size check against the fresh block.                      *)
(***************************************************************************)
SerializedStoreReadsBack ==
  LET s == Serialize(blocks, lastSize, GetSerializeSize(blocks))
      d == Deserialize(s.img, Store(<< >>, 0, 0))
  IN /\ s.ret = "SUCCESS"
     /\ d.ret = "SUCCESS"
     /\ d.st.blocks = blocks
     /\ d.st.count = Len(d.st.blocks)
     /\ d.last = lastSize

(***************************************************************************)
(* A truncated image is refused, and the failure leaves a consistent      *)
(* store: deserialize of every proper prefix of what serialize wrote does  *)
(* not succeed, and the receiver it leaves behind (deserialize restores    *)
(* only pos, keeping the blocks copied so far and those new_block added)  *)
(* has a block_count_ equal to its blocks, every block but the last        *)
(* allocated one a copy of the sender's block.  It is about the loop ends *)
(* (the extend cell, the vi64 and the end marker after the blocks) and    *)
(* the partial failure of deserialize (lines 590-661).                     *)
(***************************************************************************)
TruncatedStoreRefused ==
  LET img == Serialize(blocks, lastSize, GetSerializeSize(blocks)).img
  IN \A m \in 0..Len(img) - 1 :
       LET d == Deserialize(SubSeq(img, 1, m), Store(<< >>, 0, 0))
           n == Len(d.st.blocks)
       IN /\ d.ret # "SUCCESS"
          /\ d.st.count = n
          /\ n <= Len(blocks)
          /\ \A i \in 1..n - 1 : d.st.blocks[i] = blocks[i]
=============================================================================
