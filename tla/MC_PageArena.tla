--------------------------- MODULE MC_PageArena ---------------------------
(***************************************************************************)
(* PageArena for TLC: pages of 6 raw units with a 2-unit header (so a     *)
(* normal page holds 4), alignment to 2, at most MaxPages pages at once  *)
(* (2 in every cfg).                                                       *)
(* Request sizes 1 and 3 are normal (3 does not fit after a 2), 5 needs   *)
(* a page of its own.                                                      *)
(***************************************************************************)
EXTENDS PageArena

\* bound on used_, which a failing alloc_down raises without limit
MaxUsed == 8

\* bound on how far a page_end_ may be moved below buf_ by alloc_down
MinEndOff == -Hdr

\* bound on total_, which drifts up when a page shrunk by alloc_down is freed
MaxTotal == 16

MCConstraint ==
  /\ used <= MaxUsed
  /\ total <= MaxTotal
  /\ \A p \in PageIds : endOff[p] >= MinEndOff

=============================================================================
