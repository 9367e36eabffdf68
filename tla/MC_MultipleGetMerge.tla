------------------------ MODULE MC_MultipleGetMerge ------------------------
(* Two child slots, three child operators of up to two rows each, so that *)
(* a slot can be refilled with another operator after reuse, and children *)
(* can end together, early or late.                                        *)
EXTENDS MultipleGetMerge

CONSTANTS o1, o2, o3

MCOps == {o1, o2, o3}
====
