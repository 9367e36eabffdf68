---------------------------- MODULE MC_PhysicalPlan ----------------------------
(* A sender with one query operator, any tree of depth 3 over scan,      *)
(* filter and merges of up to two children (122 trees).                   *)
EXTENDS PhysicalPlan

CONSTANTS q1

MCQueries == {q1}
====
