----------------------------- MODULE PhysicalPlan -----------------------------
(***************************************************************************)
(* ObPhysicalPlan (src/src/sql/ob_physical_plan.cpp): a plan is a list of *)
(* operator trees (phy_querys_) with a main query, shipped to another      *)
(* server by serialize/deserialize.  serialize_tree writes a tree          *)
(* pre-order: each operator's type, then the operator's own serialization, *)
(* then its children; deserialize_tree reads the type, asks the operator   *)
(* factory for an operator, lets it read itself, pushes it onto            *)
(* operators_store_ and reads get_child_num() children.                    *)
(*                                                                         *)
(* Operators: "scan" (no child), "filter" (one child) and "merge", an     *)
(* ObMultipleMerge whose own serialization is child_num_ then is_ups_row_,  *)
(* so its number of children is read from the stream.  The buffer is a sequence of tokens; decoding a token of    *)
(* the wrong kind or past the end of the data fails.                       *)
(***************************************************************************)
EXTENDS Integers, Sequences, SequencesExt

CONSTANTS
  MaxChild,    \* MAX_CHILD_OPERATOR_NUM of ObMultipleMerge
  MaxDepth,    \* depth of the operator trees a sender builds
  Queries,     \* query operators (pointers) a sender may hold
  NULLQ        \* main_query_ == NULL

VARIABLES
  querys,      \* phy_querys_ of the sending plan: Seq(Queries)
  qtree,       \* the tree of each query operator the sender built
  main,        \* its main_query_
  buf,         \* the serialized plan in flight, or <<>> before serialize
  sentMain,    \* history: the tree serialize shipped as the main query
  rquerys,     \* phy_querys_ of the receiving plan: Seq(trees)
  rmain,       \* its main_query_ (a tree, or NULLQ)
  rstore,      \* its operators_store_: Seq of operator nodes
  rret         \* the receiver's last deserialize result

vars == <<querys, qtree, main, buf, sentMain, rquerys, rmain, rstore, rret>>

Arity == [scan |-> 0, filter |-> 1]

\* all operator trees of depth at most d
RECURSIVE TreesUpTo(_)
TreesUpTo(d) ==
  IF d = 0 THEN {}
  ELSE LET sub == TreesUpTo(d - 1) IN
       {[type |-> "scan", kids |-> << >>]}
       \cup {[type |-> "filter", kids |-> <<c>>] : c \in sub}
       \cup {[type |-> "merge", kids |-> s] : s \in UNION {[1..n -> sub] : n \in 0..MaxChild}}

Trees == TreesUpTo(MaxDepth)
\* an operator node as operators_store_ holds it: its type and child count
Node(t) == [type |-> t.type, n |-> Len(t.kids)]
Tok(k, v) == [k |-> k, v |-> v]
-----------------------------------------------------------------------------
(* The reference: the pre-order list of a tree's nodes.                    *)
RECURSIVE PreOrder(_)
PreOrder(t) == <<Node(t)>> \o FlattenSeq([i \in 1..Len(t.kids) |-> PreOrder(t.kids[i])])

\* mutant: ObMultipleMerge::serialize leaves child_num_ out
OpSerializeNoCount(t) == <<Tok("body", t.type)>>

\* an operator's own serialize(): ObMultipleMerge writes child_num_ and
\* is_ups_row_ (always TRUE here: reuse() and the constructor set it)

OpSerialize(t) ==
  IF t.type = "merge" THEN <<Tok("vi32", Len(t.kids)), Tok("bool", TRUE)>>
  ELSE <<Tok("body", t.type)>>

\* serialize_tree: type, the operator, then each child in order
RECURSIVE SerializeTree(_)
SerializeTree(t) ==
  <<Tok("type", t.type)>> \o OpSerialize(t)
  \o FlattenSeq([i \in 1..Len(t.kids) |-> SerializeTree(t.kids[i])])

\* decoding one token of kind k at pos
Decodes(b, pos, k) == pos <= Len(b) /\ b[pos].k = k
(***************************************************************************)
(* An operator's own deserialize() of type ty at pos: ObMultipleMerge      *)
(* decodes child_num_ (a vi32) then is_ups_row_ (a bool), and its child    *)
(* count is that child_num_; the other operators read their body and have *)
(* their fixed arity.  Returns [ok, n, pos].                               *)
(***************************************************************************)
OpDeserialize(b, pos, ty) ==
  IF ty = "merge"
  THEN [ok |-> Decodes(b, pos, "vi32") /\ Decodes(b, pos + 1, "bool"),
        n |-> IF Decodes(b, pos, "vi32") THEN b[pos].v ELSE 0, pos |-> pos + 2]
  ELSE [ok |-> Decodes(b, pos, "body"), n |-> Arity[ty], pos |-> pos + 1]

Fail(pos, store) == [ok |-> FALSE, tree |-> NULLQ, pos |-> pos, store |-> store]

(***************************************************************************)
(* deserialize_tree on buffer b from pos, operators_store `store`; the     *)
(* factory's get_one fails (OB_ALLOCATE_MEMORY_FAILED) for the oom-th      *)
(* operator of the store (0: never) and for an unknown type.  Returns      *)
(* [ok, tree, pos, store]: a failure keeps the operators pushed before it. *)
(* DeserializeKids is the child loop: a merge's set_child fails past       *)
(* MAX_CHILD_OPERATOR_NUM.                                                 *)
(***************************************************************************)
RECURSIVE DeserializeTree(_, _, _, _), DeserializeKids(_, _, _, _, _, _, _, _)
DeserializeTree(b, pos, store, oom) ==
  IF ~Decodes(b, pos, "type") THEN Fail(pos, store)
  ELSE LET ty == b[pos].v
           p1 == pos + 1
       IN IF ty \notin {"scan", "filter", "merge"} \/ Len(store) + 1 = oom
          THEN Fail(p1, store)
          ELSE LET o == OpDeserialize(b, p1, ty)
               IN IF ~o.ok THEN Fail(p1, store)
                  ELSE DeserializeKids(b, o.pos, Append(store, [type |-> ty, n |-> o.n]),
                                       oom, ty, o.n, 0, << >>)

DeserializeKids(b, pos, store, oom, ty, n, i, kids) ==
  IF i >= n THEN [ok |-> TRUE, tree |-> [type |-> ty, kids |-> kids], pos |-> pos, store |-> store]
  ELSE LET r == DeserializeTree(b, pos, store, oom) IN
       IF ~r.ok THEN r
       ELSE IF ty = "merge" /\ i >= MaxChild THEN Fail(r.pos, r.store)
       ELSE DeserializeKids(b, r.pos, r.store, oom, ty, n, i + 1, Append(kids, r.tree))
-----------------------------------------------------------------------------
\* start_trans_, start_trans_req_ and the session's trans_id
Header == <<Tok("bool", FALSE), Tok("req", 0), Tok("trans", 0)>>

\* mutant: the root is pushed onto phy_querys_ even when its tree failed
RECURSIVE DeserializeQuerysPushAlways(_, _, _, _, _, _)
DeserializeQuerysPushAlways(b, pos, store, oom, k, qs) ==
  IF k = 0 THEN [ok |-> TRUE, pos |-> pos, store |-> store, qs |-> qs]
  ELSE LET r == DeserializeTree(b, pos, store, oom) IN
       IF ~r.ok THEN [ok |-> FALSE, pos |-> r.pos, store |-> r.store, qs |-> Append(qs, r.tree)]
       ELSE DeserializeQuerysPushAlways(b, r.pos, r.store, oom, k - 1, Append(qs, r.tree))

\* the phy_querys_size trees of a deserialize, each pushed onto phy_querys_
RECURSIVE DeserializeQuerys(_, _, _, _, _, _)
DeserializeQuerys(b, pos, store, oom, k, qs) ==
  IF k = 0 THEN [ok |-> TRUE, pos |-> pos, store |-> store, qs |-> qs]
  ELSE LET r == DeserializeTree(b, pos, store, oom) IN
       IF ~r.ok THEN [ok |-> FALSE, pos |-> r.pos, store |-> r.store, qs |-> qs]
       ELSE DeserializeQuerys(b, r.pos, r.store, oom, k - 1, Append(qs, r.tree))

Init ==
  /\ querys = << >>
  /\ qtree = [q \in Queries |-> NULLQ]
  /\ main = NULLQ
  /\ buf = << >>
  /\ sentMain = NULLQ
  /\ rquerys = << >>
  /\ rmain = NULLQ
  /\ rstore = << >>
  /\ rret = "none"

\* add_phy_query: a new query operator with tree t, the main one if asked
AddPhyQuery(q, t, isMain) ==
  /\ qtree[q] = NULLQ
  /\ querys' = Append(querys, q)
  /\ qtree' = [qtree EXCEPT ![q] = t]
  /\ main' = IF isMain THEN q ELSE main
  /\ UNCHANGED <<buf, sentMain, rquerys, rmain, rstore, rret>>

\* set_main_query: any query operator the plan built
SetMainQuery(q) ==
  /\ qtree[q] # NULLQ
  /\ main' = q
  /\ UNCHANGED <<querys, qtree, buf, sentMain, rquerys, rmain, rstore, rret>>

\* remove_phy_query: remove_if on phy_querys_ (absent: an error, no change);
\* main_query_ is left as it is
RemovePhyQuery(q) ==
  /\ q \in ToSet(querys)
  /\ querys' = SelectSeq(querys, LAMBDA x : x # q)
  /\ UNCHANGED <<qtree, main, buf, sentMain, rquerys, rmain, rstore, rret>>

(***************************************************************************)
(* serialize: the header, main_query_idx 0, a query count of 1 and the    *)
(* tree of *main_query_ (main_query_ NULL is a crash, not modelled).       *)
(***************************************************************************)
Serialize ==
  /\ main # NULLQ
  /\ buf' = Header \o <<Tok("vi32", 0), Tok("vi32", 1)>> \o SerializeTree(qtree[main])
  /\ sentMain' = qtree[main]
  /\ UNCHANGED <<querys, qtree, main, rquerys, rmain, rstore, rret>>

(***************************************************************************)
(* deserialize: clear(), the header, main_query_idx and phy_querys_size,  *)
(* that many trees, then phy_querys_.at(main_query_idx).  Returns          *)
(* [ok, qs, store, main]: what the receiving plan holds afterwards.        *)
(***************************************************************************)
DeserializePlan(b, oom) ==
  LET hdrOk == \A i \in 1..3 : Decodes(b, i, Header[i].k)
      cntOk == Decodes(b, 4, "vi32") /\ Decodes(b, 5, "vi32")
      r == DeserializeQuerys(b, 6, << >>, oom, b[5].v, << >>)
      mi == b[4].v
      ok == r.ok /\ mi \in 0..Len(r.qs) - 1
  IN IF ~(hdrOk /\ cntOk)
     THEN [ok |-> FALSE, qs |-> << >>, store |-> << >>, main |-> NULLQ]
     ELSE [ok |-> ok, qs |-> r.qs, store |-> r.store,
           main |-> IF ok THEN r.qs[mi + 1] ELSE NULLQ]

\* the receiving plan deserializes the buffer in flight
Deserialize(oom) ==
  /\ buf # << >>
  /\ LET r == DeserializePlan(buf, oom) IN
       /\ rquerys' = r.qs
       /\ rstore' = r.store
       /\ rmain' = r.main
       /\ rret' = IF r.ok THEN "ok" ELSE "fail"
  /\ UNCHANGED <<querys, qtree, main, buf, sentMain>>

Next ==
  \/ \E q \in Queries, t \in Trees, isMain \in BOOLEAN : AddPhyQuery(q, t, isMain)
  \/ \E q \in Queries : SetMainQuery(q) \/ RemovePhyQuery(q)
  \/ Serialize
  \/ \E oom \in 0..3 : Deserialize(oom)

Spec == Init /\ [][Next]_vars
-----------------------------------------------------------------------------
TypeOK ==
  /\ querys \in Seq(Queries)
  /\ qtree \in [Queries -> Trees \cup {NULLQ}]
  /\ main \in Queries \cup {NULLQ}
  /\ sentMain \in Trees \cup {NULLQ}
  /\ rquerys \in Seq(Trees)
  /\ rmain \in Trees \cup {NULLQ}
  /\ rret \in {"none", "ok", "fail"}

(***************************************************************************)
(* The plan in flight decodes to what serialize meant to ship: without an *)
(* allocation failure deserialize accepts it and rebuilds one query, the  *)
(* tree of the sender's main_query_ when it was serialized, as the main    *)
(* query, with operators_store_ holding its operators in pre-order; and   *)
(* deserialize rejects every proper prefix of it rather than building a    *)
(* plan.  It is about the recursion of serialize_tree/deserialize_tree,    *)
(* ObMultipleMerge carrying its child count in its own serialization, and *)
(* the main_query_idx/phy_querys_size framing of the plan.                *)
(***************************************************************************)
ShippedPlanDecodes ==
  buf # << >> =>
    /\ DeserializePlan(buf, 0)
         = [ok |-> TRUE, qs |-> <<sentMain>>, store |-> PreOrder(sentMain), main |-> sentMain]
    /\ \A m \in 0..Len(buf) - 1 : ~DeserializePlan(SubSeq(buf, 1, m), 0).ok
====
