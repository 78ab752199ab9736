------------------------------ MODULE MCRbTree ------------------------------
(***************************************************************************)
(* TLC's view of the tree.  Which slot a node occupies makes no difference *)
(* to any operation, so two states that differ only in the numbering of    *)
(* the slots are one: the view keeps the shape of the tree with its ranges *)
(* and colours, the counters, and whether list and slots are in order (the *)
(* states where they are not are errors).                                  *)
(***************************************************************************)
EXTENDS RbTree

RECURSIVE Shape(_, _, _)
Shape(h, node, limit) ==
  IF node \notin Nodes \/ limit = 0
  THEN <<>>
  ELSE <<h.range[node], h.color[node],
         Shape(h, Child(h, node, Left), limit - 1), Shape(h, Child(h, node, Right), limit - 1)>>

UpToSlotNumbers ==
  <<tree.root = NULL, Shape(tree, tree.root, Cardinality(Nodes)), tree.pages, tree.node_count,
    Len(FreeNodes), tree.aborted, ListFollowsTree, SlotsConserved>>

=============================================================================
