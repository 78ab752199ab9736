------------------------------- MODULE RbTree -------------------------------
(***************************************************************************)
(* The red-black tree of address ranges in experiments/rbtree.c, the index *)
(* meant for the virtual memory manager: a tree and a circular list over   *)
(* the same nodes, which live in pages of RB_NODES_MAX slots and are       *)
(* recycled through a free list.                                           *)
(*                                                                         *)
(* The heap is one record that the C functions, written as operators, take *)
(* and return.  A pointer to a node is the number of its slot; the colour, *)
(* in C the low bit of children[RB_LEFT], is a field of its own.  An       *)
(* assert that does not hold sets the field aborted.                       *)
(***************************************************************************)
EXTENDS Integers, Sequences, FiniteSets, SequencesExt

CONSTANTS
  UINTPTR_MAX,    \* the highest address
  MaxLen,         \* bound on the length of a range
  RB_NODES_MAX,   \* slots in a page
  MaxPages        \* pages the machine can spare

ASSUME RbConstants ==
  /\ UINTPTR_MAX \in Nat /\ MaxLen \in Nat
  /\ RB_NODES_MAX \in Nat \ {0} /\ MaxPages \in Nat \ {0}

Left == 0
Right == 1
rb_direction_flip(direction) == 1 - direction

node_nil == 0
ListHead == -1    \* &tree->list, the list's sentinel
NULL == -2

Nodes == 1 .. MaxPages * RB_NODES_MAX

-----------------------------------------------------------------------------
(* Ranges                                                                  *)

test_range_valid(range) == range.len > 0 /\ range.len <= UINTPTR_MAX - range.start

\* The ranges callers pass in: every operation asserts test_range_valid.
Ranges == {range \in [start : 0 .. UINTPTR_MAX, len : 0 .. MaxLen] : test_range_valid(range)}

test_range_compare(a, b) ==
  CASE a.start < b.start -> -1
    [] a.start > b.start -> 1
    [] OTHER             -> IF a.len < b.len THEN -1 ELSE IF a.len > b.len THEN 1 ELSE 0

\* Bug variant: ranges that only touch overlap.
OverlapTouching(a, b) == a.start <= b.start + b.len /\ b.start <= a.start + a.len

test_range_overlap(a, b) == a.start < b.start + b.len /\ b.start < a.start + a.len

\* The side of a node on which to look for a range.
Direction(range, other) == IF test_range_compare(range, other) > 0 THEN Right ELSE Left

-----------------------------------------------------------------------------
(* Nodes                                                                   *)

Child(h, node, direction) == h.child[node][direction]

node_red(h, node) == node # node_nil /\ h.color[node] = "red"

node_child_red(h, node, direction) == node_red(h, Child(h, node, direction))

\* C's assert.
Asserted(h, condition) == [h EXCEPT !.aborted = @ \/ ~ condition]

FlipColor(color) == IF color = "red" THEN "black" ELSE "red"

node_color_flip(h, node) ==
  LET flipped == {node, Child(h, node, Left), Child(h, node, Right)} \ {node_nil}
  IN  [h EXCEPT !.color = [n \in Nodes |-> IF n \in flipped THEN FlipColor(@[n]) ELSE @[n]]]

\* The operations that restructure a subtree return its new root with the heap.
node_rotate(h, node, direction) ==
  LET flipped == rb_direction_flip(direction)
      temp    == Child(h, node, flipped)
  IN  IF temp = node_nil
      THEN [heap |-> Asserted(h, FALSE), node |-> node]
      ELSE [heap |-> [h EXCEPT !.child[node][flipped]   = Child(h, temp, direction),
                               !.child[temp][direction] = node,
                               !.color[temp]            = h.color[node],
                               !.color[node]            = "red"],
            node |-> temp]

node_double_rotate(h, node, direction) ==
  LET flipped == rb_direction_flip(direction)
      inner   == node_rotate(h, Child(h, node, flipped), flipped)
  IN  node_rotate([inner.heap EXCEPT !.child[node][flipped] = inner.node], node, direction)

\* Bug variant: the node goes to the other side of its parent.
NodeInsertWrongSide(h, node, anker, direction) ==
  LET flipped   == rb_direction_flip(direction)
      neighbour == h.list[anker][flipped]
  IN  [h EXCEPT !.list[node][flipped]        = neighbour,
                !.list[node][direction]      = anker,
                !.list[anker][flipped]       = node,
                !.list[neighbour][direction] = node]

\* Into the list, next to anker on the side of direction.
node_insert(h, node, anker, direction) ==
  LET flipped   == rb_direction_flip(direction)
      neighbour == h.list[anker][direction]
  IN  [h EXCEPT !.list[node][direction]     = neighbour,
                !.list[node][flipped]       = anker,
                !.list[anker][direction]    = node,
                !.list[neighbour][flipped]  = node]

\* Bug variant: only the forward link is updated.
RemoveForwardOnly(h, node) ==
  [h EXCEPT !.list[h.list[node][Left]][Right] = h.list[node][Right]]

node_remove_from_list(h, node) ==
  [h EXCEPT !.list[h.list[node][Left]][Right] = h.list[node][Right],
            !.list[h.list[node][Right]][Left] = h.list[node][Left]]

-----------------------------------------------------------------------------
(* Slots                                                                   *)

\* The number of slots handed out from the pages so far.
SlotsUsed(h) == (h.pages - 1) * RB_NODES_MAX + h.node_count

\* page tells whether page_alloc would succeed; node_nil stands for NULL.
rb_tree_node_make(h, range, color, page) ==
  LET made(g, node) ==
        [heap |-> [g EXCEPT !.range[node] = range,
                            !.child[node] = [d \in {Left, Right} |-> node_nil],
                            !.color[node] = color],
         node |-> node]
  IN  CASE h.free_list # NULL ->
             made([h EXCEPT !.free_list = Child(h, h.free_list, Right)], h.free_list)
        [] h.free_list = NULL /\ h.node_count < RB_NODES_MAX ->
             made([h EXCEPT !.node_count = @ + 1], SlotsUsed(h) + 1)
        [] h.free_list = NULL /\ h.node_count >= RB_NODES_MAX /\ page ->
             made([h EXCEPT !.pages = @ + 1, !.node_count = 1], SlotsUsed(h) + 1)
        [] OTHER -> [heap |-> h, node |-> node_nil]

RECURSIVE rb_tree_node_free(_, _, _)
rb_tree_node_free(h, node, recurse) ==
  LET g == IF recurse
           THEN rb_tree_node_free(rb_tree_node_free(h, Child(h, node, Left), TRUE),
                                  Child(h, node, Right), TRUE)
           ELSE h
  IN  IF node = node_nil
      THEN h
      ELSE [g EXCEPT !.child[node][Right] = g.free_list, !.free_list = node]

-----------------------------------------------------------------------------
(* Insertion                                                               *)

\* Bug variant: the inner grandchild is treated like the outer one.
InsertFixUpSingle(h, node, direction) ==
  LET flipped == rb_direction_flip(direction)
      child   == Child(h, node, direction)
  IN  IF ~ node_red(h, child)
         \/ ~ (node_child_red(h, child, direction) \/ node_child_red(h, child, flipped))
      THEN [heap |-> h, node |-> node]
      ELSE IF node_child_red(h, node, flipped)
      THEN [heap |-> node_color_flip(h, node), node |-> node]
      ELSE node_rotate(h, node, flipped)

rb_insert_fix_up(h, node, direction) ==
  LET flipped == rb_direction_flip(direction)
      child   == Child(h, node, direction)
      outer   == node_child_red(h, child, direction)
      inner   == node_child_red(h, child, flipped)
  IN  IF ~ node_red(h, child) \/ ~ (outer \/ inner)
      THEN [heap |-> h, node |-> node]
      ELSE IF node_child_red(h, node, flipped)
      THEN [heap |-> node_color_flip(h, node), node |-> node]
      ELSE IF outer THEN node_rotate(h, node, flipped)
                    ELSE node_double_rotate(h, node, flipped)

RECURSIVE rb_insert_helper(_, _, _, _, _, _)
rb_insert_helper(h, node, range, anker, list_direction, page) ==
  IF node = node_nil
  THEN LET made == rb_tree_node_make(h, range, "red", page)
       IN  IF made.node = node_nil
           THEN [heap |-> h, node |-> node_nil, status |-> "OOM"]
           ELSE [heap |-> node_insert(made.heap, made.node, anker, list_direction),
                 node |-> made.node, status |-> "OK"]
  ELSE IF test_range_overlap(range, h.range[node])
  THEN [heap |-> h, node |-> node, status |-> "OVERLAP"]
  ELSE LET direction == Direction(range, h.range[node])
           result    == rb_insert_helper(h, Child(h, node, direction), range, node, direction, page)
           linked    == [result.heap EXCEPT !.child[node][direction] = result.node]
           fixed     == rb_insert_fix_up(linked, node, direction)
       IN  IF result.status = "OK"
           THEN [heap |-> fixed.heap, node |-> fixed.node, status |-> "OK"]
           ELSE [result EXCEPT !.node = node]

rb_insert(h, range, page) ==
  LET result == rb_insert_helper(h, h.root, range, ListHead, Right, page)
      rooted == [result.heap EXCEPT !.root = result.node]
  IN  [heap   |-> IF result.status = "OK"
                  THEN [rooted EXCEPT !.color[result.node] = "black"]
                  ELSE rooted,
       status |-> result.status]

-----------------------------------------------------------------------------
(* Deletion.  ok tells the caller that the black height of the subtree is  *)
(* what it was (RB_DELETE_OK).                                             *)

rb_delete_fix_up(h, top, direction) ==
  LET flipped   == rb_direction_flip(direction)
      red       == node_child_red(h, top, flipped)
      reduced   == IF red THEN node_rotate(h, top, direction) ELSE [heap |-> h, node |-> top]
      g         == reduced.heap
      sibling   == Child(g, top, flipped)
      rotated   == IF node_child_red(g, sibling, flipped)
                   THEN node_rotate(g, top, direction)
                   ELSE node_double_rotate(g, top, direction)
      new       == rotated.node
      recolored == [rotated.heap EXCEPT
                      !.color[new] = g.color[top],
                      !.color[Child(rotated.heap, new, Left)]  = "black",
                      !.color[Child(rotated.heap, new, Right)] = "black"]
  IN  IF sibling = node_nil
      THEN [heap |-> g, node |-> reduced.node, ok |-> FALSE]
      ELSE IF ~ node_child_red(g, sibling, Left) /\ ~ node_child_red(g, sibling, Right)
      THEN [heap |-> [g EXCEPT !.color[top] = "black", !.color[sibling] = "red"],
            node |-> reduced.node,
            ok   |-> node_red(g, top)]
      ELSE IF red
      THEN [heap |-> [recolored EXCEPT !.child[reduced.node][direction] = new],
            node |-> reduced.node, ok |-> TRUE]
      ELSE [heap |-> recolored, node |-> new, ok |-> TRUE]

\* The last node in the order of a subtree.
RECURSIVE Rightmost(_, _)
Rightmost(h, node) ==
  IF Child(h, node, Right) = node_nil THEN node ELSE Rightmost(h, Child(h, node, Right))

\* A node with at most one child leaves the tree; the child takes its place.
Unlink(h, node) ==
  LET temp == IF Child(h, node, Right) # node_nil
              THEN Child(h, node, Right) ELSE Child(h, node, Left)
      kept == IF ~ node_red(h, node) /\ node_red(h, temp)
              THEN [h EXCEPT !.color[temp] = "black"] ELSE h
  IN  [heap |-> rb_tree_node_free(node_remove_from_list(kept, node), node, FALSE),
       node |-> temp,
       ok   |-> node_red(h, node) \/ node_red(h, temp)]

RECURSIVE rb_delete_helper(_, _, _)
\* The search goes on below a node, and its black height is repaired.
DeleteBelow(h, node, range) ==
  LET direction == Direction(range, h.range[node])
      child     == rb_delete_helper(h, Child(h, node, direction), range)
      linked    == [child.heap EXCEPT !.child[node][direction] = child.node]
  IN  IF child.ok
      THEN [heap |-> linked, node |-> node, ok |-> TRUE]
      ELSE rb_delete_fix_up(linked, node, direction)

rb_delete_helper(h, node, range) ==
  IF node = node_nil
  THEN [heap |-> h, node |-> node_nil, ok |-> TRUE]
  ELSE IF test_range_compare(h.range[node], range) # 0
  THEN DeleteBelow(h, node, range)
  ELSE IF Child(h, node, Left) = node_nil \/ Child(h, node, Right) = node_nil
  THEN Unlink(h, node)
  ELSE LET temp  == Rightmost(h, Child(h, node, Left))
           moved == [Asserted(h, h.list[temp][Right] = node)
                       EXCEPT !.range[node] = h.range[temp]]
       IN  DeleteBelow(moved, node, h.range[temp])

rb_delete(h, range) ==
  LET result == rb_delete_helper(h, h.root, range)
      rooted == [result.heap EXCEPT !.root = result.node]
  IN  IF result.node = node_nil
      THEN rooted
      ELSE [rooted EXCEPT !.color[result.node] = "black"]

-----------------------------------------------------------------------------
(* Search                                                                  *)

RECURSIVE FindPrev(_, _, _, _)
FindPrev(h, node, start, best) ==
  IF node = node_nil
  THEN best
  ELSE IF h.range[node].start < start
  THEN FindPrev(h, Child(h, node, Right), start, node)
  ELSE FindPrev(h, Child(h, node, Left), start, best)

\* Bug variant: a range that starts at the address counts as before it.
FindPrevInclusive(h, start) == FindPrev(h, h.root, start + 1, node_nil)

rb_find_prev_by_start(h, start) == FindPrev(h, h.root, start, node_nil)

RECURSIVE FindNext(_, _, _, _)
FindNext(h, node, start, best) ==
  IF node = node_nil
  THEN best
  ELSE IF h.range[node].start > start
  THEN FindNext(h, Child(h, node, Left), start, node)
  ELSE FindNext(h, Child(h, node, Right), start, best)

rb_find_next_by_start(h, start) == FindNext(h, h.root, start, node_nil)

-----------------------------------------------------------------------------
(* The tree in use                                                         *)

VARIABLES
  tree,     \* the RB_Tree and the heap of its nodes
  reply     \* the last call and what it returned

vars == <<tree, reply>>

Reply(call, range, status) == [call |-> call, range |-> range, status |-> status]

NoReply == [call |-> "none"]

\* *tree = (RB_Tree){ 0 }, and no page.
Zeroed ==
  [root       |-> NULL,
   child      |-> [n \in Nodes |-> [d \in {Left, Right} |-> node_nil]],
   color      |-> [n \in Nodes |-> "black"],
   range      |-> [n \in Nodes |-> [start |-> 0, len |-> 0]],
   list       |-> [n \in Nodes \cup {ListHead} |-> [d \in {Left, Right} |-> NULL]],
   free_list  |-> NULL,
   pages      |-> 0,
   node_count |-> 0,
   aborted    |-> FALSE]

EmptyList(h) == [h EXCEPT !.list[ListHead] = [d \in {Left, Right} |-> ListHead]]

Ready == tree.pages > 0 /\ ~ tree.aborted

Init == tree = Zeroed /\ reply = NoReply

rb_tree_init ==
  /\ tree.pages = 0
  /\ tree' = EmptyList([tree EXCEPT !.root = node_nil, !.pages = 1])
  /\ reply' = NoReply

\* page_alloc fails: only the root has been set.
rb_tree_init_fails ==
  /\ tree.pages = 0
  /\ tree' = [tree EXCEPT !.root = node_nil]
  /\ reply' = NoReply

Insert(range) ==
  /\ Ready
  /\ \E page \in BOOLEAN :
       /\ page => tree.pages < MaxPages
       /\ LET result == rb_insert(tree, range, page)
          IN  tree' = result.heap /\ reply' = Reply("insert", range, result.status)

Delete(range) ==
  /\ Ready
  /\ tree' = rb_delete(tree, range)
  /\ reply' = Reply("delete", range, "OK")

\* Bug variant: the nodes are not given back.
ClearLeaks ==
  /\ Ready
  /\ tree' = EmptyList([tree EXCEPT !.root = node_nil])
  /\ reply' = NoReply

rb_clear ==
  /\ Ready
  /\ tree' = EmptyList([rb_tree_node_free(tree, tree.root, TRUE) EXCEPT !.root = node_nil])
  /\ reply' = NoReply

rb_destroy ==
  /\ ~ tree.aborted
  /\ tree' = Zeroed
  /\ reply' = NoReply

Next ==
  \/ rb_tree_init
  \/ rb_tree_init_fails
  \/ \E range \in Ranges : Insert(range) \/ Delete(range)
  \/ rb_clear
  \/ rb_destroy

Spec == Init /\ [][Next]_vars

-----------------------------------------------------------------------------
(* Views of the heap.  limit bounds the recursion should a bug close a     *)
(* cycle.                                                                  *)

RECURSIVE InOrder(_, _, _)
InOrder(h, node, limit) ==
  IF node \notin Nodes \/ limit = 0
  THEN <<>>
  ELSE InOrder(h, Child(h, node, Left), limit - 1)
         \o <<node>> \o InOrder(h, Child(h, node, Right), limit - 1)

RECURSIVE FreeSlots(_, _, _)
FreeSlots(h, node, limit) ==
  IF node \notin Nodes \/ limit = 0
  THEN <<>>
  ELSE <<node>> \o FreeSlots(h, Child(h, node, Right), limit - 1)

\* The nodes of the tree in its order, and the slots on the free list.
TreeNodes == InOrder(tree, tree.root, Cardinality(Nodes))
FreeNodes == FreeSlots(tree, tree.free_list, Cardinality(Nodes) + 1)

\* The black nodes on the way from a node down to every leaf, -1 if two ways
\* differ.
RECURSIVE BlackHeight(_, _)
BlackHeight(h, node) ==
  IF node = node_nil
  THEN 0
  ELSE LET left  == BlackHeight(h, Child(h, node, Left))
           right == BlackHeight(h, Child(h, node, Right))
       IN  IF left = -1 \/ left # right
           THEN -1
           ELSE left + (IF node_red(h, node) THEN 0 ELSE 1)

-----------------------------------------------------------------------------
(* Correctness properties                                                  *)

\* The red-black rules hold after every operation: black root, no red child of a
\* red node, the same number of black nodes on every way down.
RedBlack ==
  tree.pages > 0 =>
    /\ ~ node_red(tree, tree.root)
    /\ \A n \in ToSet(TreeNodes) :
         node_red(tree, n) => \A d \in {Left, Right} : ~ node_child_red(tree, n, d)
    /\ BlackHeight(tree, tree.root) # -1

\* The list runs through the nodes in the order of the tree, both ways, which is
\* more than rb_list_validate asserts (it never looks at the tree).
ListFollowsTree ==
  tree.pages > 0 =>
    LET ring == <<ListHead>> \o TreeNodes \o <<ListHead>>
    IN  \A k \in 1 .. Len(ring) - 1 :
          /\ tree.list[ring[k]][Right] = ring[k + 1]
          /\ tree.list[ring[k + 1]][Left] = ring[k]

\* Every slot handed out from the pages is in the tree or on the free list, once:
\* insertion, deletion and rb_clear neither leak nodes nor share them.
SlotsConserved ==
  tree.pages > 0 =>
    LET slots == TreeNodes \o FreeNodes
    IN  Len(slots) = SlotsUsed(tree) /\ ToSet(slots) = 1 .. SlotsUsed(tree)

\* The searches return the nearest range before and after an address, as a scan
\* over all the ranges would.
FindsNearest ==
  tree.pages > 0 =>
    LET nodes  == ToSet(TreeNodes)
        at(n)  == tree.range[n].start
    IN  \A start \in 0 .. UINTPTR_MAX :
          LET before == {n \in nodes : at(n) < start}
              after  == {n \in nodes : at(n) > start}
              prev   == rb_find_prev_by_start(tree, start)
              next   == rb_find_next_by_start(tree, start)
          IN  /\ IF before = {} THEN prev = node_nil
                 ELSE prev \in before /\ \A n \in before : at(n) <= at(prev)
              /\ IF after = {} THEN next = node_nil
                 ELSE next \in after /\ \A n \in after : at(n) >= at(next)

\* No assert of the code fails: rotations find the child they need, and the
\* predecessor that a deletion moves up is the list neighbour.
NeverAborts == ~ tree.aborted

\* The tree implements the abstract set of disjoint ranges.
Set == INSTANCE RangeSet WITH ranges <- {tree.range[n] : n \in ToSet(TreeNodes)}

SetSpec == Set!Spec

=============================================================================
