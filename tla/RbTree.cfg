SPECIFICATION Spec
CONSTANTS
  UINTPTR_MAX = 8
  MaxLen = 2
  RB_NODES_MAX = 4
  MaxPages = 2
VIEW UpToSlotNumbers
INVARIANTS
  RedBlack
  ListFollowsTree
  SlotsConserved
  FindsNearest
  NeverAborts
PROPERTY SetSpec
