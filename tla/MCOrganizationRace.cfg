CONSTANTS
  Users = {u1, u2, u3}
  Trees <- BinaryTree
  Workers = {w1, w2}
  Nobody = Nobody
  MaxDepth = 3
SPECIFICATION Spec
CHECK_DEADLOCK FALSE
INVARIANT SlotTakenOnce
