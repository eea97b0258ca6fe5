CONSTANTS
  Users = {u1, u2, u3, u4, u5}
  Trees <- BinaryTree
  Workers = {w1, w2}
  Nobody = Nobody
  MaxDepth = 2
SPECIFICATION Spec
SYMMETRY Symmetry
CHECK_DEADLOCK FALSE
INVARIANTS
  TypeOK
  AncestryAgrees
  PlacementsRecorded
  SearchFindsFirst
  ReadersAreEntitled
