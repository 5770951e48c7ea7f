CONSTANTS
  OrderIds = {o1, o2, o3}
  Levels = {l1, l2}
  capacity = 3
  nullptr = nullptr
SPECIFICATION Spec
INVARIANTS ListsWellFormed
PROPERTIES LevelsSpec
