\* A client assigns one potential object to another.
SPECIFICATION Spec
CONSTANTS
  Objs = {o1, o2, o3, o4}
  null = null
  MaxBirths = 6
  CopyAssigns = TRUE
INVARIANTS ListsInstances
CHECK_DEADLOCK FALSE
