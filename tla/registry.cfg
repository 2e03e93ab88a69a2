\* Four addresses, six constructions: every order of construction and
\* destruction, with addresses used again.
SPECIFICATION Spec
CONSTANTS
  Objs = {o1, o2, o3, o4}
  null = null
  MaxBirths = 6
  CopyAssigns = FALSE
INVARIANTS TypeOK ListsInstances CountsInstances
SYMMETRY ObjSymmetry
CHECK_DEADLOCK FALSE
