\* Two inputs and two results; systems of no atom, of two, and of a vector of
\* four doubles, which is no multiple of three.
SPECIFICATION Spec
CONSTANTS
  Inputs = {i1, i2}
  Results = {r1, r2}
  Atoms = {0, 2}
  VecLens = {4}
  MaxTensors = 9
INVARIANTS TypeOK TensorsOwnedOnce DataOutlivesTensor AddressesItsArray ShapesAgree
SYMMETRY Symmetry
CHECK_DEADLOCK FALSE
