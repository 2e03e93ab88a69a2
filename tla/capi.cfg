\* Two threads, each up to three callbacks or servers deep; one spare address.
\* The process stops when a panic gets out of the library.
SPECIFICATION Spec
CONSTANTS
  Threads = {t1, t2}
  Strings = {a1, a2, a3}
  MaxDepth = 3
  None = None
INVARIANTS TypeOK PointersValid RootCauseReported
SYMMETRY Symmetry
CHECK_DEADLOCK FALSE
