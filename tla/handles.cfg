\* Two threads, two owners of each class, four handles.
SPECIFICATION Spec
CONSTANTS
  Threads = {t1, t2}
  Slots = {s1, s2, c1, c2}
  Clients = {c1, c2}
  Cells = {p1, p2, p3, p4}
  None = None
INVARIANTS TypeOK OwnedOnce UserDataFreedOnce ResultOwnsForces
SYMMETRY Symmetry
