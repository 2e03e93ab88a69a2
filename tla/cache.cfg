\* A CuH2 potential and a Lennard-Jones one, two caches competing for one
\* database.
SPECIFICATION Spec
CONSTANTS
  Pots = {"CuH2", "LJ"}
  Kind <- Mixed
  Caches = {x1, x2}
  Paths = {d1}
  Configs <- Separate
  CutoffUs = {u0}
  MaxCalls = 2
  Client = client
  None = None
SYMMETRY CacheSymmetry
INVARIANTS TypeOK HandlesValid HitFits CacheTransparent
