\* Three-atom configurations whose keys collide.
SPECIFICATION Spec
CONSTANTS
  Pots = {p1, p2}
  Kind <- AllLJ
  Caches = {x1}
  Paths = {d1}
  Configs <- Exchanged
  CutoffUs = {u0, u1}
  MaxCalls = 3
  Client = client
  None = None
INVARIANTS KeyUnique
