\* Two LJPot objects with whatever was in the memory of cuttOffU.
SPECIFICATION Spec
CONSTANTS
  Pots = {p1, p2}
  Kind <- AllLJ
  Caches = {x1}
  Paths = {d1}
  Configs <- Separate
  CutoffUs = {u0, u1}
  MaxCalls = 3
  Client = client
  None = None
INVARIANTS InstancesAgree
