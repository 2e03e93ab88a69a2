\* One thread whose callback fails.
SPECIFICATION Spec
CONSTANTS
  Threads = {t1}
  Strings = {a1, a2}
  MaxDepth = 2
  None = None
INVARIANTS ErrorDescribesFailure
CHECK_DEADLOCK FALSE
