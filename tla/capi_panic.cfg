\* One thread that serves a potential which uses the RPC client.
SPECIFICATION Spec
CONSTANTS
  Threads = {t1}
  Strings = {a1, a2}
  MaxDepth = 2
  None = None
INVARIANTS PanicsCaught
CHECK_DEADLOCK FALSE
