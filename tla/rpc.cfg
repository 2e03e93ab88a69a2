\* Two callers that make two calls between them, on one client or two; the
\* server's process fails and comes back, and may still hold an abandoned request;
\* two inputs can be told apart in the answers, one of them without atoms.
SPECIFICATION Spec
CONSTANTS
  Callers = {t1, t2}
  Host = host
  Inputs <- ThreeInputs
  MaxCalls = 2
  MaxTotal = 2
  MaxPots = 2
  None = None
INVARIANTS TypeOK NoUseAfterFree HandlerLeaksNothing ReasonTellsEvaluation ErrorOwnsNothing
PROPERTIES ImplementsService CallsReturn
