\* Two callers, two calls between them, either kind of server; clients are made
\* again after a failure, and one configuration has no atoms.
SPECIFICATION Spec
CONSTANTS
  Callers = {t1, t2}
  Inputs <- ThreeInputs
  Kinds = {"potserv", "rust"}
  MaxCalls = 2
  MaxTotal = 2
  MaxInits = 2
  None = None
INVARIANTS TypeOK ErrorTextIsCurrent PotservKeepsPairs
PROPERTIES FailureKeepsForces ImplementsService CalculateReturns
