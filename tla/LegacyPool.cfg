CONSTANTS
  Configs <- MCConfigs
  PriceBump = 10
  Callers = {1}
  None = None
  NoState = NoState
SPECIFICATION Spec
INVARIANTS TypeOK LookupExact PendingExecutable PendingGossiped ReservedExact 
 
