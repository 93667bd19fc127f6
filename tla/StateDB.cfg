CONSTANTS
  Addrs = {"a", "b"}
  Keys = {1, 2}
  Funded = {"a"}
  MaxPrecompileCalls = 2
  CounterSize = 256
  Plans <- ThreePlans
SPECIFICATION Spec
INVARIANTS TypeOK SupplyKept SlotsCommitted
PROPERTIES  ContextsAgree
CHECK_DEADLOCK FALSE
