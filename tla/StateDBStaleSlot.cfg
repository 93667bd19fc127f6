CONSTANTS
  Addrs = {"a", "b"}
  Keys = {1}
  Funded = {"a"}
  MaxPrecompileCalls = 2
  CounterSize = 256
  Plans <- FailingPlan
SPECIFICATION Spec
INVARIANT SlotsCommitted
CHECK_DEADLOCK FALSE
