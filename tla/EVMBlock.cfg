CONSTANTS
  a = a
  b = b
  None = None
  Accounts = {a, b}
  Txs <- MCTxs
  CosmosTxs <- MCCosmosTxs
  Genesis <- MCGenesis
  Proposals <- MCProposals
  Funds = 24
  Unit = 2
  MaxGas = 6
  MaxHeight = 3
  MaxRefund = 1
  MaxLogs = 1
  MaxNested = 1
SPECIFICATION Spec
INVARIANTS FeesMatchResults RefundCovered NonceSpent GasAccounted PositionsConsecutive
PROPERTY BaseFeeFollowsUse
CHECK_DEADLOCK FALSE
