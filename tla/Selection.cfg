SPECIFICATION Spec
CONSTANTS
  Accounts = {a1, a2}
  Txs <- MCTxs
  CosmosTxs <- MCCosmosTxs
  MinTips <- MCMinTips
  BaseFees <- MCBaseFees
  Nil = Nil
  MaxPending = 2
  MaxCosmos = 2
CHECK_DEADLOCK FALSE
INVARIANTS
  AllOffered
PROPERTIES
  NeverBack
  InOrder
  BestFirst
  WalkEnds
