CONSTANTS
  CF = 3
  N = 3
  Modules = {3}
  Blocked = {0, 3}
  Locked <- MCLocked
  Amounts = {1, 2, 4}
  IntAmounts = {0, 1}
  MaxSupply = 5
SPECIFICATION Spec
INVARIANTS TypeOK ReserveBacked ReserveNeverShort 
PROPERTY ImplementsLedger
VIEW MCView
