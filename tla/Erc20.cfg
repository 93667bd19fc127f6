CONSTANTS
  Assets = {token}
  Users = {alice, bob}
  Module = module
  Escrow = escrow
  Tokens = 2
  MaxAmount = 2
  MaxPackets = 2
SPECIFICATION Spec
INVARIANTS
  TypeOK
  
  
PROPERTIES
  FreshPair
