CONSTANTS
  Assets = {token}
  Users = {alice, bob}
  Module = module
  Escrow = escrow
  Tokens = 1
  MaxAmount = 2
  MaxPackets = 1
SPECIFICATION Spec
PROPERTY RefundReturned
