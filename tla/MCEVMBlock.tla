----------------------------- MODULE MCEVMBlock -----------------------------
(* Small blocks of the EVMBlock module for TLC.                              *)
EXTENDS EVMBlock

CONSTANTS a, b

Fees(base, enable) ==
  [noBaseFee |-> FALSE, baseFee |-> base, minGasPrice |-> 1, enableHeight |-> enable,
   minGasMultiplier |-> 1, elasticity |-> 2, denominator |-> 2]

(* The fee market starts at the second block, at a base fee of 1.5.        *)
MCGenesis == Fees(3, 2)
MCProposals == {[Fees(4, 0) EXCEPT !.noBaseFee = TRUE], Fees(2, 0)}

Tx(from, to, n) ==
  [from |-> from, to |-> to, nonce |-> n, gas |-> 3, value |-> 1, feeCap |-> 3,
   tip |-> 1, intrinsic |-> 2, floor |-> 0, auths |-> {}]
Auth(who, n, clear) == [authority |-> who, nonce |-> n, clear |-> clear]

(* Transfers, a delegation of a carried by b and one by a itself, a        *)
(* creation by a, and a transaction that may not fit into a block.         *)
MCTxs ==
  {Tx(a, b, 0),
   [Tx(b, a, 0) EXCEPT !.auths = {Auth(a, 1, FALSE)}, !.floor = 3],
   [Tx(a, None, 2) EXCEPT !.gas = 4, !.tip = 0],
   [Tx(a, b, 1) EXCEPT !.auths = {Auth(a, 2, FALSE), Auth(b, 0, TRUE)}],
   [Tx(b, a, 1) EXCEPT !.gas = 5, !.feeCap = 4, !.tip = 4]}
MCCosmosTxs == {[wanted |-> 3, used |-> 2, fee |-> 2]}
=============================================================================
