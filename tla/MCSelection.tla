---------------------------- MODULE MCSelection ----------------------------
(* Two senders and a Cosmos pool of two: transactions that pay less than a   *)
(* base fee, the same and more, tips that tie across the pools, and a gas    *)
(* price that is rounded down.                                               *)
EXTENDS Selection

MCTxs ==
  { [feeCap |-> 1, tipCap |-> 1, time |-> 1], [feeCap |-> 3, tipCap |-> 1, time |-> 2],
    [feeCap |-> 4, tipCap |-> 3, time |-> 3] }
MCCosmosTxs == {[fee |-> 5, gas |-> 2], [fee |-> 4, gas |-> 1]}
MCMinTips == {1, Nil}
MCBaseFees == {1, 2}
=============================================================================
