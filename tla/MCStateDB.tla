----------------------------- MODULE MCStateDB ------------------------------
(* Instances of StateDB for TLC.                                             *)
EXTENDS StateDB

(* Accounts come, go and pay each other around precompile calls.             *)
Payments ==
  [ops |-> {"account", "native", "failing"}, keys |-> {}, vals |-> {}, contracts |-> {},
   entries |-> 5, revisions |-> 2, tries |-> 2, count |-> 2]

(* Everything the EVM itself can change inside a frame.                      *)
Scratch ==
  [ops |-> {"storage", "scratch"}, keys |-> {1, 2}, vals |-> {0, 1}, contracts |-> {"a"},
   entries |-> 3, revisions |-> 2, tries |-> 0, count |-> 1]

(* Slots written around precompile calls of which none is reverted.          *)
Flushes ==
  [ops |-> {"storage", "native"}, keys |-> {1}, vals |-> {0, 1, 2}, contracts |-> {"a"},
   entries |-> 8, revisions |-> 0, tries |-> 2, count |-> 2]

(* Slots written around precompile calls that fail or are reverted.          *)
FailingFlushes ==
  [ops |-> {"storage", "native", "failing"}, keys |-> {1}, vals |-> {0, 1},
   contracts |-> {"a"}, entries |-> 4, revisions |-> 1, tries |-> 2, count |-> 1]

ThreePlans == {Payments, Scratch, Flushes}
FailingPlan == {FailingFlushes}
=============================================================================
