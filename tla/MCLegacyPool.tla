---------------------------- MODULE MCLegacyPool ----------------------------
(* Instances of LegacyPool for TLC.                                          *)
EXTENDS LegacyPool

MCTx(from, nonce, price, cost, auths) ==
  [from |-> from, nonce |-> nonce, feeCap |-> price, tipCap |-> price,
   cost |-> cost, auths |-> auths]

(* Two nonces of one sender; the second of nonce 1 pays enough to replace    *)
(* the first, which costs more than the lower balance.                       *)
Resets ==
  [accounts |-> {"a"},
   txs |-> {MCTx("a", 0, 10, 1, {}), MCTx("a", 1, 10, 2, {}), MCTx("a", 1, 11, 1, {})},
   balances |-> {1, 3}, maxNonce |-> 2, movers |-> {"a"}, delegates |-> {},
   contextFails |-> FALSE,
   accountSlots |-> 1, globalSlots |-> 3, accountQueue |-> 2, globalQueue |-> 2]

(* Two senders, with more transactions than the pool has room for; that of   *)
(* "b" carries an authorization of "a".                                      *)
Limits ==
  [accounts |-> {"a", "b"},
   txs |-> {MCTx("a", 0, 10, 1, {}), MCTx("a", 1, 10, 1, {}), MCTx("b", 0, 10, 1, {"a"})},
   balances |-> {3}, maxNonce |-> 0, movers |-> {"a"}, delegates |-> {},
   contextFails |-> FALSE,
   accountSlots |-> 1, globalSlots |-> 1, accountQueue |-> 1, globalQueue |-> 1]

(* One sender whose account is delegated and freed again, while the latest   *)
(* context may be unreadable.                                                *)
Failures ==
  [accounts |-> {"a"},
   txs |-> {MCTx("a", 0, 10, 1, {}), MCTx("a", 1, 10, 1, {})},
   balances |-> {3}, maxNonce |-> 1, movers |-> {"a"}, delegates |-> {"a"},
   contextFails |-> TRUE,
   accountSlots |-> 1, globalSlots |-> 1, accountQueue |-> 1, globalQueue |-> 1]

MCConfigs == {Resets, Limits, Failures}
=============================================================================
