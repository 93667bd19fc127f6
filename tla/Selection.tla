----------------------------- MODULE Selection -----------------------------
(* What a proposer is offered: SelectBy of mempool/mempool.go walks over the *)
(* pending Ethereum transactions (miner/ordering.go) and the Cosmos pool     *)
(* with one iterator (iterator.go), which asks the chain view for the base   *)
(* fee at every step.  The lock of the mempool keeps both pools as they are; *)
(* the announcement of a block does not take it.                             *)
(*                                                                           *)
(* A position in a list stands for the transaction there.  Every pooled      *)
(* Ethereum transaction has a valid signature and converts; no fee exceeds   *)
(* 256 bits.                                                                 *)
EXTENDS Integers, Sequences, FiniteSetsExt

CONSTANTS
  Accounts,      \* senders of Ethereum transactions
  Txs,           \* their transactions: feeCap, tipCap and the time first seen
  CosmosTxs,     \* Cosmos transactions: fee in the bond denomination and gas
  MinTips,       \* configured least tips, Nil for none
  BaseFees,      \* base fees of the last block
  Nil,         \* nil
  MaxPending,    \* bound on the pending transactions of an account
  MaxCosmos      \* bound on the transactions of the Cosmos pool

VARIABLES
  pool,     \* the pending lists of the Ethereum pool, by nonce
  cosmos,   \* the Cosmos pool in the order of its own iterator
  minTip,   \* ExperimentalEVMMempool.minTip
  base,     \* vmKeeper.GetBaseFee in the context of the proposal
  head,     \* BaseFee of Blockchain.CurrentBlock: nil for zeroHeader
  at,       \* heads of TransactionsByPriceAndNonce: a position, 0 for none
  top,      \* the account of heads[0], Nil when there are none
  next,     \* position of the Cosmos iterator
  phase,    \* "idle", "tx", "next", "done" or "stopped"
  offer,    \* the transaction last handed to the filter of SelectBy
  evmSeen, cosmosSeen,   \* all that was handed to it
  steady    \* the chain view has had the fee of the last block all along

pools == <<pool, cosmos, minTip, base>>
iterator == <<at, top, next>>
seen == <<evmSeen, cosmosSeen>>
vars == <<pools, head, iterator, phase, offer, seen, steady>>

ASSUME SelectionAssumption ==
  /\ Txs \subseteq [feeCap : Nat, tipCap : Nat, time : Nat]
  /\ CosmosTxs \subseteq [fee : Nat, gas : Nat \ {0}]
  /\ MinTips \subseteq Nat \cup {Nil} /\ BaseFees \subseteq Nat /\ Nil \notin Nat /\ Nil \notin Accounts
  /\ MaxPending \in Nat /\ MaxCosmos \in Nat

Lists(S, n) == UNION {[1 .. k -> S] : k \in 0 .. n}
Nothing == [kind |-> "none", from |-> Nil, pos |-> 0]

Init ==
  /\ pool \in [Accounts -> Lists(Txs, MaxPending)] /\ cosmos \in Lists(CosmosTxs, MaxCosmos)
  /\ minTip \in MinTips /\ base \in BaseFees \cup {Nil} /\ head \in BaseFees \cup {Nil}
  /\ at = [a \in Accounts |-> 0] /\ top = Nil /\ next = 1 /\ phase = "idle" /\ offer = Nothing
  /\ evmSeen = [a \in Accounts |-> {}] /\ cosmosSeen = {} /\ steady = FALSE

(***************************************************************************)
(* TransactionsByPriceAndNonce: the next transaction of every account      *)
(***************************************************************************)
Lesser(m, n) == IF m < n THEN m ELSE n

(* EffectiveGasTip, and the fees of newTxWithMinerFee when it gives no     *)
(* error                                                                   *)
EffectiveTip(t) == IF base = Nil THEN t.tipCap ELSE Lesser(t.tipCap, t.feeCap - base)
PaysBaseFee(t) == base = Nil \/ t.feeCap >= base

(* LegacyPool.Pending cuts a list at the first tip below minTip.           *)
PaysTip(t) == minTip = Nil \/ EffectiveTip(t) >= minTip
InPending(a, n) ==
  n \in 1 .. Len(pool[a]) /\ \A k \in 1 .. n : PaysTip(pool[a][k])

(* The head of account a after position n - 1                              *)
(* Mutant: a transaction below the base fee is taken                       *)
MutHeadAt(a, n) == IF InPending(a, n) THEN n ELSE 0
HeadAt(a, n) == IF InPending(a, n) /\ PaysBaseFee(pool[a][n]) THEN n ELSE 0

Heads(h) == {a \in Accounts : h[a] # 0}
Fees(h, a) == EffectiveTip(pool[a][h[a]])
(* txByPriceAndTime.Less                                                   *)
(* Mutant: the whole tip a transaction allows is compared                  *)
MutLess(h, a, b) == pool[a][h[a]].tipCap > pool[b][h[b]].tipCap
Less(h, a, b) ==
  \/ Fees(h, a) > Fees(h, b)
  \/ Fees(h, a) = Fees(h, b) /\ pool[a][h[a]].time < pool[b][h[b]].time

(* The root of a heap of these heads: no other is Less than it.            *)
Root(h) ==
  IF Heads(h) = {} THEN {Nil}
  ELSE {a \in Heads(h) : \A b \in Heads(h) : ~ Less(h, b, a)}

Shift ==
  /\ at' = [at EXCEPT ![top] = HeadAt(top, at[top] + 1)]
  /\ top' \in Root(at') /\ UNCHANGED next

(***************************************************************************)
(* EVMMempoolIterator                                                      *)
(***************************************************************************)
HasCosmos == next <= Len(cosmos)

(* extractCosmosEffectiveTip                                               *)
GasPrice(c) == c.fee \div c.gas
CosmosTip(c) ==
  IF head = Nil THEN GasPrice(c)
  ELSE IF GasPrice(c) < head THEN 0 ELSE GasPrice(c) - head

shouldUseEVM ==
  /\ top # Nil
  /\ HasCosmos => \/ CosmosTip(cosmos[next]) = 0
                  \/ ~ CosmosTip(cosmos[next]) > Fees(at, top)

(* Mutant: the Ethereum iterator goes on as long as it can                 *)
MutadvanceCurrentIterator ==
  IF top # Nil THEN Shift ELSE next' = next + 1 /\ UNCHANGED <<at, top>>
advanceCurrentIterator ==
  IF shouldUseEVM THEN Shift ELSE next' = next + 1 /\ UNCHANGED <<at, top>>

(* Mutant: the walk ends with the Ethereum transactions                    *)
MuthasMoreTransactions(root, n) == root # Nil
hasMoreTransactions(root, n) == root # Nil \/ n <= Len(cosmos)

(***************************************************************************)
(* SelectBy                                                                *)
(***************************************************************************)
SelectBy ==
  /\ phase = "idle"
  /\ at' = [a \in Accounts |-> HeadAt(a, 1)] /\ top' \in Root(at')
  /\ phase' = IF hasMoreTransactions(top', next) THEN "tx" ELSE "done"
  /\ steady' = (head = base)
  /\ UNCHANGED <<pools, head, next, offer, seen>>

(* The filter wants more, or the proposal is full.                         *)
Tx(more) ==
  /\ phase = "tx"
  /\ IF shouldUseEVM
     THEN /\ offer' = [kind |-> "evm", from |-> top, pos |-> at[top]]
          /\ evmSeen' = [evmSeen EXCEPT ![top] = evmSeen[top] \cup {at[top]}]
          /\ UNCHANGED cosmosSeen
     ELSE /\ offer' = [kind |-> "cosmos", from |-> Nil, pos |-> next]
          /\ cosmosSeen' = cosmosSeen \cup {next}
          /\ UNCHANGED evmSeen
  /\ phase' = IF more THEN "next" ELSE "stopped"
  /\ UNCHANGED <<pools, head, iterator, steady>>

(* Mutant: an exhausted iterator waits for more                            *)
MutNextTx ==
  /\ phase = "next"
  /\ advanceCurrentIterator
  /\ hasMoreTransactions(top', next') /\ phase' = "tx"
  /\ UNCHANGED <<pools, head, offer, seen, steady>>
NextTx ==
  /\ phase = "next"
  /\ advanceCurrentIterator
  /\ phase' = IF hasMoreTransactions(top', next') THEN "tx" ELSE "done"
  /\ UNCHANGED <<pools, head, offer, seen, steady>>

(* An event of the chain arrives (Blockchain.NotifyNewBlock).  No block is *)
(* committed during the walk, so the latest context is that of the         *)
(* proposal, or there is none.                                             *)
NotifyNewBlock ==
  /\ \E fee \in {base, Nil} : head # fee /\ head' = fee
  /\ steady' = FALSE
  /\ UNCHANGED <<pools, iterator, phase, offer, seen>>

Next == SelectBy \/ (\E more \in BOOLEAN : Tx(more)) \/ NextTx \/ NotifyNewBlock

Fairness == WF_vars(SelectBy) /\ WF_vars(Tx(TRUE) \/ Tx(FALSE)) /\ WF_vars(NextTx)
Spec == Init /\ [][Next]_vars /\ Fairness

(***************************************************************************)
(* Properties                                                              *)
(***************************************************************************)
(* Every position is one of its list, and the root is one of the heads.    *)
TypeOK ==
  /\ \A a \in Accounts : at[a] \in 0 .. Len(pool[a]) /\ evmSeen[a] \subseteq 1 .. Len(pool[a])
  /\ top \in Heads(at) \cup {Nil}
  /\ next \in 1 .. Len(cosmos) + 1 /\ cosmosSeen \subseteq 1 .. Len(cosmos)
  /\ phase \in {"idle", "tx", "next", "done", "stopped"} /\ steady \in BOOLEAN

(* What a walk may offer of an account: it and all before it pay the base  *)
(* fee and the least tip.                                                  *)
Payable(a, n) ==
  n \in 1 .. Len(pool[a]) /\ \A k \in 1 .. n : PaysBaseFee(pool[a][k]) /\ PaysTip(pool[a][k])
Offers == phase = "tx" /\ phase' # "tx"

(* Whatever base fee the chain view has meanwhile, an Ethereum transaction *)
(* is offered only if it and all before it in its account can be included, *)
(* and never after one of a higher nonce.                                  *)
NeverBack ==
  [][Offers /\ offer'.kind = "evm" =>
       /\ Payable(offer'.from, offer'.pos)
       /\ \A k \in evmSeen[offer'.from] : k <= offer'.pos]_vars

(* As long as the chain view keeps the base fee of the proposal, every     *)
(* transaction offered is the next of its account or of the Cosmos pool:   *)
(* none is repeated or skipped (advanceCurrentIterator asks again what Tx  *)
(* asked).                                                                 *)
NextOf(S) == IF S = {} THEN 1 ELSE Max(S) + 1
InOrder ==
  [][Offers /\ steady =>
       IF offer'.kind = "evm" THEN offer'.pos = NextOf(evmSeen[offer'.from])
       ELSE offer'.pos = NextOf(cosmosSeen)]_vars

(* Higher effective tips come first, of either kind, and an Ethereum       *)
(* transaction comes first when the tips are equal (mempool/README.md:290) *)
(* as long as the chain view keeps the base fee of the proposal.           *)
Tip(o) == IF o.kind = "evm" THEN EffectiveTip(pool[o.from][o.pos]) ELSE CosmosTip(cosmos[o.pos])
BestFirst ==
  [][Offers /\ steady =>
       /\ \A a \in Accounts :
            Payable(a, NextOf(evmSeen[a])) =>
              LET best == EffectiveTip(pool[a][NextOf(evmSeen[a])])
              IN  IF offer'.kind = "evm" THEN best <= Tip(offer') ELSE best < Tip(offer')
       /\ NextOf(cosmosSeen) <= Len(cosmos) =>
            CosmosTip(cosmos[NextOf(cosmosSeen)]) <= Tip(offer')]_vars

(* A walk that nobody stopped has offered every transaction of both pools  *)
(* that can be included, if the chain view kept the fee of the proposal.   *)
AllOffered ==
  phase = "done" /\ steady =>
    /\ \A a \in Accounts : evmSeen[a] = {n \in 1 .. Len(pool[a]) : Payable(a, n)}
    /\ cosmosSeen = 1 .. Len(cosmos)

(* Every walk ends, also when the base fee of the chain view changes.      *)
WalkEnds == <>(phase \in {"done", "stopped"})
=============================================================================
