------------------------------ MODULE EVMBlock ------------------------------
(* A block of Ethereum transactions: the base fee at its start               *)
(* (x/feemarket), the ante handler that takes the fee and the nonce          *)
(* (ante/evm), the state transition that executes the message and refunds    *)
(* gas (x/vm/keeper), and the gas accounting at its end.  Gas prices that    *)
(* the code keeps as LegacyDec are integers in units of 1/Unit.  What the    *)
(* EVM does is any outcome it may have; the StateDB module models how.       *)
EXTENDS Integers, Sequences, FiniteSets

CONSTANTS
  Accounts,   \* senders and receivers with a key
  Txs,        \* the Ethereum transactions
  CosmosTxs,  \* Cosmos transactions: gas wanted, gas used, fee
  Genesis,    \* the first fee market parameters
  Proposals,  \* parameters governance may set
  Funds,      \* balance of every account at genesis
  Unit,       \* 10^18, the precision of LegacyDec
  MaxGas,     \* consensus parameter Block.MaxGas
  MaxHeight,  \* bound on the number of blocks
  MaxRefund,  \* bound on the refund counter of an execution
  MaxLogs,    \* bound on the logs of a transaction
  MaxNested,  \* bound on nested creations by a delegated account
  None        \* no transaction, no receiver

ParamsOK(p) ==
  p \in [noBaseFee : BOOLEAN, baseFee : Nat, minGasPrice : Nat, enableHeight : Nat,
         minGasMultiplier : 0 .. Unit, elasticity : Nat \ {0}, denominator : Nat \ {0}]

Authorizations == [authority : Accounts, nonce : Nat, clear : BOOLEAN]
TxOK(tx) ==
  /\ tx.from \in Accounts /\ tx.to \in Accounts \cup {None}
  /\ tx.nonce \in Nat /\ tx.gas \in Nat \ {0} /\ tx.value \in Nat
  /\ tx.feeCap \in Nat /\ tx.tip \in Nat
  /\ tx.intrinsic \in Nat \ {0} /\ tx.floor \in Nat
  /\ tx.auths \in SUBSET Authorizations

(* Parameters pass Validate; None is nobody's address; no transaction      *)
(* carries two authorizations of the same account.                         *)
ASSUME BlockAssumption ==
  /\ Unit \in Nat \ {0} /\ MaxGas \in Nat \ {0} /\ Funds \in Nat
  /\ MaxHeight \in Nat /\ MaxRefund \in Nat /\ MaxLogs \in Nat /\ MaxNested \in Nat
  /\ None \notin Accounts /\ None \notin Txs
  /\ ParamsOK(Genesis) /\ \A p \in Proposals : ParamsOK(p)
  /\ \A tx \in Txs : TxOK(tx) /\ \A x, y \in tx.auths : x.authority = y.authority => x = y
  /\ \A t \in CosmosTxs : t.wanted \in Nat /\ t.used \in 0 .. t.wanted /\ t.fee \in Nat

VARIABLES
  params, blockGasWanted,           \* store of x/feemarket
  height, phase, current,           \* the block, its phase and its transaction
  bal, nonce, delegated, collector, \* accounts and the fee collector
  wanted, txIndex, logSize,         \* transient stores
  meter,                            \* block gas meter
  spent,     \* history: nonces of the transactions included, with their senders
  receipts,  \* history: index, first log and number of logs of each kept message
  due,       \* history: fees by the gas used the index reports for this block
  charged    \* history: gas reported as used in this block

feemarket == <<params, blockGasWanted>>
accounts == <<bal, nonce, delegated>>
history == <<receipts, due, charged>>
vars == <<feemarket, height, phase, current, accounts, collector, wanted, txIndex,
          logSize, meter, spent, history>>

Lesser(x, y) == IF x < y THEN x ELSE y
Greater(x, y) == IF x < y THEN y ELSE x

(***************************************************************************)
(* x/feemarket                                                             *)
(***************************************************************************)
IsBaseFeeEnabled(p, h) == ~p.noBaseFee /\ h >= p.enableHeight

(* Mutant: the base fee may rise by less than one unit                     *)
MutCalcGasBaseFee(used, target, denom, base, minPrice) ==
  IF used = target THEN base
  ELSE IF target = 0 THEN 0
  ELSE LET diff == IF used > target THEN used - target ELSE target - used
           num == ((diff * base) \div target) \div denom
       IN IF used > target THEN base + num ELSE Greater(base - num, minPrice)

CalcGasBaseFee(used, target, denom, base, minPrice) ==
  IF used = target THEN base
  ELSE IF target = 0 THEN 0
  ELSE LET diff == IF used > target THEN used - target ELSE target - used
           num == ((diff * base) \div target) \div denom
       IN IF used > target THEN base + Greater(num, Unit)
                           ELSE Greater(base - num, minPrice)

CalculateBaseFee(h) ==
  IF h = params.enableHeight THEN params.baseFee
  ELSE CalcGasBaseFee(blockGasWanted, MaxGas \div params.elasticity,
                      params.denominator, params.baseFee, params.minGasPrice)

(* GetBaseFee: what the EVM sees, without the decimals                     *)
BaseFee == IF params.noBaseFee THEN 0 ELSE params.baseFee \div Unit

(* EffectiveGasTip plus the base fee                                       *)
GasPrice(tx) == Lesser(tx.tip + BaseFee, tx.feeCap)

Init ==
  /\ params = Genesis /\ blockGasWanted = 0
  /\ height = 0 /\ phase = "idle" /\ current = None
  /\ bal = [a \in Accounts |-> Funds] /\ nonce = [a \in Accounts |-> 0]
  /\ delegated = {} /\ collector = 0
  /\ wanted = 0 /\ txIndex = 0 /\ logSize = 0 /\ meter = 0
  /\ spent = {} /\ receipts = <<>> /\ due = 0 /\ charged = 0

(* BeginBlock: the base fee of the block; x/distribution empties the fee   *)
(* collector; the transient stores and the block gas meter are new.        *)
BeginBlock ==
  /\ phase = "idle" /\ height < MaxHeight
  /\ height' = height + 1
  /\ params' = IF IsBaseFeeEnabled(params, height + 1)
               THEN [params EXCEPT !.baseFee = CalculateBaseFee(height + 1)]
               ELSE params
  /\ phase' = "txs"
  /\ collector' = 0 /\ wanted' = 0 /\ txIndex' = 0 /\ logSize' = 0 /\ meter' = 0
  /\ receipts' = <<>> /\ due' = 0 /\ charged' = 0
  /\ UNCHANGED <<blockGasWanted, current, accounts, spent>>

(***************************************************************************)
(* The ante handler, when a block is finalized                             *)
(***************************************************************************)
(* ValidateTransaction                                                     *)
ValidTx(tx) == tx.tip <= tx.feeCap /\ tx.gas >= tx.intrinsic /\ tx.gas >= tx.floor

(* CheckGlobalFee                                                          *)
PaysMinimum(tx) == GasPrice(tx) * tx.gas * Unit >= params.minGasPrice * tx.gas

(* CheckSenderBalance                                                      *)
CanPay(tx) == bal[tx.from] >= tx.feeCap * tx.gas + tx.value

(* IncrementNonce                                                          *)
NonceMatches(tx) == tx.nonce = nonce[tx.from]

(* Mutant: the fee leaves the tip out                                      *)
MutFee(tx) == tx.gas * BaseFee

(* VerifyFee                                                               *)
Fee(tx) == tx.gas * GasPrice(tx)

AnteHandle(tx) ==
  /\ phase = "txs" /\ meter < MaxGas
  /\ ValidTx(tx) /\ PaysMinimum(tx) /\ CanPay(tx)
  /\ tx.feeCap >= BaseFee
  /\ NonceMatches(tx)
  /\ tx.gas <= MaxGas
  /\ bal' = [bal EXCEPT ![tx.from] = @ - Fee(tx)]
  /\ collector' = collector + Fee(tx)
  /\ nonce' = [nonce EXCEPT ![tx.from] = @ + 1]
  /\ wanted' = IF IsBaseFeeEnabled(params, height) THEN wanted + tx.gas ELSE wanted
  /\ spent' = spent \cup {<<tx.from, tx.nonce>>}
  /\ current' = tx /\ phase' = "msg"
  /\ UNCHANGED <<feemarket, height, delegated, txIndex, logSize, meter, history>>

(***************************************************************************)
(* The message                                                             *)
(***************************************************************************)
(* What an execution that consumed c with a refund counter of r is charged *)
GasUsed(tx, c, r) ==
  Greater(Greater(c - Lesser(c \div 5, r), tx.floor),
          (tx.gas * params.minGasMultiplier) \div Unit)

(* Authorizations that apply: their nonce is the authority's               *)
Applied(tx) ==
  IF tx.to = None THEN {} ELSE {x \in tx.auths : nonce[x.authority] = x.nonce}

(* Mutant: a creation leaves the nonce where the reset put it              *)
MutNonceAfter(tx, a, nested) ==
  IF tx.to = None /\ a = tx.from THEN tx.nonce + nested
  ELSE nonce[a] + (IF \E x \in Applied(tx) : x.authority = a THEN 1 ELSE 0) + nested

(* A creation first resets the sender's nonce to the transaction's.        *)
NonceAfter(tx, a, nested) ==
  IF tx.to = None /\ a = tx.from THEN tx.nonce + 1 + nested
  ELSE nonce[a] + (IF \E x \in Applied(tx) : x.authority = a THEN 1 ELSE 0) + nested

Delegated(tx) ==
  (delegated \ {x.authority : x \in {y \in Applied(tx) : y.clear}})
    \cup {x.authority : x \in {y \in Applied(tx) : ~y.clear}}

(* Mutant: refunds are paid at the fee cap                                 *)
MutRefund(tx, used) == (tx.gas - used) * tx.feeCap

(* RefundGas                                                               *)
Refund(tx, used) == (tx.gas - used) * GasPrice(tx)

(* ResetGasMeterAndConsumeGas, and the block gas meter after it            *)
MeterAfter(consumed) == meter + consumed

(* Mutant: the logs of earlier transactions are forgotten                  *)
MutLogSizeAfter(logs) == IF logs > 0 THEN logs ELSE logSize

LogSizeAfter(logs) == IF logs > 0 THEN logSize + logs ELSE logSize

(* The end of ApplyTransaction, with or without the effects of the message *)
Conclude(used, logs, transferred) ==
  /\ MeterAfter(used) <= MaxGas
  /\ bal' = [transferred EXCEPT ![current.from] = @ + Refund(current, used)]
  /\ collector' = collector - Refund(current, used)
  /\ receipts' = Append(receipts, [index |-> txIndex, first |-> logSize, logs |-> logs])
  /\ txIndex' = txIndex + 1
  /\ logSize' = LogSizeAfter(logs)
  /\ meter' = MeterAfter(used)
  /\ charged' = charged + used /\ due' = due + used * GasPrice(current)
  /\ current' = None /\ phase' = "txs"
  /\ UNCHANGED <<feemarket, height, wanted, spent>>

(* The value reaches the receiver, or a new contract outside the model.    *)
Transferred(tx) ==
  [a \in Accounts |-> bal[a] - (IF a = tx.from THEN tx.value ELSE 0)
                             + (IF a = tx.to THEN tx.value ELSE 0)]

(* The message succeeds; delegated accounts may create contracts in it.    *)
ApplyTransaction(c, r, logs, creators) ==
  /\ phase = "msg"
  /\ c \in current.intrinsic .. current.gas
  /\ creators \subseteq Delegated(current)
  /\ nonce' = [a \in Accounts |->
                 NonceAfter(current, a, IF a \in creators THEN MaxNested ELSE 0)]
  /\ delegated' = Delegated(current)
  /\ Conclude(GasUsed(current, c, r), logs, Transferred(current))

(* The EVM reports an error: its cache context is dropped, fees remain.    *)
ApplyFailed(c, r) ==
  /\ phase = "msg"
  /\ c \in current.intrinsic .. current.gas
  /\ Conclude(GasUsed(current, c, r), 0, bal)
  /\ UNCHANGED <<nonce, delegated>>

(* The message is dropped and what the ante handler did stays; the result  *)
(* of the transaction is reported with its gas limit as gas used.          *)
Drop(consumed) ==
  /\ meter' = MeterAfter(consumed)
  /\ charged' = charged + current.gas
  /\ due' = due + current.gas * GasPrice(current)
  /\ current' = None /\ phase' = "txs"
  /\ UNCHANGED <<feemarket, height, accounts, collector, wanted, txIndex, logSize,
                 spent, receipts>>

(* StateDB.Commit fails: the gas meter is set to its limit.                *)
CommitError == phase = "msg" /\ Drop(current.gas)

(* The gas used does not fit in the block.                                 *)
BlockGasExceeded(c, r) ==
  /\ phase = "msg"
  /\ c \in current.intrinsic .. current.gas
  /\ MeterAfter(GasUsed(current, c, r)) > MaxGas
  /\ Drop(GasUsed(current, c, r))

(* A Cosmos transaction: its gas counts for the base fee and the block.    *)
CosmosTx(t) ==
  /\ phase = "txs" /\ meter < MaxGas
  /\ t.wanted <= MaxGas
  /\ wanted' = IF IsBaseFeeEnabled(params, height) THEN wanted + t.wanted ELSE wanted
  /\ collector' = collector + t.fee /\ due' = due + t.fee
  /\ meter' = meter + t.used /\ charged' = charged + t.used
  /\ UNCHANGED <<feemarket, height, phase, current, accounts, txIndex, logSize, spent,
                 receipts>>

(* UpdateParams, executed by the end blocker of x/gov before x/feemarket's *)
UpdateParams(p) ==
  /\ phase = "txs"
  /\ params' = p
  /\ phase' = "gov"
  /\ UNCHANGED <<blockGasWanted, height, current, accounts, collector, wanted, txIndex,
                 logSize, meter, spent, history>>

(* Mutant: only the gas wanted counts                                      *)
MutEndBlockGas == (wanted * params.minGasMultiplier) \div Unit

EndBlockGas ==
  Greater((wanted * params.minGasMultiplier) \div Unit, Lesser(meter, MaxGas))

EndBlock ==
  /\ phase \in {"txs", "gov"}
  /\ blockGasWanted' = EndBlockGas
  /\ phase' = "idle"
  /\ UNCHANGED <<params, height, current, accounts, collector, wanted, txIndex, logSize,
                 meter, spent, history>>

Gases == 1 .. MaxGas

Next ==
  \/ BeginBlock
  \/ \E tx \in Txs : AnteHandle(tx)
  \/ \E c \in Gases, r \in 0 .. MaxRefund, logs \in 0 .. MaxLogs,
       creators \in SUBSET Accounts : ApplyTransaction(c, r, logs, creators)
  \/ \E c \in Gases, r \in 0 .. MaxRefund : ApplyFailed(c, r)
  \/ CommitError
  \/ \E c \in Gases, r \in 0 .. MaxRefund : BlockGasExceeded(c, r)
  \/ \E t \in CosmosTxs : CosmosTx(t)
  \/ \E p \in Proposals : UpdateParams(p)
  \/ EndBlock

Spec == Init /\ [][Next]_vars

(***************************************************************************)
(* Properties                                                              *)
(***************************************************************************)
TypeOK ==
  /\ ParamsOK(params) /\ blockGasWanted \in Nat
  /\ height \in Nat /\ phase \in {"idle", "txs", "msg", "gov"}
  /\ current \in Txs \cup {None} /\ (phase = "msg" <=> current # None)
  /\ bal \in [Accounts -> Nat] /\ nonce \in [Accounts -> Nat]
  /\ delegated \subseteq Accounts /\ collector \in Nat
  /\ wanted \in Nat /\ txIndex \in Nat /\ logSize \in Nat /\ meter \in Nat
  /\ spent \subseteq Accounts \X Nat
  /\ receipts \in Seq([index : Nat, first : Nat, logs : Nat])
  /\ due \in Nat /\ charged \in Nat

(* The fee collector holds, between transactions, exactly the gas the      *)
(* results report as used at the price of each transaction: what the ante  *)
(* handler took and RefundGas gave back agree with what the index says     *)
(* after a success, a revert, a failed commit and a full block.            *)
FeesMatchResults == phase # "msg" => collector = due

(* While a message runs the collector can pay its whole fee back, so       *)
(* RefundGas does not fail and no transaction is charged and then lost     *)
(* from the index for want of a refund.                                    *)
RefundCovered ==
  phase = "msg" => collector >= current.gas * GasPrice(current)

(* An account's nonce is above every nonce it has spent: creations that    *)
(* reset it, authorizations, nested creations and dropped messages never   *)
(* open a way to run a transaction a second time.                          *)
NonceSpent == \A s \in spent : s[2] < nonce[s[1]]

(* The next base fee is computed from no less gas than the block's results *)
(* report as used, up to the limit of a block.                             *)
GasAccounted == phase = "idle" => blockGasWanted >= Lesser(charged, MaxGas)

(* After a block whose results report more gas than the target, the base   *)
(* fee the EVM sees is higher; and a base fee that is not below the least  *)
(* gas price does not fall below it.                                       *)
BaseFeeFollowsUse ==
  [][LET target == MaxGas \div params.elasticity IN
     /\ height' # height /\ IsBaseFeeEnabled(params, height')
     /\ height' # params.enableHeight /\ target > 0
     => /\ Lesser(charged, MaxGas) > target => BaseFee' > BaseFee
        /\ params.baseFee >= params.minGasPrice => params'.baseFee >= params.minGasPrice]_vars

(* The kept messages of a block have the indices 0, 1, 2, ..., and the     *)
(* indices of their logs follow one another without gap or overlap.        *)
PositionsConsecutive ==
  \A n \in 1 .. Len(receipts) :
    /\ receipts[n].index = n - 1
    /\ receipts[n].first =
         IF n = 1 THEN 0 ELSE receipts[n - 1].first + receipts[n - 1].logs
=============================================================================
