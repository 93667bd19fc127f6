--------------------------- MODULE EVMBlockProofs ---------------------------
(* Fees, refunds, nonces, gas, positions and the base fee of EVMBlock, for   *)
(* every set of transactions, every choice of parameters and every number of *)
(* blocks.                                                                   *)
EXTENDS EVMBlock, TLAPS

(* While a message runs its transaction is valid, its sender can still pay *)
(* the value, and its nonce is used up.                                    *)
InMessage ==
  phase = "msg" => /\ ValidTx(current)
                   /\ bal[current.from] >= current.value
                   /\ nonce[current.from] = current.nonce + 1

(* The collector holds what the results report, and the whole fee of the   *)
(* message that runs.                                                      *)
FeesHeld == collector = due + (IF phase = "msg" THEN Fee(current) ELSE 0)

IInv == TypeOK /\ InMessage /\ FeesHeld /\ NonceSpent

(***************************************************************************)
(* Arithmetic                                                              *)
(***************************************************************************)
LEMMA TimesMonotone ==
  ASSUME NEW x \in Nat, NEW y \in Nat, NEW z \in Nat, x <= y PROVE z * x <= z * y
  <1>1. PICK d \in Nat : y = x + d
    <2> WITNESS y - x \in Nat
    <2> QED OBVIOUS
  <1>2. z * y = z * x + z * d BY <1>1
  <1>3. z * d \in Nat /\ z * x \in Nat OBVIOUS
  <1> QED BY <1>2, <1>3

LEMMA TimesNat == \A x, y \in Nat : x * y \in Nat
  OBVIOUS

LEMMA DivNat == ASSUME NEW x \in Nat, NEW d \in Nat \ {0} PROVE x \div d \in Nat
  OBVIOUS

(* The share of the gas limit that is charged in any case is part of it.   *)
LEMMA ShareBounded ==
  ASSUME NEW n \in Nat, NEW u \in Nat \ {0}, NEW s \in 0 .. u
  PROVE  (n * s) \div u \in 0 .. n
  <1> DEFINE p == n * s
  <1>1. p \in Nat BY TimesNat
  <1>2. p <= n * u BY TimesMonotone
  <1>3. p <= u * n BY <1>2
  <1> HIDE DEF p
  <1> DEFINE q == p \div u
  <1>4. q \in Nat BY <1>1, DivNat
  <1>5. u * q <= p BY <1>1, <1>4
  <1> HIDE DEF q
  <1>6. CASE q > n
    <2>1. n + 1 <= q BY <1>4, <1>6
    <2>2. u * (n + 1) <= u * q BY <1>4, <2>1, TimesMonotone
    <2>3. u * (n + 1) = u * n + u OBVIOUS
    <2>4. u * n \in Nat /\ u * q \in Nat BY <1>4, TimesNat
    <2> QED BY <1>1, <1>3, <1>5, <2>2, <2>3, <2>4
  <1> QED BY <1>4, <1>6 DEF q, p

(***************************************************************************)
(* Prices, gas and refunds                                                 *)
(***************************************************************************)
LEMMA TxType == ASSUME NEW tx \in Txs PROVE TxOK(tx)
  BY BlockAssumption

LEMMA BaseFeeType == ASSUME ParamsOK(params) PROVE BaseFee \in Nat
  <1>1. Unit \in Nat \ {0} BY BlockAssumption
  <1>2. params.baseFee \in Nat BY DEF ParamsOK
  <1>3. params.baseFee \div Unit \in Nat BY <1>1, <1>2, DivNat
  <1> QED BY <1>3 DEF BaseFee

(* The price of a transaction is never above its fee cap. *)
LEMMA PriceBounded ==
  ASSUME ParamsOK(params), NEW tx \in Txs
  PROVE  GasPrice(tx) \in 0 .. tx.feeCap
  <1>1. tx.tip \in Nat /\ tx.feeCap \in Nat BY TxType DEF TxOK
  <1>2. BaseFee \in Nat BY BaseFeeType
  <1> QED BY <1>1, <1>2 DEF GasPrice, Lesser

LEMMA FeeBounded ==
  ASSUME ParamsOK(params), NEW tx \in Txs
  PROVE  Fee(tx) \in Nat /\ Fee(tx) <= tx.feeCap * tx.gas
  <1> DEFINE price == GasPrice(tx)
  <1>1. tx.gas \in Nat /\ tx.feeCap \in Nat BY TxType DEF TxOK
  <1>2. price \in Nat /\ price <= tx.feeCap BY <1>1, PriceBounded
  <1>3. Fee(tx) = tx.gas * price BY DEF Fee
  <1> HIDE DEF price
  <1>4. tx.gas * price <= tx.gas * tx.feeCap BY <1>1, <1>2, TimesMonotone
  <1>5. tx.gas * price \in Nat BY <1>1, <1>2, TimesNat
  <1>6. tx.gas * tx.feeCap = tx.feeCap * tx.gas BY <1>1
  <1> QED BY <1>3, <1>4, <1>5, <1>6

(* An execution is never charged more than its gas limit. *)
LEMMA GasUsedBounded ==
  ASSUME ParamsOK(params), NEW tx \in Txs, ValidTx(tx),
         NEW c \in tx.intrinsic .. tx.gas, NEW r \in 0 .. MaxRefund
  PROVE  GasUsed(tx, c, r) \in 0 .. tx.gas
  <1> DEFINE share == (tx.gas * params.minGasMultiplier) \div Unit
  <1>1. tx.gas \in Nat /\ tx.intrinsic \in Nat /\ tx.floor \in Nat BY TxType DEF TxOK
  <1>2. Unit \in Nat \ {0} /\ MaxRefund \in Nat BY BlockAssumption
  <1>3. params.minGasMultiplier \in 0 .. Unit BY DEF ParamsOK
  <1>4. share \in 0 .. tx.gas BY <1>1, <1>2, <1>3, ShareBounded
  <1>5. GasUsed(tx, c, r) = Greater(Greater(c - Lesser(c \div 5, r), tx.floor), share)
    BY DEF GasUsed
  <1> HIDE DEF share
  <1>6. c \in Nat /\ c <= tx.gas /\ r \in Nat BY <1>1, <1>2
  <1>7. c - Lesser(c \div 5, r) \in 0 .. tx.gas BY <1>1, <1>6 DEF Lesser
  <1>8. tx.floor \in 0 .. tx.gas BY <1>1 DEF ValidTx
  <1> QED BY <1>1, <1>4, <1>5, <1>7, <1>8 DEF Greater

(* A refund and the gas paid for make up the fee. *)
LEMMA RefundSplits ==
  ASSUME ParamsOK(params), NEW tx \in Txs, NEW used \in 0 .. tx.gas
  PROVE  /\ Refund(tx, used) \in Nat /\ used * GasPrice(tx) \in Nat
         /\ Refund(tx, used) + used * GasPrice(tx) = Fee(tx)
  <1> DEFINE price == GasPrice(tx)
  <1>1. tx.gas \in Nat /\ tx.feeCap \in Nat BY TxType DEF TxOK
  <1>2. price \in Nat BY <1>1, PriceBounded
  <1>3. Fee(tx) = tx.gas * price /\ Refund(tx, used) = (tx.gas - used) * price
    BY DEF Fee, Refund
  <1> HIDE DEF price
  <1>4. (tx.gas - used) * price + used * price = tx.gas * price BY <1>1, <1>2
  <1>5. tx.gas - used \in Nat /\ used \in Nat BY <1>1
  <1>6. (tx.gas - used) * price \in Nat /\ used * price \in Nat BY <1>2, <1>5, TimesNat
  <1> QED BY <1>3, <1>4, <1>6 DEF price

(* The base fee of the next block is a natural number again. *)
LEMMA CalcBaseFeeType ==
  ASSUME ParamsOK(params), blockGasWanted \in Nat, NEW h \in Nat
  PROVE  CalculateBaseFee(h) \in Nat
  <1> DEFINE target == MaxGas \div params.elasticity
             diff == IF blockGasWanted > target THEN blockGasWanted - target
                                                ELSE target - blockGasWanted
             num == ((diff * params.baseFee) \div target) \div params.denominator
  <1>1. /\ params.baseFee \in Nat /\ params.minGasPrice \in Nat
        /\ params.elasticity \in Nat \ {0} /\ params.denominator \in Nat \ {0}
    BY DEF ParamsOK
  <1>2. Unit \in Nat \ {0} /\ MaxGas \in Nat BY BlockAssumption
  <1>3. target \in Nat BY <1>1, <1>2, DivNat
  <1>4. ASSUME target # 0 PROVE num \in Nat
    <2> HIDE DEF target
    <2>1. diff \in Nat BY <1>3
    <2> HIDE DEF diff
    <2>2. diff * params.baseFee \in Nat BY <1>1, <2>1, TimesNat
    <2>3. (diff * params.baseFee) \div target \in Nat BY <1>3, <1>4, <2>2, DivNat
    <2> QED BY <1>1, <2>3, DivNat
  <1>5. CalculateBaseFee(h) =
          IF h = params.enableHeight THEN params.baseFee
          ELSE IF blockGasWanted = target THEN params.baseFee
          ELSE IF target = 0 THEN 0
          ELSE IF blockGasWanted > target THEN params.baseFee + Greater(num, Unit)
               ELSE Greater(params.baseFee - num, params.minGasPrice)
    BY DEF CalculateBaseFee, CalcGasBaseFee
  <1> HIDE DEF num, target
  <1> QED BY <1>1, <1>2, <1>4, <1>5 DEF Greater

(***************************************************************************)
(* The steps                                                               *)
(***************************************************************************)
LEMMA InitIInv == Init => IInv
  <1> SUFFICES ASSUME Init PROVE IInv OBVIOUS
  <1>1. ParamsOK(params) BY BlockAssumption DEF Init
  <1>2. bal \in [Accounts -> Nat] /\ nonce \in [Accounts -> Nat] BY BlockAssumption DEF Init
  <1>3. phase = "idle" /\ current = None BY DEF Init
  <1>4. receipts \in Seq([index : Nat, first : Nat, logs : Nat]) BY DEF Init
  <1>5. TypeOK BY <1>1, <1>2, <1>3, <1>4 DEF Init, TypeOK
  <1>6. InMessage BY <1>3 DEF InMessage
  <1>7. FeesHeld BY <1>3 DEF Init, FeesHeld
  <1>8. NonceSpent BY DEF Init, NonceSpent
  <1> QED BY <1>5, <1>6, <1>7, <1>8 DEF IInv

LEMMA BeginBlockStep == ASSUME IInv, BeginBlock PROVE IInv'
  <1>1. ParamsOK(params) /\ blockGasWanted \in Nat /\ height \in Nat BY DEF IInv, TypeOK
  <1>2. CalculateBaseFee(height + 1) \in Nat BY <1>1, CalcBaseFeeType
  <1>3. ParamsOK(params')
    <2>1. CASE params' = params BY <1>1, <2>1
    <2>2. CASE params' = [params EXCEPT !.baseFee = CalculateBaseFee(height + 1)]
      BY <1>1, <1>2, <2>2 DEF ParamsOK
    <2> QED BY <2>1, <2>2 DEF BeginBlock
  <1>4. phase' = "txs" /\ current' = None BY DEF IInv, TypeOK, BeginBlock
  <1>5. /\ height' = height + 1 /\ collector' = 0 /\ wanted' = 0 /\ txIndex' = 0
        /\ logSize' = 0 /\ meter' = 0 /\ receipts' = <<>> /\ due' = 0 /\ charged' = 0
        /\ UNCHANGED <<blockGasWanted, bal, nonce, delegated, spent>>
    BY DEF BeginBlock, accounts
  <1>6. TypeOK' BY <1>1, <1>3, <1>4, <1>5 DEF IInv, TypeOK
  <1>7. InMessage' BY <1>4 DEF InMessage
  <1>8. FeesHeld' BY <1>4, <1>5 DEF FeesHeld
  <1>9. NonceSpent' BY <1>5 DEF IInv, NonceSpent
  <1> QED BY <1>6, <1>7, <1>8, <1>9 DEF IInv

LEMMA AnteHandleStep == ASSUME IInv, NEW tx \in Txs, AnteHandle(tx) PROVE IInv'
  <1> DEFINE fee == Fee(tx)
  <1>1. /\ ParamsOK(params) /\ bal \in [Accounts -> Nat] /\ nonce \in [Accounts -> Nat]
        /\ collector \in Nat /\ due \in Nat /\ phase = "txs"
    BY DEF IInv, TypeOK, AnteHandle
  <1>2. fee \in Nat /\ fee <= tx.feeCap * tx.gas BY <1>1, FeeBounded
  <1>3. /\ tx.from \in Accounts /\ tx.gas \in Nat /\ tx.feeCap \in Nat /\ tx.value \in Nat
        /\ tx.nonce \in Nat /\ tx # None
    BY TxType, BlockAssumption DEF TxOK
  <1>4. /\ ValidTx(tx) /\ bal[tx.from] >= tx.feeCap * tx.gas + tx.value
        /\ nonce[tx.from] = tx.nonce
        /\ bal' = [bal EXCEPT ![tx.from] = @ - fee]
        /\ collector' = collector + fee
        /\ nonce' = [nonce EXCEPT ![tx.from] = @ + 1]
        /\ spent' = spent \cup {<<tx.from, tx.nonce>>}
        /\ current' = tx /\ phase' = "msg" /\ UNCHANGED <<params, due>>
    BY DEF AnteHandle, CanPay, NonceMatches, feemarket, history
  <1>5. Fee(tx)' = fee
    BY <1>4 DEF AnteHandle, Fee, GasPrice, BaseFee
  <1> HIDE DEF fee
  <1>6. bal[tx.from] - fee >= tx.value
    <2> DEFINE cap == tx.feeCap * tx.gas
    <2>1. cap \in Nat BY <1>3, TimesNat
    <2>2. fee <= cap /\ bal[tx.from] >= cap + tx.value BY <1>2, <1>4
    <2> HIDE DEF cap
    <2> QED BY <1>1, <1>2, <1>3, <2>1, <2>2
  <1>7. bal' \in [Accounts -> Nat] /\ bal'[tx.from] >= tx.value
    BY <1>1, <1>2, <1>3, <1>4, <1>6
  <1>8. nonce' \in [Accounts -> Nat] /\ nonce'[tx.from] = tx.nonce + 1 /\ nonce'[tx.from] > tx.nonce
    BY <1>1, <1>3, <1>4
  <1>9. spent' \subseteq Accounts \X Nat BY <1>3, <1>4 DEF IInv, TypeOK
  <1>10. wanted' \in Nat BY SMTT(30), <1>3 DEF IInv, TypeOK, AnteHandle
  <1>11. collector' \in Nat BY <1>1, <1>2, <1>4
  <1>12. TypeOK'
    BY ZenonT(40), <1>3, <1>4, <1>7, <1>8, <1>9, <1>10, <1>11
    DEF IInv, TypeOK, AnteHandle, feemarket, history
  <1>13. InMessage' BY <1>4, <1>7, <1>8 DEF InMessage, ValidTx
  <1>14. FeesHeld'
    <2>1. collector = due BY <1>1 DEF IInv, FeesHeld
    <2>2. Fee(current)' = fee BY <1>4, <1>5 DEF Fee, GasPrice, BaseFee
    <2> QED BY <1>4, <2>1, <2>2 DEF FeesHeld
  <1>15. NonceSpent'
    <2> SUFFICES ASSUME NEW s \in spent' PROVE s[2] < nonce'[s[1]] BY DEF NonceSpent
    <2>1. CASE s = <<tx.from, tx.nonce>> BY <1>8, <2>1, <1>3
    <2>2. CASE s \in spent
      <3>1. s[2] < nonce[s[1]] /\ s[1] \in Accounts /\ s[2] \in Nat
        BY <2>2 DEF IInv, NonceSpent, TypeOK
      <3>2. nonce'[s[1]] >= nonce[s[1]] BY <1>1, <1>3, <1>4, <3>1
      <3> QED BY <1>1, <1>8, <3>1, <3>2
    <2> QED BY <1>4, <2>1, <2>2
  <1> QED BY <1>12, <1>13, <1>14, <1>15 DEF IInv

(* Nonces that do not fall stay above the nonces that were spent. *)
LEMMA NoncesRise ==
  ASSUME IInv, nonce' \in [Accounts -> Nat], \A a \in Accounts : nonce'[a] >= nonce[a],
         UNCHANGED spent
  PROVE  NonceSpent'
  <1> SUFFICES ASSUME NEW s \in spent PROVE s[2] < nonce'[s[1]] BY DEF NonceSpent
  <1>1. s[2] < nonce[s[1]] /\ s[1] \in Accounts /\ s[2] \in Nat
    BY DEF IInv, NonceSpent, TypeOK
  <1>2. nonce[s[1]] \in Nat /\ nonce'[s[1]] \in Nat /\ nonce'[s[1]] >= nonce[s[1]]
    BY <1>1 DEF IInv, TypeOK
  <1> QED BY <1>1, <1>2

(* The end of a message that is kept: the refund and what the results      *)
(* report share out the fee that was taken.                                *)
LEMMA ConcludeStep ==
  ASSUME IInv, phase = "msg", NEW used \in 0 .. current.gas, NEW logs \in Nat,
         NEW transferred \in [Accounts -> Nat], Conclude(used, logs, transferred),
         nonce' \in [Accounts -> Nat], \A a \in Accounts : nonce'[a] >= nonce[a],
         delegated' \subseteq Accounts
  PROVE  IInv'
  <1> DEFINE refund == Refund(current, used)
             paid == used * GasPrice(current)
             item == [index |-> txIndex, first |-> logSize, logs |-> logs]
  <1>1. /\ ParamsOK(params) /\ current \in Txs /\ collector \in Nat /\ due \in Nat
        /\ charged \in Nat /\ meter \in Nat /\ txIndex \in Nat /\ logSize \in Nat
    BY DEF IInv, TypeOK
  <1>2. current.from \in Accounts /\ current.gas \in Nat BY <1>1, TxType DEF TxOK
  <1>3. refund \in Nat /\ paid \in Nat /\ refund + paid = Fee(current)
    BY <1>1, RefundSplits
  <1>4. collector = due + Fee(current) BY DEF IInv, FeesHeld
  <1>5. /\ bal' = [transferred EXCEPT ![current.from] = @ + refund]
        /\ collector' = collector - refund /\ due' = due + paid
        /\ charged' = charged + used /\ meter' = meter + used /\ txIndex' = txIndex + 1
        /\ receipts' = Append(receipts, item)
        /\ current' = None /\ phase' = "txs"
        /\ UNCHANGED <<params, blockGasWanted, height, wanted, spent>>
    BY DEF Conclude, MeterAfter, feemarket
  <1>6. logSize' \in Nat BY <1>1 DEF Conclude, LogSizeAfter
  <1>7. receipts' \in Seq([index : Nat, first : Nat, logs : Nat])
    <2>1. item \in [index : Nat, first : Nat, logs : Nat] BY <1>1
    <2>2. receipts \in Seq([index : Nat, first : Nat, logs : Nat]) BY DEF IInv, TypeOK
    <2> HIDE DEF item
    <2> QED BY <1>5, <2>1, <2>2
  <1> HIDE DEF refund, paid, item
  <1>8. collector' = due' /\ collector' \in Nat /\ due' \in Nat
    BY <1>1, <1>3, <1>4, <1>5
  <1>9. bal' \in [Accounts -> Nat] BY SMTT(30), <1>2, <1>3, <1>5
  <1>10. charged' \in Nat /\ meter' \in Nat /\ txIndex' \in Nat BY <1>1, <1>2, <1>5
  <1>11. TypeOK'
    BY Zenon, <1>5, <1>6, <1>7, <1>8, <1>9, <1>10 DEF IInv, TypeOK
  <1>12. InMessage' BY <1>5 DEF InMessage
  <1>13. FeesHeld' BY <1>5, <1>8 DEF FeesHeld
  <1>14. NonceSpent' BY <1>5, NoncesRise
  <1> QED BY <1>11, <1>12, <1>13, <1>14 DEF IInv

LEMMA ApplyTransactionStep ==
  ASSUME IInv, NEW c \in Gases, NEW r \in 0 .. MaxRefund, NEW logs \in 0 .. MaxLogs,
         NEW creators \in SUBSET Accounts, ApplyTransaction(c, r, logs, creators)
  PROVE  IInv'
  <1>1. /\ phase = "msg" /\ c \in current.intrinsic .. current.gas
        /\ Conclude(GasUsed(current, c, r), logs, Transferred(current))
        /\ nonce' = [a \in Accounts |->
                       NonceAfter(current, a, IF a \in creators THEN MaxNested ELSE 0)]
        /\ delegated' = Delegated(current)
    BY DEF ApplyTransaction
  <1>2. /\ ParamsOK(params) /\ current \in Txs /\ bal \in [Accounts -> Nat]
        /\ nonce \in [Accounts -> Nat] /\ delegated \subseteq Accounts
    BY <1>1 DEF IInv, TypeOK
  <1>3. /\ current.from \in Accounts /\ current.value \in Nat /\ current.nonce \in Nat
        /\ current.auths \subseteq Authorizations
    BY <1>2, TxType DEF TxOK
  <1>4. /\ ValidTx(current) /\ bal[current.from] >= current.value
        /\ nonce[current.from] = current.nonce + 1
    BY <1>1 DEF IInv, InMessage
  <1>5. GasUsed(current, c, r) \in 0 .. current.gas BY <1>1, <1>2, <1>4, GasUsedBounded
  <1>6. Transferred(current) \in [Accounts -> Nat]
    BY <1>2, <1>3, <1>4 DEF Transferred
  <1>7. ASSUME NEW a \in Accounts, NEW n \in Nat
        PROVE  NonceAfter(current, a, n) \in Nat /\ NonceAfter(current, a, n) >= nonce[a]
    BY <1>2, <1>3, <1>4 DEF NonceAfter
  <1>8. nonce' \in [Accounts -> Nat] /\ \A a \in Accounts : nonce'[a] >= nonce[a]
    BY <1>1, <1>7, BlockAssumption
  <1>9. delegated' \subseteq Accounts
    <2>1. Applied(current) \subseteq Authorizations BY <1>3 DEF Applied
    <2> QED BY <1>1, <1>2, <2>1 DEF Delegated, Authorizations
  <1>10. logs \in Nat BY BlockAssumption
  <1> QED BY <1>1, <1>5, <1>6, <1>8, <1>9, <1>10, ConcludeStep

LEMMA ApplyFailedStep ==
  ASSUME IInv, NEW c \in Gases, NEW r \in 0 .. MaxRefund, ApplyFailed(c, r)
  PROVE  IInv'
  <1>1. /\ phase = "msg" /\ c \in current.intrinsic .. current.gas
        /\ Conclude(GasUsed(current, c, r), 0, bal) /\ UNCHANGED <<nonce, delegated>>
    BY DEF ApplyFailed
  <1>2. /\ ParamsOK(params) /\ current \in Txs /\ bal \in [Accounts -> Nat]
        /\ nonce \in [Accounts -> Nat] /\ delegated \subseteq Accounts
    BY <1>1 DEF IInv, TypeOK
  <1>3. ValidTx(current) BY <1>1 DEF IInv, InMessage
  <1>4. GasUsed(current, c, r) \in 0 .. current.gas BY <1>1, <1>2, <1>3, GasUsedBounded
  <1>5. nonce' \in [Accounts -> Nat] /\ \A a \in Accounts : nonce'[a] >= nonce[a]
    BY <1>1, <1>2
  <1>6. delegated' \subseteq Accounts BY <1>1, <1>2
  <1> QED BY <1>1, <1>2, <1>4, <1>5, <1>6, ConcludeStep

(* A message that is dropped: the whole fee stays and is reported. *)
LEMMA DropStep ==
  ASSUME IInv, phase = "msg", NEW consumed \in Nat, Drop(consumed)
  PROVE  IInv'
  <1> DEFINE paid == current.gas * GasPrice(current)
  <1>1. /\ ParamsOK(params) /\ current \in Txs /\ collector \in Nat /\ due \in Nat
        /\ charged \in Nat /\ meter \in Nat /\ nonce \in [Accounts -> Nat]
    BY DEF IInv, TypeOK
  <1>2. current.gas \in Nat BY <1>1, TxType DEF TxOK
  <1>3. paid = Fee(current) /\ paid \in Nat BY <1>1, FeeBounded DEF Fee
  <1>4. collector = due + Fee(current) BY DEF IInv, FeesHeld
  <1>5. /\ meter' = meter + consumed /\ charged' = charged + current.gas
        /\ due' = due + paid /\ current' = None /\ phase' = "txs"
        /\ UNCHANGED <<params, blockGasWanted, height, bal, nonce, delegated, collector,
                       wanted, txIndex, logSize, spent, receipts>>
    BY DEF Drop, MeterAfter, feemarket, accounts
  <1> HIDE DEF paid
  <1>6. collector' = due' /\ due' \in Nat /\ charged' \in Nat /\ meter' \in Nat
    BY <1>1, <1>2, <1>3, <1>4, <1>5
  <1>7. TypeOK' BY <1>5, <1>6 DEF IInv, TypeOK
  <1>8. InMessage' BY <1>5 DEF InMessage
  <1>9. FeesHeld' BY <1>5, <1>6 DEF FeesHeld
  <1>10. NonceSpent' BY <1>5 DEF IInv, NonceSpent
  <1> QED BY <1>7, <1>8, <1>9, <1>10 DEF IInv

LEMMA CommitErrorStep == ASSUME IInv, CommitError PROVE IInv'
  <1>1. phase = "msg" /\ Drop(current.gas) BY DEF CommitError
  <1>2. current.gas \in Nat BY <1>1, TxType DEF IInv, TypeOK, TxOK
  <1> QED BY <1>1, <1>2, DropStep

LEMMA BlockGasExceededStep ==
  ASSUME IInv, NEW c \in Gases, NEW r \in 0 .. MaxRefund, BlockGasExceeded(c, r)
  PROVE  IInv'
  <1>1. /\ phase = "msg" /\ c \in current.intrinsic .. current.gas
        /\ Drop(GasUsed(current, c, r))
    BY DEF BlockGasExceeded
  <1>2. ParamsOK(params) /\ current \in Txs /\ ValidTx(current)
    BY <1>1 DEF IInv, TypeOK, InMessage
  <1>3. GasUsed(current, c, r) \in 0 .. current.gas /\ current.gas \in Nat
    BY <1>1, <1>2, GasUsedBounded, TxType DEF TxOK
  <1>4. GasUsed(current, c, r) \in Nat BY <1>3
  <1> QED BY <1>1, <1>4, DropStep

LEMMA CosmosTxStep == ASSUME IInv, NEW t \in CosmosTxs, CosmosTx(t) PROVE IInv'
  <1>1. t.wanted \in Nat /\ t.used \in Nat /\ t.fee \in Nat BY BlockAssumption
  <1>2. /\ phase = "txs" /\ collector \in Nat /\ due \in Nat /\ meter \in Nat
        /\ charged \in Nat /\ wanted \in Nat
    BY DEF IInv, TypeOK, CosmosTx
  <1>3. /\ collector' = collector + t.fee /\ due' = due + t.fee
        /\ meter' = meter + t.used /\ charged' = charged + t.used
        /\ UNCHANGED <<params, blockGasWanted, height, phase, current, bal, nonce,
                       delegated, txIndex, logSize, spent, receipts>>
    BY DEF CosmosTx, feemarket, accounts
  <1>4. wanted' \in Nat BY <1>1, <1>2 DEF CosmosTx
  <1>5. /\ collector' \in Nat /\ due' \in Nat /\ meter' \in Nat /\ charged' \in Nat
    BY <1>1, <1>2, <1>3
  <1>6. TypeOK' BY Zenon, <1>3, <1>4, <1>5 DEF IInv, TypeOK
  <1>7. InMessage' BY <1>2, <1>3 DEF InMessage
  <1>8. FeesHeld' BY <1>1, <1>2, <1>3 DEF IInv, FeesHeld
  <1>9. NonceSpent' BY <1>3 DEF IInv, NonceSpent
  <1> QED BY <1>6, <1>7, <1>8, <1>9 DEF IInv

LEMMA UpdateParamsStep == ASSUME IInv, NEW p \in Proposals, UpdateParams(p) PROVE IInv'
  <1>1. ParamsOK(p) BY BlockAssumption
  <1>2. /\ phase = "txs" /\ phase' = "gov" /\ params' = p
        /\ UNCHANGED <<blockGasWanted, height, current, bal, nonce, delegated, collector,
                       wanted, txIndex, logSize, meter, spent, receipts, due, charged>>
    BY DEF UpdateParams, accounts, history
  <1>3. TypeOK' BY <1>1, <1>2 DEF IInv, TypeOK
  <1>4. InMessage' BY <1>2 DEF InMessage
  <1>5. FeesHeld' BY <1>2 DEF IInv, FeesHeld
  <1>6. NonceSpent' BY <1>2 DEF IInv, NonceSpent
  <1> QED BY <1>3, <1>4, <1>5, <1>6 DEF IInv

LEMMA EndBlockStep == ASSUME IInv, EndBlock PROVE IInv'
  <1>1. /\ phase # "msg" /\ phase' = "idle" /\ blockGasWanted' = EndBlockGas
        /\ UNCHANGED <<params, height, current, bal, nonce, delegated, collector, wanted,
                       txIndex, logSize, meter, spent, receipts, due, charged>>
    BY DEF EndBlock, accounts, history
  <1>2. EndBlockGas \in Nat
    <2>1. /\ wanted \in Nat /\ meter \in Nat /\ MaxGas \in Nat
          /\ Unit \in Nat \ {0} /\ params.minGasMultiplier \in 0 .. Unit
      BY BlockAssumption DEF IInv, TypeOK, ParamsOK
    <2>2. (wanted * params.minGasMultiplier) \div Unit \in Nat BY <2>1, ShareBounded
    <2> QED BY <2>1, <2>2 DEF EndBlockGas, Greater, Lesser
  <1>3. TypeOK' BY <1>1, <1>2 DEF IInv, TypeOK
  <1>4. InMessage' BY <1>1 DEF InMessage
  <1>5. FeesHeld' BY <1>1 DEF IInv, FeesHeld
  <1>6. NonceSpent' BY <1>1 DEF IInv, NonceSpent
  <1> QED BY <1>3, <1>4, <1>5, <1>6 DEF IInv

LEMMA StutterStep == ASSUME IInv, UNCHANGED vars PROVE IInv'
  <1>1. UNCHANGED <<params, blockGasWanted, height, phase, current, bal, nonce, delegated,
                    collector, wanted, txIndex, logSize, meter, spent, receipts, due, charged>>
    BY DEF vars, feemarket, accounts, history
  <1>2. TypeOK' BY <1>1 DEF IInv, TypeOK
  <1>3. InMessage' BY <1>1 DEF IInv, InMessage, ValidTx
  <1>4. FeesHeld' BY <1>1 DEF IInv, FeesHeld, Fee, GasPrice, BaseFee
  <1>5. NonceSpent' BY <1>1 DEF IInv, NonceSpent
  <1> QED BY <1>2, <1>3, <1>4, <1>5 DEF IInv

LEMMA NextIInv == IInv /\ [Next]_vars => IInv'
  <1> SUFFICES ASSUME IInv, [Next]_vars PROVE IInv' OBVIOUS
  <1>1. CASE UNCHANGED vars BY <1>1, StutterStep
  <1>2. CASE BeginBlock BY <1>2, BeginBlockStep
  <1>3. CASE \E tx \in Txs : AnteHandle(tx) BY <1>3, AnteHandleStep
  <1>4. CASE \E c \in Gases, r \in 0 .. MaxRefund, logs \in 0 .. MaxLogs,
               creators \in SUBSET Accounts : ApplyTransaction(c, r, logs, creators)
    BY <1>4, ApplyTransactionStep
  <1>5. CASE \E c \in Gases, r \in 0 .. MaxRefund : ApplyFailed(c, r)
    BY <1>5, ApplyFailedStep
  <1>6. CASE CommitError BY <1>6, CommitErrorStep
  <1>7. CASE \E c \in Gases, r \in 0 .. MaxRefund : BlockGasExceeded(c, r)
    BY <1>7, BlockGasExceededStep
  <1>8. CASE \E t \in CosmosTxs : CosmosTx(t) BY <1>8, CosmosTxStep
  <1>9. CASE \E p \in Proposals : UpdateParams(p) BY <1>9, UpdateParamsStep
  <1>10. CASE EndBlock BY <1>10, EndBlockStep
  <1> QED BY <1>1, <1>2, <1>3, <1>4, <1>5, <1>6, <1>7, <1>8, <1>9, <1>10 DEF Next

(* The properties follow from the invariant. *)
LEMMA IInvImplies == IInv => TypeOK /\ FeesMatchResults /\ RefundCovered /\ NonceSpent
  <1> SUFFICES ASSUME IInv PROVE TypeOK /\ FeesMatchResults /\ RefundCovered /\ NonceSpent
    OBVIOUS
  <1>1. TypeOK /\ NonceSpent BY DEF IInv
  <1>2. FeesMatchResults BY DEF IInv, FeesHeld, TypeOK, FeesMatchResults
  <1>3. RefundCovered
    <2> SUFFICES ASSUME phase = "msg" PROVE collector >= Fee(current)
      BY DEF RefundCovered, Fee
    <2>1. current \in Txs /\ ParamsOK(params) /\ due \in Nat BY DEF IInv, TypeOK
    <2>2. Fee(current) \in Nat BY <2>1, FeeBounded
    <2>3. collector = due + Fee(current) BY DEF IInv, FeesHeld
    <2> QED BY <2>1, <2>2, <2>3
  <1> QED BY <1>1, <1>2, <1>3

(* Between transactions the fee collector holds the gas the results report *)
(* at the price of each transaction, a refund can always be paid, and no   *)
(* nonce is used twice: for every chain, whatever its transactions and     *)
(* parameters are (AnteHandle, ApplyTransaction, RefundGas).               *)
THEOREM FeesAndNonces ==
  Spec => [](TypeOK /\ FeesMatchResults /\ RefundCovered /\ NonceSpent)
  <1>1. Init => IInv BY InitIInv
  <1>2. IInv /\ [Next]_vars => IInv' BY NextIInv
  <1>3. IInv => TypeOK /\ FeesMatchResults /\ RefundCovered /\ NonceSpent BY IInvImplies
  <1> QED BY <1>1, <1>2, <1>3, PTL DEF Spec

(* The types of the state are kept (every handler of the block). *)
THEOREM BlockTypes == Spec => []TypeOK
  BY FeesAndNonces, PTL

(* RefundGas never fails for want of funds (AnteHandle, RefundGas). *)
THEOREM RefundsCovered == Spec => []RefundCovered
  BY FeesAndNonces, PTL

(* No transaction runs twice: creations, authorizations, nested creations  *)
(* and dropped messages leave every spent nonce below the account's        *)
(* (IncrementNonce, ApplyTransaction).                                     *)
THEOREM NoncesSpent == Spec => []NonceSpent
  BY FeesAndNonces, PTL

(***************************************************************************)
(* Gas and positions                                                       *)
(***************************************************************************)
(* The block gas meter holds what the results report, up to the limit; a   *)
(* message that did not fit has put it above the limit.                    *)
MeterCovers == Lesser(charged, MaxGas) <= meter

(* The transient stores hold what the next message needs.                  *)
NextPosition ==
  /\ txIndex = Len(receipts)
  /\ logSize = IF Len(receipts) = 0 THEN 0
               ELSE receipts[Len(receipts)].first + receipts[Len(receipts)].logs

GInv == IInv /\ MeterCovers /\ GasAccounted /\ NextPosition /\ PositionsConsecutive

LEMMA InitGInv == Init => GInv
  <1> SUFFICES ASSUME Init PROVE GInv OBVIOUS
  <1>1. IInv BY InitIInv
  <1>2. MeterCovers /\ GasAccounted
    BY BlockAssumption DEF Init, MeterCovers, GasAccounted, Lesser
  <1>3. NextPosition /\ PositionsConsecutive
    BY DEF Init, NextPosition, PositionsConsecutive
  <1> QED BY <1>1, <1>2, <1>3 DEF GInv

(* Gas that is both metered and reported keeps the meter ahead. *)
LEMMA MeterFollows ==
  ASSUME IInv, MeterCovers, NEW used \in Nat, charged' = charged + used,
         meter' = meter + used
  PROVE  MeterCovers'
  <1>1. charged \in Nat /\ meter \in Nat /\ MaxGas \in Nat
    BY BlockAssumption DEF IInv, TypeOK
  <1> QED BY <1>1 DEF MeterCovers, Lesser

(* A receipt in the next position keeps the positions without gaps. *)
LEMMA ReceiptFollows ==
  ASSUME IInv, NextPosition, PositionsConsecutive, NEW logs \in Nat,
         receipts' = Append(receipts, [index |-> txIndex, first |-> logSize, logs |-> logs]),
         txIndex' = txIndex + 1, logSize' = LogSizeAfter(logs)
  PROVE  NextPosition' /\ PositionsConsecutive'
  <1> DEFINE item == [index |-> txIndex, first |-> logSize, logs |-> logs]
             n == Len(receipts)
  <1>1. /\ receipts \in Seq([index : Nat, first : Nat, logs : Nat])
        /\ txIndex \in Nat /\ logSize \in Nat
    BY DEF IInv, TypeOK
  <1>2. item \in [index : Nat, first : Nat, logs : Nat] BY <1>1
  <1>3. item.index = n /\ item.first = logSize /\ item.logs = logs
    BY DEF NextPosition
  <1>4. /\ receipts' = Append(receipts, item) /\ n \in Nat
        /\ item.first = IF n = 0 THEN 0 ELSE receipts[n].first + receipts[n].logs
    BY <1>1, <1>3 DEF NextPosition
  <1>5. logSize' = item.first + item.logs BY <1>1, <1>3 DEF LogSizeAfter
  <1>6. n = txIndex BY DEF NextPosition
  <1> HIDE DEF item
  <1>7. /\ Len(receipts') = n + 1 /\ receipts'[n + 1] = item
        /\ \A k \in 1 .. n : receipts'[k] = receipts[k]
    BY <1>1, <1>2, <1>4
  <1> HIDE DEF n
  <1>8. NextPosition' BY <1>4, <1>5, <1>6, <1>7 DEF NextPosition
  <1>9. PositionsConsecutive'
    <2> DEFINE Placed(q, k) == /\ q[k].index = k - 1
                               /\ q[k].first = IF k = 1 THEN 0
                                               ELSE q[k - 1].first + q[k - 1].logs
    <2>1. \A k \in 1 .. n : Placed(receipts, k) BY DEF PositionsConsecutive, n
    <2>2. \A k \in 1 .. n : k - 1 \in 1 .. n \/ k = 1 BY <1>4
    <2>3. ASSUME NEW k \in 1 .. n PROVE Placed(receipts', k)
      <3>1. receipts'[k] = receipts[k] BY Zenon, <1>7
      <3>2. k # 1 => receipts'[k - 1] = receipts[k - 1] BY Zenon, <1>7, <2>2
      <3>3. CASE k = 1 BY <2>1, <3>1, <3>3
      <3>4. CASE k # 1 BY Zenon, <2>1, <3>1, <3>2, <3>4
      <3> QED BY Zenon, <3>3, <3>4
    <2>4. Placed(receipts', n + 1)
      <3>1. n + 1 = 1 <=> n = 0 BY <1>4
      <3>2. n # 0 => receipts'[(n + 1) - 1] = receipts[n] BY <1>4, <1>7
      <3>3. (n + 1) - 1 = n BY <1>4
      <3> QED BY <1>3, <1>4, <1>7, <3>1, <3>2, <3>3
    <2> HIDE DEF Placed
    <2>5. \A k \in 1 .. n + 1 : k = n + 1 \/ k \in 1 .. n BY <1>4
    <2>6. \A k \in 1 .. n + 1 : Placed(receipts', k) BY <2>3, <2>4, <2>5
    <2> QED BY <1>7, <2>6 DEF PositionsConsecutive, Placed
  <1> QED BY <1>8, <1>9

LEMMA ConcludeGas ==
  ASSUME GInv, phase = "msg", NEW c \in current.intrinsic .. current.gas,
         NEW r \in 0 .. MaxRefund, NEW logs \in Nat, NEW transferred,
         Conclude(GasUsed(current, c, r), logs, transferred)
  PROVE  MeterCovers' /\ GasAccounted' /\ NextPosition' /\ PositionsConsecutive'
  <1>1. ParamsOK(params) /\ current \in Txs /\ ValidTx(current)
    BY DEF GInv, IInv, TypeOK, InMessage
  <1>2. GasUsed(current, c, r) \in 0 .. current.gas /\ current.gas \in Nat
    BY <1>1, GasUsedBounded, TxType DEF TxOK
  <1>3. GasUsed(current, c, r) \in Nat BY <1>2
  <1>4. /\ meter' = meter + GasUsed(current, c, r)
        /\ charged' = charged + GasUsed(current, c, r)
        /\ phase' = "txs" /\ txIndex' = txIndex + 1 /\ logSize' = LogSizeAfter(logs)
        /\ receipts' = Append(receipts, [index |-> txIndex, first |-> logSize, logs |-> logs])
    BY DEF Conclude, MeterAfter
  <1>5. MeterCovers' BY <1>3, <1>4, MeterFollows DEF GInv
  <1>6. GasAccounted' BY <1>4 DEF GasAccounted
  <1>7. NextPosition' /\ PositionsConsecutive' BY <1>4, ReceiptFollows DEF GInv
  <1> QED BY <1>5, <1>6, <1>7

LEMMA DropGas ==
  ASSUME GInv, phase = "msg", NEW consumed \in Nat, Drop(consumed),
         consumed = current.gas \/ MeterAfter(consumed) > MaxGas
  PROVE  MeterCovers' /\ GasAccounted' /\ NextPosition' /\ PositionsConsecutive'
  <1>1. /\ meter' = meter + consumed /\ charged' = charged + current.gas /\ phase' = "txs"
        /\ UNCHANGED <<txIndex, logSize, receipts>>
    BY DEF Drop, MeterAfter
  <1>2. MeterCovers'
    <2>1. CASE consumed = current.gas BY <1>1, <2>1, MeterFollows DEF GInv
    <2>2. CASE MeterAfter(consumed) > MaxGas
      <3>1. /\ charged \in Nat /\ meter \in Nat /\ MaxGas \in Nat /\ current.gas \in Nat
        BY TxType, BlockAssumption DEF GInv, IInv, TypeOK, TxOK
      <3> QED BY <1>1, <2>2, <3>1 DEF MeterAfter, MeterCovers, Lesser
    <2> QED BY <2>1, <2>2
  <1>3. GasAccounted' BY <1>1 DEF GasAccounted
  <1>4. NextPosition' /\ PositionsConsecutive'
    BY <1>1 DEF GInv, NextPosition, PositionsConsecutive
  <1> QED BY <1>2, <1>3, <1>4

LEMMA EndBlockGasCovers == ASSUME GInv, EndBlock PROVE MeterCovers' /\ GasAccounted'
  <1> DEFINE share == (wanted * params.minGasMultiplier) \div Unit
  <1>1. /\ blockGasWanted' = Greater(share, Lesser(meter, MaxGas))
        /\ UNCHANGED <<meter, charged>>
    BY DEF EndBlock, EndBlockGas, history
  <1>2. /\ wanted \in Nat /\ meter \in Nat /\ charged \in Nat /\ MaxGas \in Nat
        /\ Unit \in Nat \ {0} /\ params.minGasMultiplier \in 0 .. Unit
    BY BlockAssumption DEF GInv, IInv, TypeOK, ParamsOK
  <1>3. share \in Nat BY <1>2, ShareBounded
  <1> HIDE DEF share
  <1> QED BY <1>1, <1>2, <1>3 DEF GInv, MeterCovers, GasAccounted, Greater, Lesser

LEMMA NextGInv == GInv /\ [Next]_vars => GInv'
  <1> SUFFICES ASSUME GInv, [Next]_vars
               PROVE  MeterCovers' /\ GasAccounted' /\ NextPosition' /\ PositionsConsecutive'
    BY SMTT(30), NextIInv DEF GInv
  <1>1. CASE UNCHANGED vars
    BY ZenonT(30), <1>1 DEF vars, feemarket, history, GInv, MeterCovers, GasAccounted, NextPosition,
               PositionsConsecutive
  <1>2. CASE BeginBlock
    <2>1. /\ phase' = "txs" /\ meter' = 0 /\ charged' = 0 /\ txIndex' = 0 /\ logSize' = 0
          /\ receipts' = <<>>
      BY SMTT(30), <1>2 DEF BeginBlock
    <2> QED BY <2>1, BlockAssumption
            DEF MeterCovers, GasAccounted, NextPosition, PositionsConsecutive, Lesser
  <1>3. CASE \E tx \in Txs : AnteHandle(tx)
    BY Zenon, <1>3 DEF AnteHandle, history, GInv, MeterCovers, GasAccounted, NextPosition,
               PositionsConsecutive
  <1>4. ASSUME NEW c \in Gases, NEW r \in 0 .. MaxRefund, NEW logs \in 0 .. MaxLogs,
               NEW creators \in SUBSET Accounts, ApplyTransaction(c, r, logs, creators)
        PROVE  MeterCovers' /\ GasAccounted' /\ NextPosition' /\ PositionsConsecutive'
    <2>0. MaxLogs \in Nat BY Zenon, BlockAssumption
    <2>1. logs \in Nat BY <2>0
    <2>2. /\ phase = "msg" /\ c \in current.intrinsic .. current.gas
          /\ Conclude(GasUsed(current, c, r), logs, Transferred(current))
      BY <1>4 DEF ApplyTransaction
    <2> QED BY SMTT(30), <2>1, <2>2, ConcludeGas
  <1>5. ASSUME NEW c \in Gases, NEW r \in 0 .. MaxRefund, ApplyFailed(c, r)
        PROVE  MeterCovers' /\ GasAccounted' /\ NextPosition' /\ PositionsConsecutive'
    BY <1>5, ConcludeGas DEF ApplyFailed
  <1>6. CASE CommitError
    <2>1. phase = "msg" /\ Drop(current.gas) BY <1>6 DEF CommitError
    <2>2. current.gas \in Nat BY <2>1, TxType DEF GInv, IInv, TypeOK, TxOK
    <2> QED BY <2>1, <2>2, DropGas
  <1>7. ASSUME NEW c \in Gases, NEW r \in 0 .. MaxRefund, BlockGasExceeded(c, r)
        PROVE  MeterCovers' /\ GasAccounted' /\ NextPosition' /\ PositionsConsecutive'
    <2>1. /\ phase = "msg" /\ c \in current.intrinsic .. current.gas
          /\ MeterAfter(GasUsed(current, c, r)) > MaxGas /\ Drop(GasUsed(current, c, r))
      BY <1>7 DEF BlockGasExceeded
    <2>2. ParamsOK(params) /\ current \in Txs /\ ValidTx(current)
      BY <2>1 DEF GInv, IInv, TypeOK, InMessage
    <2>3. GasUsed(current, c, r) \in 0 .. current.gas /\ current.gas \in Nat
      BY <2>1, <2>2, GasUsedBounded, TxType DEF TxOK
    <2>4. GasUsed(current, c, r) \in Nat BY <2>3
    <2> QED BY <2>1, <2>4, DropGas
  <1>8. ASSUME NEW t \in CosmosTxs, CosmosTx(t)
        PROVE  MeterCovers' /\ GasAccounted' /\ NextPosition' /\ PositionsConsecutive'
    <2>1. t.used \in Nat BY BlockAssumption
    <2>2. /\ phase' # "idle" /\ meter' = meter + t.used /\ charged' = charged + t.used
          /\ UNCHANGED <<txIndex, logSize, receipts>>
      BY <1>8 DEF CosmosTx
    <2>3. MeterCovers' BY <2>1, <2>2, MeterFollows DEF GInv
    <2> QED BY <2>2, <2>3 DEF GInv, GasAccounted, NextPosition, PositionsConsecutive
  <1>9. CASE \E p \in Proposals : UpdateParams(p)
    BY <1>9 DEF UpdateParams, history, GInv, MeterCovers, GasAccounted, NextPosition,
               PositionsConsecutive
  <1>10. CASE EndBlock
    <2>1. UNCHANGED <<txIndex, logSize, receipts>> BY <1>10 DEF EndBlock, history
    <2> QED BY <1>10, <2>1, EndBlockGasCovers DEF GInv, NextPosition, PositionsConsecutive
  <1> QED BY <1>1, <1>2, <1>3, <1>4, <1>5, <1>6, <1>7, <1>8, <1>9, <1>10 DEF Next

(* The next base fee is computed from no less gas than the results of the  *)
(* block report, up to the limit of a block (EndBlock of x/feemarket,      *)
(* ResetGasMeterAndConsumeGas).                                            *)
THEOREM GasIsAccounted == Spec => []GasAccounted
  <1>1. Init => GInv BY InitGInv
  <1>2. GInv /\ [Next]_vars => GInv' BY NextGInv
  <1>3. GInv => GasAccounted BY DEF GInv
  <1> QED BY <1>1, <1>2, <1>3, PTL DEF Spec

(* Indices of messages and logs follow one another without gap or overlap  *)
(* in every block (the transient stores of x/vm).                          *)
THEOREM PositionsFollow == Spec => []PositionsConsecutive
  <1>1. Init => GInv BY InitGInv
  <1>2. GInv /\ [Next]_vars => GInv' BY NextGInv
  <1>3. GInv => PositionsConsecutive BY DEF GInv
  <1> QED BY <1>1, <1>2, <1>3, PTL DEF Spec

(***************************************************************************)
(* The base fee                                                            *)
(***************************************************************************)
(* A rise by at least one unit shows in the quotient. *)
LEMMA QuotientRises ==
  ASSUME NEW u \in Nat \ {0}, NEW b \in Nat, NEW d \in Nat, d >= u
  PROVE  (b + d) \div u > b \div u
  <1> DEFINE q == b \div u
             p == (b + d) \div u
  <1>1. q \in Nat /\ p \in Nat BY DivNat
  <1>2. u * q <= b BY <1>1
  <1>3. b + d < u * (p + 1) BY <1>1
  <1> HIDE DEF q, p
  <1>4. CASE p <= q
    <2>1. u * (p + 1) <= u * (q + 1) BY <1>1, <1>4, TimesMonotone
    <2>2. u * (q + 1) = u * q + u BY <1>1
    <2>3. u * q \in Nat /\ u * (p + 1) \in Nat BY <1>1, TimesNat
    <2> QED BY <1>2, <1>3, <2>1, <2>2, <2>3
  <1> QED BY <1>1, <1>4 DEF q, p

(* What CalcGasBaseFee returns beside the first block of the base fee. *)
LEMMA CalcBaseFeeBounds ==
  ASSUME ParamsOK(params), blockGasWanted \in Nat, NEW h \in Nat, h # params.enableHeight,
         MaxGas \div params.elasticity > 0
  PROVE  /\ blockGasWanted > MaxGas \div params.elasticity =>
              \E d \in Nat : d >= Unit /\ CalculateBaseFee(h) = params.baseFee + d
         /\ params.baseFee >= params.minGasPrice => CalculateBaseFee(h) >= params.minGasPrice
  <1> DEFINE target == MaxGas \div params.elasticity
             diff == IF blockGasWanted > target THEN blockGasWanted - target
                                                ELSE target - blockGasWanted
             num == ((diff * params.baseFee) \div target) \div params.denominator
  <1>1. /\ params.baseFee \in Nat /\ params.minGasPrice \in Nat
        /\ params.elasticity \in Nat \ {0} /\ params.denominator \in Nat \ {0}
    BY DEF ParamsOK
  <1>2. Unit \in Nat \ {0} /\ MaxGas \in Nat BY BlockAssumption
  <1>3. target \in Nat \ {0} BY <1>1, <1>2, DivNat
  <1>4. num \in Nat
    <2> HIDE DEF target
    <2>1. diff \in Nat BY <1>3
    <2> HIDE DEF diff
    <2>2. diff * params.baseFee \in Nat BY <1>1, <2>1, TimesNat
    <2>3. (diff * params.baseFee) \div target \in Nat BY <1>3, <2>2, DivNat
    <2> QED BY <1>1, <2>3, DivNat
  <1>5. CalculateBaseFee(h) =
          IF blockGasWanted = target THEN params.baseFee
          ELSE IF target = 0 THEN 0
          ELSE IF blockGasWanted > target THEN params.baseFee + Greater(num, Unit)
               ELSE Greater(params.baseFee - num, params.minGasPrice)
    BY DEF CalculateBaseFee, CalcGasBaseFee
  <1> HIDE DEF num
  <1>6. Greater(num, Unit) \in Nat /\ Greater(num, Unit) >= Unit
    BY <1>2, <1>4 DEF Greater
  <1> HIDE DEF target
  <1>7. blockGasWanted > target =>
          \E d \in Nat : d >= Unit /\ CalculateBaseFee(h) = params.baseFee + d
    BY <1>3, <1>5, <1>6
  <1>8. params.baseFee >= params.minGasPrice => CalculateBaseFee(h) >= params.minGasPrice
    BY <1>1, <1>2, <1>3, <1>4, <1>5, <1>6 DEF Greater
  <1> QED BY <1>7, <1>8 DEF target

LEMMA BaseFeeStep ==
  ASSUME GInv, [Next]_vars, height' # height, IsBaseFeeEnabled(params, height'),
         height' # params.enableHeight, MaxGas \div params.elasticity > 0
  PROVE  /\ Lesser(charged, MaxGas) > MaxGas \div params.elasticity => BaseFee' > BaseFee
         /\ params.baseFee >= params.minGasPrice => params'.baseFee >= params.minGasPrice
  <1>1. BeginBlock
    BY ZenonT(40) DEF Next, vars, AnteHandle, ApplyTransaction, ApplyFailed, Conclude, CommitError,
           BlockGasExceeded, Drop, CosmosTx, UpdateParams, EndBlock
  <1> DEFINE fee == CalculateBaseFee(height')
             target == MaxGas \div params.elasticity
  <1>2. /\ ParamsOK(params) /\ blockGasWanted \in Nat /\ height' \in Nat /\ charged \in Nat
        /\ Unit \in Nat \ {0} /\ MaxGas \in Nat
    <2>1. ParamsOK(params) /\ blockGasWanted \in Nat /\ height \in Nat /\ charged \in Nat
      BY DEF GInv, IInv, TypeOK
    <2>2. height' = height + 1 BY <1>1 DEF BeginBlock
    <2>3. Unit \in Nat \ {0} /\ MaxGas \in Nat BY BlockAssumption
    <2> QED BY <2>1, <2>2, <2>3
  <1>3. /\ params' = [params EXCEPT !.baseFee = fee]
        /\ blockGasWanted >= Lesser(charged, MaxGas)
    BY <1>1 DEF BeginBlock, GInv, GasAccounted
  <1>4. /\ blockGasWanted > target =>
             \E d \in Nat : d >= Unit /\ fee = params.baseFee + d
        /\ params.baseFee >= params.minGasPrice => fee >= params.minGasPrice
    BY <1>2, CalcBaseFeeBounds
  <1>5. params.baseFee \in Nat /\ params.elasticity \in Nat \ {0} /\ ~ params.noBaseFee
    BY <1>2 DEF ParamsOK, IsBaseFeeEnabled
  <1>6. target \in Nat BY <1>2, <1>5, DivNat
  <1>7. params'.baseFee = fee /\ params'.noBaseFee = params.noBaseFee
    BY <1>2, <1>3 DEF ParamsOK
  <1>8. BaseFee = params.baseFee \div Unit /\ BaseFee' = fee \div Unit
    BY <1>5, <1>7 DEF BaseFee
  <1> HIDE DEF fee, target
  <1>9. ASSUME Lesser(charged, MaxGas) > target PROVE BaseFee' > BaseFee
    <2>1. blockGasWanted > target BY <1>2, <1>3, <1>6, <1>9 DEF Lesser
    <2>2. PICK d \in Nat : d >= Unit /\ fee = params.baseFee + d BY <1>4, <2>1
    <2>3. (params.baseFee + d) \div Unit > params.baseFee \div Unit
      BY <1>2, <1>5, <2>2, QuotientRises
    <2> QED BY <1>8, <2>2, <2>3
  <1> QED BY SMTT(30), <1>4, <1>7, <1>9 DEF target

(* After a block whose results report more gas than the target the base    *)
(* fee that the EVM sees rises, and a base fee that is not below the least *)
(* gas price stays there, for all parameters (BeginBlock of x/feemarket).  *)
THEOREM BaseFeeFollows == Spec => BaseFeeFollowsUse
  <1>1. Init => GInv BY InitGInv
  <1>2. GInv /\ [Next]_vars => GInv' BY NextGInv
  <1>3. GInv /\ [Next]_vars =>
          [LET target == MaxGas \div params.elasticity IN
           /\ height' # height /\ IsBaseFeeEnabled(params, height')
           /\ height' # params.enableHeight /\ target > 0
           => /\ Lesser(charged, MaxGas) > target => BaseFee' > BaseFee
              /\ params.baseFee >= params.minGasPrice => params'.baseFee >= params.minGasPrice]_vars
    BY BaseFeeStep
  <1> QED BY <1>1, <1>2, <1>3, PTL DEF Spec, BaseFeeFollowsUse
=============================================================================
