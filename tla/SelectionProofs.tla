-------------------------- MODULE SelectionProofs --------------------------
(* For every content of the pools and every schedule of the events, a walk   *)
(* never goes back within an account; while the chain view keeps the base    *)
(* fee of the proposal it repeats and skips nothing, offers the best first   *)
(* and leaves nothing out.  The argument ties the positions of the iterator  *)
(* to what was offered (PInv always, QInv while the base fee is the same).   *)
EXTENDS Selection, SequenceTheorems, TLAPS

Positions ==
  /\ pool \in [Accounts -> Seq(Txs)] /\ cosmos \in Seq(CosmosTxs)
  /\ minTip \in Nat \cup {Nil} /\ base \in Nat \cup {Nil} /\ head \in Nat \cup {Nil}
  /\ at \in [Accounts -> Nat] /\ next \in Nat \ {0} /\ next <= Len(cosmos) + 1
  /\ evmSeen \in [Accounts -> SUBSET Nat] /\ cosmosSeen \subseteq 1 .. Len(cosmos)
  /\ phase \in {"idle", "tx", "next", "done", "stopped"} /\ steady \in BOOLEAN

(* The head of an account can be included, and nothing after it was        *)
(* offered.                                                                *)
HeadsAhead ==
  \A a \in Accounts :
    /\ at[a] # 0 => Payable(a, at[a]) /\ \A k \in evmSeen[a] : k <= at[a]
    /\ evmSeen[a] \subseteq 1 .. Len(pool[a])

Phases ==
  /\ phase = "idle" =>
       /\ at = [a \in Accounts |-> 0] /\ next = 1 /\ ~ steady
       /\ evmSeen = [a \in Accounts |-> {}] /\ cosmosSeen = {}
  /\ phase \in {"tx", "next"} => top # Nil \/ HasCosmos
  /\ phase = "done" => top = Nil /\ ~ HasCosmos

PInv == Positions /\ top \in Root(at) /\ HeadsAhead /\ Phases

(* The transaction last offered is the one the iterator stands at.         *)
Taken == phase \in {"next", "stopped"}
UpTo(a) == IF Taken /\ shouldUseEVM /\ a = top THEN at[a] ELSE at[a] - 1
Exhausted(a, m) == evmSeen[a] = 1 .. m /\ (m # 0 => Payable(a, m)) /\ ~ Payable(a, m + 1)

QInv ==
  steady =>
    /\ head = base
    /\ \A a \in Accounts : at[a] # 0 => evmSeen[a] = 1 .. UpTo(a)
    /\ \A a \in Accounts : at[a] = 0 => \E m \in Nat : Exhausted(a, m)
    /\ cosmosSeen = 1 .. (IF Taken /\ ~ shouldUseEVM THEN next ELSE next - 1)

(* What can be included stays so before a position.                        *)
LEMMA Before ==
  ASSUME NEW a, NEW n \in Nat, Payable(a, n), NEW k \in 1 .. n
  PROVE  Payable(a, k)
BY DEF Payable

(* Shift: the next head of an account is the next that can be included, if *)
(* there is one.                                                           *)
LEMMA NextHead ==
  ASSUME Positions, NEW a \in Accounts, NEW n \in Nat, n # 0 => Payable(a, n)
  PROVE  \/ HeadAt(a, n + 1) = n + 1 /\ Payable(a, n + 1)
         \/ HeadAt(a, n + 1) = 0 /\ ~ Payable(a, n + 1)
<1>1. CASE Payable(a, n + 1)
  BY <1>1 DEF Payable, HeadAt, InPending, Positions
<1>2. CASE ~ Payable(a, n + 1)
  <2>1. SUFFICES ASSUME HeadAt(a, n + 1) # 0 PROVE FALSE
    BY <1>2 DEF HeadAt
  <2>2. InPending(a, n + 1) /\ PaysBaseFee(pool[a][n + 1])
    BY <2>1 DEF HeadAt
  <2>3. n + 1 \in 1 .. Len(pool[a]) /\ \A k \in 1 .. n + 1 : PaysTip(pool[a][k])
    BY <2>2 DEF InPending
  <2>4. ASSUME NEW k \in 1 .. n + 1 PROVE PaysBaseFee(pool[a][k])
    <3>1. CASE k = n + 1
      BY <3>1, <2>2
    <3>2. CASE k # n + 1
      <4>1. n # 0 /\ k \in 1 .. n
        BY <3>2
      <4> QED BY <4>1 DEF Payable
    <3> QED BY <3>1, <3>2
  <2> QED BY <2>3, <2>4, <1>2 DEF Payable
<1> QED BY <1>1, <1>2

LEMMA NextOfPrefix ==
  ASSUME NEW n \in Nat
  PROVE  NextOf(1 .. n) = n + 1
<1>1. CASE n = 0
  BY <1>1 DEF NextOf
<1>2. CASE n # 0
  <2>1. n \in 1 .. n /\ \A y \in 1 .. n : n >= y
    BY <1>2
  <2>2. Max(1 .. n) = n
    BY <2>1 DEF Max
  <2> QED BY <2>1, <2>2 DEF NextOf
<1> QED BY <1>1, <1>2

(* The fees of a head are those of a transaction that pays the base fee.   *)
LEMMA Tips ==
  ASSUME Positions
  PROVE  /\ \A a \in Accounts : \A n \in Nat :
              Payable(a, n) => EffectiveTip(pool[a][n]) \in Nat
         /\ \A n \in 1 .. Len(cosmos) : CosmosTip(cosmos[n]) \in Nat
<1>1. ASSUME NEW a \in Accounts, NEW n \in Nat, Payable(a, n)
      PROVE  EffectiveTip(pool[a][n]) \in Nat
  <2>1. pool[a][n] \in Txs /\ PaysBaseFee(pool[a][n])
    BY <1>1 DEF Payable, Positions
  <2>2. pool[a][n].feeCap \in Nat /\ pool[a][n].tipCap \in Nat
    BY <2>1, SelectionAssumption
  <2> QED BY <2>1, <2>2 DEF EffectiveTip, PaysBaseFee, Lesser, Positions
<1>2. ASSUME NEW n \in 1 .. Len(cosmos)
      PROVE  CosmosTip(cosmos[n]) \in Nat
  <2>1. cosmos[n] \in CosmosTxs
    BY DEF Positions
  <2>2. cosmos[n].fee \in Nat /\ cosmos[n].gas \in Nat \ {0}
    BY <2>1, SelectionAssumption
  <2>3. GasPrice(cosmos[n]) \in Nat
    BY SMTT(30), <2>2 DEF GasPrice
  <2> QED BY <2>3 DEF CosmosTip, Positions
<1> QED BY <1>1, <1>2

(* The pools do not change, so neither does what they say of a position.   *)
LEMMA SamePools ==
  ASSUME UNCHANGED pools
  PROVE  \A a, n : Payable(a, n)' <=> Payable(a, n)
BY DEF pools, Payable, PaysBaseFee, PaysTip, EffectiveTip

LEMMA RootKept ==
  ASSUME UNCHANGED <<pool, base>>, top' \in Root(at')
  PROVE  (top \in Root(at))'
BY DEF Root, Heads, Less, Fees, EffectiveTip

LEMMA RootIsHead ==
  ASSUME Positions, top \in Root(at)
  PROVE  /\ top # Nil => top \in Accounts /\ at[top] # 0
         /\ top = Nil => \A a \in Accounts : at[a] = 0
BY SelectionAssumption DEF Root, Heads

LEMMA InitPInv == Init => PInv /\ QInv
<1> SUFFICES ASSUME Init PROVE PInv /\ QInv
  OBVIOUS
<1>1. \A S : \A n \in Nat : Lists(S, n) \subseteq Seq(S)
  <2> SUFFICES ASSUME NEW S, NEW n \in Nat, NEW s \in Lists(S, n) PROVE s \in Seq(S)
    OBVIOUS
  <2>1. PICK k \in 0 .. n : s \in [1 .. k -> S]
    BY DEF Lists
  <2> QED BY <2>1, SeqDef
<1>2. pool \in [Accounts -> Seq(Txs)] /\ cosmos \in Seq(CosmosTxs)
  BY <1>1, SelectionAssumption DEF Init
<1>3. Positions
  <2>1. minTip \in Nat \cup {Nil} /\ base \in Nat \cup {Nil} /\ head \in Nat \cup {Nil}
    BY SelectionAssumption DEF Init
  <2>2. at \in [Accounts -> Nat] /\ evmSeen \in [Accounts -> SUBSET Nat]
    BY DEF Init
  <2>3. next \in Nat \ {0} /\ next <= Len(cosmos) + 1 /\ cosmosSeen \subseteq 1 .. Len(cosmos)
    BY <1>2 DEF Init
  <2>4. phase \in {"idle", "tx", "next", "done", "stopped"} /\ steady \in BOOLEAN
    BY Zenon DEF Init
  <2> QED BY <1>2, <2>1, <2>2, <2>3, <2>4 DEF Positions
<1>4. top \in Root(at)
  BY DEF Init, Root, Heads
<1>5. HeadsAhead
  BY DEF Init, HeadsAhead
<1>6. Phases
  BY DEF Init, Phases
<1>7. QInv
  BY DEF Init, QInv
<1> QED BY <1>3, <1>4, <1>5, <1>6, <1>7 DEF PInv

LEMMA SelectStep ==
  ASSUME PInv, QInv, SelectBy
  PROVE  PInv' /\ QInv'
<1> USE DEF PInv, SelectBy
<1>1. \A a \in Accounts : \/ at'[a] = 1 /\ Payable(a, 1)
                          \/ at'[a] = 0 /\ ~ Payable(a, 1)
  BY NextHead, \A a \in Accounts : HeadAt(a, 1) = HeadAt(a, 0 + 1)
<1>2. \A a, n : Payable(a, n)' <=> Payable(a, n)
  BY SamePools
<1>3. /\ next = 1 /\ \A a \in Accounts : evmSeen[a] = {}
      /\ cosmosSeen = {}
  BY DEF Phases
<1>4. Positions'
  BY <1>1, <1>3 DEF Positions, pools, seen
<1>5. (top \in Root(at))'
  BY RootKept DEF pools
<1>6. HeadsAhead'
  <2> SUFFICES ASSUME NEW a \in Accounts
               PROVE  /\ at'[a] # 0 => Payable(a, at[a])' /\ \A k \in evmSeen'[a] : k <= at'[a]
                      /\ evmSeen'[a] \subseteq 1 .. Len(pool'[a])
    BY DEF HeadsAhead
  <2>1. at'[a] # 0 => Payable(a, at[a])'
    <3> SUFFICES ASSUME at'[a] # 0 PROVE Payable(a, at[a])'
      OBVIOUS
    <3>1. at'[a] = 1 /\ Payable(a, 1)'
      BY <1>1, <1>2
    <3> QED BY <3>1 DEF Payable
  <2> QED BY <2>1, <1>3 DEF seen
<1>7. Phases'
  BY DEF Phases, hasMoreTransactions, HasCosmos, pools
<1>8. QInv'
  <2> SUFFICES ASSUME steady' PROVE QInv'
    BY DEF QInv
  <2>1. (head = base)'
    BY Zenon DEF pools
  <2>2. ~ Taken'
    BY DEF Taken
  <2>3. ASSUME NEW a \in Accounts, at'[a] # 0 PROVE evmSeen'[a] = 1 .. UpTo(a)'
    <3>1. at'[a] = 1 /\ evmSeen'[a] = {}
      BY <2>3, <1>1, <1>3 DEF seen
    <3>2. UpTo(a)' = 0
      BY <2>2, <3>1 DEF UpTo
    <3> QED BY <3>1, <3>2
  <2>4. ASSUME NEW a \in Accounts, at'[a] = 0 PROVE \E m \in Nat : Exhausted(a, m)'
    <3>1. ~ Payable(a, 0 + 1)'
      BY <2>4, <1>1, <1>2
    <3>2. Exhausted(a, 0)'
      BY <3>1, <1>3 DEF Exhausted, seen
    <3> QED BY <3>2
  <2>5. cosmosSeen' = 1 .. (IF Taken' /\ ~ shouldUseEVM' THEN next' ELSE next' - 1)
    BY <2>2, <1>3 DEF seen
  <2> QED BY <2>1, <2>3, <2>4, <2>5 DEF QInv
<1> QED BY <1>4, <1>5, <1>6, <1>7, <1>8

LEMMA TxStep ==
  ASSUME PInv, QInv, NEW more \in BOOLEAN, Tx(more)
  PROVE  PInv' /\ QInv'
<1> USE DEF PInv, Tx
<1>1. \A a, n : Payable(a, n)' <=> Payable(a, n)
  BY SamePools
<1>2. shouldUseEVM' <=> shouldUseEVM
  BY DEF shouldUseEVM, HasCosmos, CosmosTip, GasPrice, Fees, EffectiveTip, pools, iterator
<1>3. top # Nil => top \in Accounts /\ at[top] # 0 /\ Payable(top, at[top])
  BY RootIsHead DEF HeadsAhead
<1>4. ~ shouldUseEVM => HasCosmos
  BY DEF shouldUseEVM, Phases
<1>5. shouldUseEVM => top \in Accounts /\ at[top] \in 1 .. Len(pool[top])
  BY <1>3 DEF shouldUseEVM, Payable
<1>6. Positions'
  <2>1. /\ pool' = pool /\ cosmos' = cosmos /\ minTip' = minTip /\ base' = base
        /\ head' = head /\ at' = at /\ next' = next /\ steady' = steady
    BY DEF pools, iterator
  <2>2. evmSeen' \in [Accounts -> SUBSET Nat]
    <3>1. CASE shouldUseEVM
      <4>1. evmSeen[top] \cup {at[top]} \in SUBSET Nat
        BY <3>1, <1>5 DEF Positions
      <4> QED BY Zenon, <3>1, <4>1 DEF Positions
    <3>2. CASE ~ shouldUseEVM
      BY <3>2 DEF Positions
    <3> QED BY <3>1, <3>2
  <2>3. cosmosSeen' \subseteq 1 .. Len(cosmos)
    <3>1. CASE shouldUseEVM
      BY Zenon, <3>1 DEF Positions
    <3>2. CASE ~ shouldUseEVM
      <4>1. next \in 1 .. Len(cosmos)
        BY <3>2, <1>4 DEF Positions, HasCosmos
      <4> QED BY Zenon, <3>2, <4>1 DEF Positions
    <3> QED BY <3>1, <3>2
  <2>4. phase' \in {"idle", "tx", "next", "done", "stopped"}
    OBVIOUS
  <2> QED BY <2>1, <2>2, <2>3, <2>4 DEF Positions
<1>7. (top \in Root(at))'
  BY RootKept DEF pools, iterator
<1>8. HeadsAhead'
  <2> SUFFICES ASSUME NEW a \in Accounts
               PROVE  /\ at'[a] # 0 => Payable(a, at[a])' /\ \A k \in evmSeen'[a] : k <= at'[a]
                      /\ evmSeen'[a] \subseteq 1 .. Len(pool'[a])
    BY DEF HeadsAhead
  <2>1. at'[a] # 0 => Payable(a, at[a])'
    BY <1>1 DEF HeadsAhead, iterator
  <2>2. \/ evmSeen'[a] = evmSeen[a]
        \/ evmSeen'[a] = evmSeen[a] \cup {at[a]} /\ at[a] \in 1 .. Len(pool[a])
    BY <1>5 DEF Positions
  <2>3. at' = at /\ pool' = pool
    BY DEF iterator, pools
  <2> QED BY <2>1, <2>2, <2>3 DEF HeadsAhead, Positions
<1>9. Phases'
  BY DEF Phases, HasCosmos, pools, iterator
<1>10. QInv'
  <2> SUFFICES ASSUME steady' PROVE QInv'
    BY DEF QInv
  <2>1. steady /\ ~ Taken /\ Taken'
    BY DEF Taken
  <2>2. (head = base)'
    BY <2>1 DEF pools, QInv
  <2>3. at' = at /\ next' = next /\ top' = top /\ pool' = pool
    BY DEF iterator, pools
  <2>4. ASSUME NEW a \in Accounts, at'[a] # 0 PROVE evmSeen'[a] = 1 .. UpTo(a)'
    <3>1. evmSeen[a] = 1 .. at[a] - 1 /\ at[a] \in Nat \ {0}
      BY <2>1, <2>3, <2>4 DEF QInv, UpTo, Positions
    <3>2. CASE shouldUseEVM /\ a = top
      <4>1. evmSeen'[a] = (1 .. at[a] - 1) \cup {at[a]}
        BY <3>1, <3>2 DEF Positions
      <4> QED BY <4>1, <3>1, <3>2, <1>2, <2>1, <2>3 DEF UpTo
    <3>3. CASE ~ (shouldUseEVM /\ a = top)
      BY <3>1, <3>3, <1>2, <2>1, <2>3, <1>5 DEF UpTo, Positions
    <3> QED BY <3>2, <3>3
  <2>5. ASSUME NEW a \in Accounts, at'[a] = 0 PROVE \E m \in Nat : Exhausted(a, m)'
    <3>1. PICK m \in Nat : Exhausted(a, m)
      BY <2>1, <2>3, <2>5 DEF QInv
    <3>2. evmSeen'[a] = evmSeen[a]
      BY <2>3, <2>5, <1>5 DEF Positions
    <3>3. Exhausted(a, m)'
      BY <3>1, <3>2, <1>1 DEF Exhausted
    <3> QED BY <3>3
  <2>6. cosmosSeen' = 1 .. (IF Taken' /\ ~ shouldUseEVM' THEN next' ELSE next' - 1)
    <3>1. cosmosSeen = 1 .. next - 1 /\ next \in Nat \ {0}
      BY <2>1 DEF QInv, Positions
    <3>2. (1 .. next - 1) \cup {next} = 1 .. next
      BY <3>1
    <3>3. CASE shouldUseEVM
      BY <3>1, <3>3, <1>2, <2>3
    <3>4. CASE ~ shouldUseEVM
      BY Zenon, <3>1, <3>2, <3>4, <1>2, <2>1, <2>3
    <3> QED BY <3>3, <3>4
  <2> QED BY <2>2, <2>4, <2>5, <2>6 DEF QInv
<1> QED BY <1>6, <1>7, <1>8, <1>9, <1>10

LEMMA ShiftStep ==
  ASSUME PInv, QInv, NextTx, shouldUseEVM
  PROVE  PInv' /\ QInv'
<1> USE DEF PInv
<1>1. \A a, n : Payable(a, n)' <=> Payable(a, n)
  BY SamePools DEF NextTx
<1>2. top \in Accounts /\ at[top] \in Nat \ {0} /\ Payable(top, at[top])
  BY RootIsHead DEF shouldUseEVM, HeadsAhead, Positions
<1>3. /\ at' = [at EXCEPT ![top] = HeadAt(top, at[top] + 1)] /\ top' \in Root(at')
      /\ next' = next /\ pool' = pool /\ cosmos' = cosmos /\ minTip' = minTip /\ base' = base
      /\ head' = head /\ steady' = steady /\ evmSeen' = evmSeen /\ cosmosSeen' = cosmosSeen
  BY DEF NextTx, advanceCurrentIterator, Shift, pools, seen
<1>4. \/ at'[top] = at[top] + 1 /\ Payable(top, at[top] + 1)
      \/ at'[top] = 0 /\ ~ Payable(top, at[top] + 1)
  BY <1>2, <1>3, NextHead DEF Positions
<1>5. \A a \in Accounts \ {top} : at'[a] = at[a]
  BY <1>3 DEF Positions
<1>6. at' \in [Accounts -> Nat]
  BY <1>2, <1>3, <1>4 DEF Positions
<1>7. phase' \in {"tx", "done"} /\ phase = "next"
  BY DEF NextTx
<1>8. Positions'
  BY <1>3, <1>6, <1>7 DEF Positions
<1>9. (top \in Root(at))'
  BY <1>3, RootKept
<1>10. HeadsAhead'
  <2> SUFFICES ASSUME NEW a \in Accounts
               PROVE  /\ at'[a] # 0 => Payable(a, at[a])' /\ \A k \in evmSeen'[a] : k <= at'[a]
                      /\ evmSeen'[a] \subseteq 1 .. Len(pool'[a])
    BY DEF HeadsAhead
  <2>1. ASSUME at'[a] # 0
        PROVE  Payable(a, at'[a]) /\ \A k \in evmSeen[a] : k <= at'[a]
    <3>1. CASE a = top
      BY <2>1, <3>1, <1>2, <1>4 DEF HeadsAhead, Positions
    <3>2. CASE a # top
      BY <2>1, <3>2, <1>5 DEF HeadsAhead
    <3> QED BY <3>1, <3>2
  <2>2. at'[a] # 0 => Payable(a, at[a])'
    <3> SUFFICES ASSUME at'[a] # 0 PROVE Payable(a, at[a])'
      OBVIOUS
    <3>1. Payable(a, at'[a])
      BY <2>1
    <3> QED BY <3>1, <1>3 DEF Payable, PaysBaseFee, PaysTip, EffectiveTip
  <2> QED BY <2>1, <2>2, <1>3 DEF HeadsAhead
<1>11. Phases'
  BY <1>3, <1>7 DEF Phases, HasCosmos, NextTx, hasMoreTransactions
<1>12. QInv'
  <2> SUFFICES ASSUME steady' PROVE QInv'
    BY DEF QInv
  <2>1. steady /\ Taken /\ ~ Taken'
    BY <1>3, <1>7 DEF Taken
  <2>2. (head = base)'
    BY <2>1, <1>3 DEF QInv
  <2>3. evmSeen[top] = 1 .. at[top]
    BY <2>1, <1>2 DEF QInv, UpTo
  <2>4. ASSUME NEW a \in Accounts, at'[a] # 0 PROVE evmSeen'[a] = 1 .. UpTo(a)'
    <3>1. UpTo(a)' = at'[a] - 1
      BY <2>1 DEF UpTo
    <3>2. CASE a = top
      BY <3>1, <3>2, <2>3, <2>4, <1>2, <1>3, <1>4
    <3>3. CASE a # top
      <4>1. evmSeen[a] = 1 .. UpTo(a) /\ UpTo(a) = at[a] - 1
        BY <3>3, <2>1, <2>4, <1>5 DEF QInv, UpTo
      <4> QED BY <4>1, <3>1, <3>3, <1>3, <1>5
    <3> QED BY <3>2, <3>3
  <2>5. ASSUME NEW a \in Accounts, at'[a] = 0 PROVE \E m \in Nat : Exhausted(a, m)'
    <3>1. PICK m \in Nat : Exhausted(a, m)
      <4>1. CASE a = top
        <5>1. Exhausted(a, at[top])
          BY <4>1, <2>3, <2>5, <1>2, <1>4 DEF Exhausted
        <5> QED BY <5>1, <1>2
      <4>2. CASE a # top
        BY <4>2, <2>1, <2>5, <1>5 DEF QInv
      <4> QED BY <4>1, <4>2
    <3>2. Exhausted(a, m)'
      BY <3>1, <1>1, <1>3 DEF Exhausted
    <3> QED BY <3>2
  <2>6. cosmosSeen' = 1 .. (IF Taken' /\ ~ shouldUseEVM' THEN next' ELSE next' - 1)
    BY <2>1, <1>3 DEF QInv
  <2> QED BY <2>2, <2>4, <2>5, <2>6 DEF QInv
<1> QED BY <1>8, <1>9, <1>10, <1>11, <1>12

LEMMA CosmosStep ==
  ASSUME PInv, QInv, NextTx, ~ shouldUseEVM
  PROVE  PInv' /\ QInv'
<1> USE DEF PInv
<1>1. \A a, n : Payable(a, n)' <=> Payable(a, n)
  BY SamePools DEF NextTx
<1>2. /\ at' = at /\ top' = top /\ next' = next + 1
      /\ pool' = pool /\ cosmos' = cosmos /\ minTip' = minTip /\ base' = base
      /\ head' = head /\ steady' = steady /\ evmSeen' = evmSeen /\ cosmosSeen' = cosmosSeen
  BY DEF NextTx, advanceCurrentIterator, pools, seen
<1>3. phase' \in {"tx", "done"} /\ phase = "next"
  BY DEF NextTx
<1>4. next \in Nat \ {0} /\ next <= Len(cosmos) /\ Len(cosmos) \in Nat
  BY <1>3 DEF shouldUseEVM, Phases, HasCosmos, Positions
<1>5. Positions'
  BY <1>2, <1>3, <1>4 DEF Positions
<1>6. (top \in Root(at))'
  BY <1>2, RootKept
<1>7. HeadsAhead'
  BY <1>1, <1>2 DEF HeadsAhead
<1>8. Phases'
  BY <1>2, <1>3 DEF Phases, HasCosmos, NextTx, hasMoreTransactions
<1>9. QInv'
  <2> SUFFICES ASSUME steady' PROVE QInv'
    BY DEF QInv
  <2>1. steady /\ Taken /\ ~ Taken'
    BY <1>2, <1>3 DEF Taken
  <2>2. (head = base)'
    BY <2>1, <1>2 DEF QInv
  <2>3. ASSUME NEW a \in Accounts, at'[a] # 0 PROVE evmSeen'[a] = 1 .. UpTo(a)'
    <3>1. UpTo(a)' = at[a] - 1 /\ UpTo(a) = at[a] - 1
      BY <2>1, <1>2 DEF UpTo
    <3> QED BY <3>1, <2>1, <2>3, <1>2 DEF QInv
  <2>4. ASSUME NEW a \in Accounts, at'[a] = 0 PROVE \E m \in Nat : Exhausted(a, m)'
    <3>1. PICK m \in Nat : Exhausted(a, m)
      BY <2>1, <2>4, <1>2 DEF QInv
    <3>2. Exhausted(a, m)'
      BY <3>1, <1>1, <1>2 DEF Exhausted
    <3> QED BY <3>2
  <2>5. cosmosSeen' = 1 .. (IF Taken' /\ ~ shouldUseEVM' THEN next' ELSE next' - 1)
    BY <2>1, <1>2, <1>4 DEF QInv
  <2> QED BY <2>2, <2>3, <2>4, <2>5 DEF QInv
<1> QED BY <1>5, <1>6, <1>7, <1>8, <1>9

LEMMA EventStep ==
  ASSUME PInv, QInv, NotifyNewBlock
  PROVE  PInv' /\ QInv'
<1> USE DEF PInv
<1>1. \A a, n : Payable(a, n)' <=> Payable(a, n)
  BY SamePools DEF NotifyNewBlock
<1>2. /\ at' = at /\ top' = top /\ next' = next /\ phase' = phase
      /\ pool' = pool /\ cosmos' = cosmos /\ minTip' = minTip /\ base' = base
      /\ head' \in {base, Nil} /\ steady' = FALSE /\ evmSeen' = evmSeen /\ cosmosSeen' = cosmosSeen
  BY DEF NotifyNewBlock, pools, iterator, seen
<1>3. Positions'
  BY Zenon, <1>2 DEF Positions
<1>4. (top \in Root(at))'
  BY <1>2, RootKept
<1>5. HeadsAhead'
  BY <1>1, <1>2 DEF HeadsAhead
<1>6. Phases'
  BY <1>2 DEF Phases, HasCosmos
<1>7. QInv'
  BY <1>2 DEF QInv
<1> QED BY <1>3, <1>4, <1>5, <1>6, <1>7

LEMMA StutterStep ==
  ASSUME PInv, QInv, UNCHANGED vars
  PROVE  PInv' /\ QInv'
<1> USE DEF PInv
<1>1. \A a, n : Payable(a, n)' <=> Payable(a, n)
  BY SamePools DEF vars
<1>2. /\ at' = at /\ top' = top /\ next' = next /\ phase' = phase
      /\ pool' = pool /\ cosmos' = cosmos /\ minTip' = minTip /\ base' = base
      /\ head' = head /\ steady' = steady /\ evmSeen' = evmSeen /\ cosmosSeen' = cosmosSeen
  BY DEF vars, pools, iterator, seen
<1>3. Positions'
  BY <1>2 DEF Positions
<1>4. (top \in Root(at))'
  BY <1>2, RootKept
<1>5. HeadsAhead'
  BY <1>1, <1>2 DEF HeadsAhead
<1>6. Phases'
  BY <1>2 DEF Phases, HasCosmos
<1>7. shouldUseEVM' <=> shouldUseEVM
  BY <1>2 DEF shouldUseEVM, HasCosmos, CosmosTip, GasPrice, Fees, EffectiveTip
<1>8. \A a, m : Exhausted(a, m)' <=> Exhausted(a, m)
  BY <1>1, <1>2 DEF Exhausted
<1>9. QInv'
  BY <1>2, <1>7, <1>8 DEF QInv, UpTo, Taken
<1> QED BY <1>3, <1>4, <1>5, <1>6, <1>9

(* The positions of the iterator agree with what was offered in every      *)
(* reachable state.                                                        *)
LEMMA Walk == Spec => [](PInv /\ QInv)
<1>1. PInv /\ QInv /\ [Next]_vars => (PInv /\ QInv)'
  <2> SUFFICES ASSUME PInv, QInv, [Next]_vars PROVE PInv' /\ QInv'
    OBVIOUS
  <2>1. CASE NextTx
    BY <2>1, ShiftStep, CosmosStep
  <2> QED BY <2>1, SelectStep, TxStep, EventStep, StutterStep DEF Next
<1> QED BY InitPInv, <1>1, PTL DEF Spec

(* SelectBy: every position the iterator holds and everything it has       *)
(* offered is in the pools, and the root of the heap is one of the heads.  *)
THEOREM WalkTypes == Spec => []TypeOK
<1>1. PInv => TypeOK
  <2> SUFFICES ASSUME PInv PROVE TypeOK
    OBVIOUS
  <2>1. \A a \in Accounts : at[a] \in 0 .. Len(pool[a]) /\ evmSeen[a] \subseteq 1 .. Len(pool[a])
    BY DEF PInv, HeadsAhead, Payable, Positions
  <2>2. top \in Heads(at) \cup {Nil}
    BY RootIsHead DEF PInv, Heads
  <2> QED BY <2>1, <2>2 DEF TypeOK, PInv, Positions
<1> QED BY Walk, <1>1, PTL

(* A step that hands a transaction to the filter is a step of Tx.          *)
LEMMA OnlyTxOffers ==
  ASSUME [Next]_vars, Offers
  PROVE  \E more \in BOOLEAN : Tx(more)
BY DEF Offers, Next, SelectBy, NextTx, NotifyNewBlock, vars

(* Peek and Shift: an Ethereum transaction is offered only if it and all   *)
(* before it in its account can be included, and never after one of a      *)
(* higher nonce, whatever base fee the chain view has meanwhile.           *)
THEOREM NoWayBack == Spec => NeverBack
<1>1. ASSUME PInv, [Next]_vars, Offers, offer'.kind = "evm"
      PROVE  /\ Payable(offer'.from, offer'.pos)
             /\ \A k \in evmSeen[offer'.from] : k <= offer'.pos
  <2>1. PICK more \in BOOLEAN : Tx(more)
    BY <1>1, OnlyTxOffers
  <2>2. shouldUseEVM /\ offer' = [kind |-> "evm", from |-> top, pos |-> at[top]]
    BY <1>1, <2>1 DEF Tx
  <2>3. top \in Accounts /\ at[top] # 0
    BY <1>1, <2>2, RootIsHead DEF PInv, shouldUseEVM
  <2> QED BY <1>1, <2>2, <2>3 DEF PInv, HeadsAhead
<1> QED BY Walk, <1>1, PTL DEF Spec, NeverBack

(* In a steady walk the iterator stands at the next of every list.         *)
LEMMA StandsAtNext ==
  ASSUME PInv, QInv, steady, phase = "tx"
  PROVE  /\ \A a \in Accounts : at[a] # 0 => NextOf(evmSeen[a]) = at[a]
         /\ \A a \in Accounts : at[a] = 0 => ~ Payable(a, NextOf(evmSeen[a]))
         /\ NextOf(cosmosSeen) = next
<1>1. ASSUME NEW a \in Accounts, at[a] # 0 PROVE NextOf(evmSeen[a]) = at[a]
  <2>1. at[a] - 1 \in Nat /\ evmSeen[a] = 1 .. at[a] - 1
    BY <1>1 DEF PInv, Positions, QInv, UpTo, Taken
  <2>2. NextOf(1 .. at[a] - 1) = (at[a] - 1) + 1
    BY <2>1, NextOfPrefix
  <2>3. at[a] \in Nat
    BY DEF PInv, Positions
  <2> QED BY <2>1, <2>2, <2>3
<1>2. ASSUME NEW a \in Accounts, at[a] = 0 PROVE ~ Payable(a, NextOf(evmSeen[a]))
  <2>1. PICK m \in Nat : Exhausted(a, m)
    BY <1>2 DEF QInv
  <2> QED BY <2>1, NextOfPrefix DEF Exhausted
<1>3. NextOf(cosmosSeen) = next
  <2>1. next - 1 \in Nat /\ cosmosSeen = 1 .. next - 1
    BY DEF PInv, Positions, QInv, Taken
  <2>2. NextOf(1 .. next - 1) = (next - 1) + 1
    BY <2>1, NextOfPrefix
  <2>3. next \in Nat
    BY DEF PInv, Positions
  <2> QED BY <2>1, <2>2, <2>3
<1> QED BY <1>1, <1>2, <1>3

(* Next advances the pool that Tx took from, as long as the chain view     *)
(* keeps the base fee: nothing is repeated and no nonce is skipped.        *)
THEOREM NothingRepeated == Spec => InOrder
<1>1. ASSUME PInv, QInv, [Next]_vars, Offers, steady
      PROVE  IF offer'.kind = "evm" THEN offer'.pos = NextOf(evmSeen[offer'.from])
             ELSE offer'.pos = NextOf(cosmosSeen)
  <2>1. PICK more \in BOOLEAN : Tx(more)
    BY <1>1, OnlyTxOffers
  <2>2. CASE shouldUseEVM
    <3>1. offer' = [kind |-> "evm", from |-> top, pos |-> at[top]]
      BY <2>1, <2>2 DEF Tx
    <3>2. top \in Accounts /\ at[top] # 0
      BY <1>1, <2>2, RootIsHead DEF PInv, shouldUseEVM
    <3> QED BY <3>1, <3>2, <1>1, StandsAtNext DEF Offers
  <2>3. CASE ~ shouldUseEVM
    <3>1. offer' = [kind |-> "cosmos", from |-> Nil, pos |-> next]
      BY <2>1, <2>3 DEF Tx
    <3> QED BY <3>1, <1>1, StandsAtNext DEF Offers
  <2> QED BY <2>2, <2>3
<1> QED BY Walk, <1>1, PTL DEF Spec, InOrder

(* No head of the heap pays more than its root.                            *)
LEMMA RootPaysMost ==
  ASSUME PInv, NEW a \in Accounts, at[a] # 0
  PROVE  /\ top \in Accounts /\ at[top] # 0
         /\ Fees(at, top) \in Nat /\ Fees(at, a) \in Nat
         /\ Fees(at, a) <= Fees(at, top)
<1>1. top \in Accounts /\ at[top] # 0 /\ ~ Less(at, a, top)
  BY SelectionAssumption DEF PInv, Root, Heads
<1>2. Fees(at, top) \in Nat /\ Fees(at, a) \in Nat
  BY <1>1, Tips DEF PInv, HeadsAhead, Positions, Fees
<1>3. ~ Fees(at, a) > Fees(at, top)
  BY <1>1 DEF Less
<1> QED BY <1>1, <1>2, <1>3

(* shouldUseEVM and the heap: the transaction offered has the highest tip  *)
(* of all that could be next, and an Ethereum one is preferred in a tie.   *)
THEOREM HighestTipFirst == Spec => BestFirst
<1>1. ASSUME PInv, QInv, [Next]_vars, Offers, steady
      PROVE  /\ \A a \in Accounts :
                  Payable(a, NextOf(evmSeen[a])) =>
                    LET best == EffectiveTip(pool[a][NextOf(evmSeen[a])])
                    IN  IF offer'.kind = "evm" THEN best <= Tip(offer') ELSE best < Tip(offer')
             /\ NextOf(cosmosSeen) <= Len(cosmos) =>
                  CosmosTip(cosmos[NextOf(cosmosSeen)]) <= Tip(offer')
  <2> USE <1>1
  <2>1. PICK more \in BOOLEAN : Tx(more)
    BY OnlyTxOffers
  <2>2. /\ \A a \in Accounts : at[a] # 0 => NextOf(evmSeen[a]) = at[a]
        /\ \A a \in Accounts : at[a] = 0 => ~ Payable(a, NextOf(evmSeen[a]))
        /\ NextOf(cosmosSeen) = next
    BY StandsAtNext DEF Offers
  <2>3. next <= Len(cosmos) => CosmosTip(cosmos[next]) \in Nat
    BY Tips DEF PInv, Positions
  <2>4. CASE shouldUseEVM
    <3>1. offer'.kind = "evm" /\ Tip(offer') = Fees(at, top)
      BY <2>1, <2>4 DEF Tx, Tip, Fees
    <3>2. top \in Accounts /\ at[top] # 0
      BY <2>4, RootIsHead DEF PInv, shouldUseEVM
    <3>3. ASSUME NEW a \in Accounts, Payable(a, NextOf(evmSeen[a]))
          PROVE  EffectiveTip(pool[a][NextOf(evmSeen[a])]) <= Tip(offer')
      BY <3>1, <3>3, <2>2, RootPaysMost DEF Fees
    <3>4. ASSUME next <= Len(cosmos)
          PROVE  CosmosTip(cosmos[next]) <= Tip(offer')
      BY <3>1, <3>2, <3>4, <2>3, <2>4, RootPaysMost DEF shouldUseEVM, HasCosmos
    <3> QED BY <3>1, <3>3, <3>4, <2>2
  <2>5. CASE ~ shouldUseEVM
    <3>1. offer'.kind # "evm" /\ Tip(offer') = CosmosTip(cosmos[next])
      BY <2>1, <2>5 DEF Tx, Tip
    <3>2. next <= Len(cosmos) /\ (top # Nil => CosmosTip(cosmos[next]) > Fees(at, top))
      BY <2>5 DEF PInv, Phases, Offers, shouldUseEVM, HasCosmos
    <3>3. ASSUME NEW a \in Accounts, Payable(a, NextOf(evmSeen[a]))
          PROVE  EffectiveTip(pool[a][NextOf(evmSeen[a])]) < Tip(offer')
      <4>1. at[a] # 0 /\ NextOf(evmSeen[a]) = at[a]
        BY <3>3, <2>2
      <4>2. top # Nil
        BY <4>1, RootIsHead DEF PInv
      <4> QED BY <4>1, <4>2, <3>1, <3>2, <2>3, RootPaysMost DEF Fees
    <3> QED BY <3>1, <3>2, <3>3, <2>2, <2>3
  <2> QED BY <2>4, <2>5
<1> QED BY Walk, <1>1, PTL DEF Spec, BestFirst

(* A walk that ran to its end has offered all that can be included.        *)
THEOREM NothingLeft == Spec => []AllOffered
<1>1. PInv /\ QInv => AllOffered
  <2> SUFFICES ASSUME PInv, QInv, phase = "done", steady
               PROVE  /\ \A a \in Accounts : evmSeen[a] = {n \in 1 .. Len(pool[a]) : Payable(a, n)}
                      /\ cosmosSeen = 1 .. Len(cosmos)
    BY DEF AllOffered
  <2>1. top = Nil /\ next = Len(cosmos) + 1
    BY DEF PInv, Phases, HasCosmos, Positions
  <2>2. ASSUME NEW a \in Accounts
        PROVE  evmSeen[a] = {n \in 1 .. Len(pool[a]) : Payable(a, n)}
    <3>1. PICK m \in Nat : Exhausted(a, m)
      BY <2>1, RootIsHead DEF PInv, QInv
    <3>2. ASSUME NEW n \in 1 .. m PROVE n \in 1 .. Len(pool[a]) /\ Payable(a, n)
      <4>1. Payable(a, n)
        <5>1. m # 0 /\ Payable(a, m)
          BY <3>1 DEF Exhausted
        <5> QED BY <5>1, Before
      <4> QED BY <4>1 DEF Payable
    <3>3. ASSUME NEW n \in 1 .. Len(pool[a]), Payable(a, n) PROVE n \in 1 .. m
      <4> SUFFICES ASSUME n \notin 1 .. m PROVE FALSE
        OBVIOUS
      <4>1. n \in Nat /\ m + 1 \in 1 .. n
        BY DEF PInv, Positions
      <4>2. Payable(a, m + 1)
        BY <4>1, <3>3, Before
      <4> QED BY <4>2, <3>1 DEF Exhausted
    <3> QED BY <3>1, <3>2, <3>3 DEF Exhausted
  <2>3. cosmosSeen = 1 .. Len(cosmos)
    BY <2>1 DEF QInv, Taken, PInv, Positions
  <2> QED BY <2>2, <2>3
<1> QED BY Walk, <1>1, PTL
=============================================================================
