---------------------------- MODULE Erc20Proofs ----------------------------
(***************************************************************************)
(* Three facts about x/erc20 for any contracts, users, amounts, packets:   *)
(* coins outside the module account are backed by escrowed tokens; a       *)
(* contract is registered only while no coin of its denomination exists;   *)
(* and the escrow account holds what the other chain and the packets under *)
(* way account for.                                                        *)
(***************************************************************************)
EXTENDS Erc20, SumsProofs, TLAPS

IntBooks == [coin : [Holders -> Int], supply : Int, tok : [Holders -> Int]]

(* A book whose circulating coins are covered by the module's tokens.      *)
BookOK(b) == b \in IntBooks /\ b.supply - b.coin[Module] <= b.tok[Module]

(* A pair has metadata, and a coin without metadata was never minted.      *)
Fresh ==
  \A x \in Assets : /\ pair[x] # "none" => x \in meta
                    /\ x \notin meta => books[x].supply = 0

(* The inductive invariant.  Backed alone says nothing of the types of the *)
(* packets a refund reads; Fresh is what FreshPair needs.                  *)
IInv ==
  /\ books \in [Assets -> IntBooks] /\ \A x \in Assets : BookOK(books[x])
  /\ pair \in [Assets -> {"none", "on", "off"}]
  /\ sent \in Nat /\ flight \subseteq Packets
  /\ Fresh

(* The bank moves coins: the supply and the tokens stay, and a book stays  *)
(* covered as long as the sender is not the module account.                *)
LEMMA SendLemma ==
  ASSUME NEW b, BookOK(b), NEW from \in Holders \ {Module}, NEW to \in Holders, NEW n \in Nat
  PROVE  /\ BookOK(SendCoins(b, from, to, n))
         /\ SendCoins(b, from, to, n).supply = b.supply
  BY DEF BookOK, IntBooks, SendCoins, Move, Holders

(* Minting and burning change one balance and the supply by the amount.    *)
LEMMA MintLemma ==
  ASSUME NEW b \in IntBooks, NEW to \in Holders, NEW n \in Nat
  PROVE  LET c == MintCoins(b, to, n)
         IN  /\ c \in IntBooks /\ c.supply = b.supply + n /\ c.tok = b.tok
             /\ \A h \in Holders \ {to} : c.coin[h] = b.coin[h]
<1> DEFINE f == [b.coin EXCEPT ![to] = @ + n]
<1>1. f \in [Holders -> Int] /\ \A h \in Holders \ {to} : f[h] = b.coin[h]
  BY DEF IntBooks
<1>2. MintCoins(b, to, n) = [coin |-> f, supply |-> b.supply + n, tok |-> b.tok]
  BY DEF MintCoins
<1> HIDE DEF f
<1> QED  BY <1>1, <1>2 DEF IntBooks

LEMMA BurnLemma ==
  ASSUME NEW b \in IntBooks, NEW from \in Holders, NEW n \in Nat
  PROVE  LET c == BurnCoins(b, from, n)
         IN  /\ c \in IntBooks /\ c.supply = b.supply - n /\ c.tok = b.tok
             /\ c.coin[from] = b.coin[from] - n
<1> DEFINE f == [b.coin EXCEPT ![from] = @ - n]
<1>1. f \in [Holders -> Int] /\ f[from] = b.coin[from] - n
  BY DEF IntBooks
<1>2. BurnCoins(b, from, n) = [coin |-> f, supply |-> b.supply - n, tok |-> b.tok]
  BY DEF BurnCoins
<1> HIDE DEF f
<1> QED  BY <1>1, <1>2 DEF IntBooks

(* A conversion of tokens that reports no error mints no more coins than   *)
(* the module account received tokens (msg_server.go:71).                  *)
LEMMA TokensInLemma ==
  ASSUME NEW b, BookOK(b), NEW n \in Nat, NEW receiver \in Users, NEW sender \in Users,
         NEW how \in Outcomes,
         ~convertERC20IntoCoinsForNativeToken(b, n, receiver, sender, how).err
  PROVE  BookOK(convertERC20IntoCoinsForNativeToken(b, n, receiver, sender, how).book)
<1> DEFINE e == CallTransfer(b, sender, Module, n, how)
<1>1. e \in IntBooks /\ e.coin = b.coin /\ e.supply = b.supply
  BY Erc20Assumption DEF CallTransfer, MovesTokens, KeepFee, Outcomes, Move, BookOK, IntBooks, Holders
<1>2. e.tok[Module] = b.tok[Module] + n
  BY Zenon DEF convertERC20IntoCoinsForNativeToken
<1>3. BookOK(MintCoins(e, receiver, n))
  <2> HIDE DEF e
  <2> DEFINE c == MintCoins(e, receiver, n)
  <2>1. receiver \in Holders /\ Module \in Holders \ {receiver}
    BY Erc20Assumption DEF Holders
  <2>2. /\ c \in IntBooks /\ c.supply = e.supply + n /\ c.tok = e.tok
        /\ c.coin[Module] = e.coin[Module]
    BY <1>1, <2>1, MintLemma
  <2> HIDE DEF c
  <2>3. BookOK(c)
    BY <1>1, <1>2, <2>1, <2>2 DEF BookOK, IntBooks
  <2> QED  BY <2>3 DEF c
<1> QED  BY <1>3 DEF convertERC20IntoCoinsForNativeToken

(* Whatever a conversion of coins leaves behind is covered, also when it   *)
(* stops half way (msg_server.go:237).                                     *)
LEMMA CoinsInLemma ==
  ASSUME NEW x, NEW b, BookOK(b), NEW n \in Nat, NEW receiver \in Users, NEW sender \in Users,
         NEW how \in Outcomes
  PROVE  BookOK(ConvertCoinNativeERC20(x, b, n, receiver, sender, how).book)
<1> DEFINE s == SendCoins(b, sender, Module, n)
           paid == CallTransfer(s, Module, receiver, n, how)
<1>1. /\ s \in IntBooks /\ s.supply = b.supply /\ s.tok = b.tok
      /\ s.coin[Module] = b.coin[Module] + n
  BY Erc20Assumption DEF SendCoins, Move, BookOK, IntBooks, Holders
<1>2. /\ paid \in IntBooks /\ paid.supply = s.supply /\ paid.coin = s.coin
      /\ paid.tok[Module] >= s.tok[Module] - n
  <2> HIDE DEF s
  <2> QED  BY <1>1, Erc20Assumption DEF CallTransfer, MovesTokens, KeepFee, Outcomes, Move, IntBooks, Holders
<1>3. BookOK(paid)
  <2> HIDE DEF s, paid
  <2> QED  BY <1>1, <1>2, Erc20Assumption DEF BookOK, IntBooks, Holders
<1>4. BookOK(BurnCoins(paid, Module, n))
  <2> HIDE DEF s, paid
  <2> DEFINE c == BurnCoins(paid, Module, n)
  <2>1. Module \in Holders
    BY DEF Holders
  <2>2. /\ c \in IntBooks /\ c.supply = paid.supply - n /\ c.tok = paid.tok
        /\ c.coin[Module] = paid.coin[Module] - n
    BY <1>2, <2>1, BurnLemma
  <2> HIDE DEF c
  <2>3. BookOK(c)
    BY <1>2, <1>3, <2>1, <2>2 DEF BookOK, IntBooks
  <2> QED  BY <2>3 DEF c
<1> QED  BY <1>3, <1>4, Zenon DEF ConvertCoinNativeERC20

(* A step that gives one asset a new, covered book keeps the invariant if  *)
(* the asset has metadata or its supply stays.                             *)
LEMMA UpdateLemma ==
  ASSUME IInv, NEW x \in Assets, NEW c, BookOK(c),
         x \in meta \/ c.supply = books[x].supply,
         books' = [books EXCEPT ![x] = c],
         pair' = pair, meta' = meta, sent' \in Nat, flight' \subseteq Packets
  PROVE  IInv'
<1>1. c \in IntBooks /\ books' \in [Assets -> IntBooks]
  BY DEF IInv, BookOK
<1>2. \A y \in Assets : BookOK(books'[y])
  BY DEF IInv
<1>3. Fresh'
  BY DEF IInv, Fresh
<1> QED  BY <1>1, <1>2, <1>3 DEF IInv, BookOK

(* An asset whose pair is in use has metadata.                             *)
LEMMA EnabledLemma ==
  ASSUME IInv, NEW x \in Assets, pair[x] # "none"
  PROVE  x \in meta
  BY DEF IInv, Fresh

LEMMA InitInv == Init => IInv
<1> SUFFICES ASSUME Init PROVE IInv
  OBVIOUS
<1>1. books \in [Assets -> IntBooks]
  BY Erc20Assumption DEF Init, IntBooks, Zero
<1>2. \A x \in Assets : books[x].supply = 0 /\ books[x].coin[Module] = 0
                         /\ books[x].tok[Module] = 0
  BY Erc20Assumption DEF Init, Zero, Holders
<1>3. \A x \in Assets : BookOK(books[x])
  BY <1>1, <1>2 DEF BookOK
<1>4. Fresh /\ pair \in [Assets -> {"none", "on", "off"}] /\ sent \in Nat /\ flight \subseteq Packets
  BY <1>2 DEF Init, Fresh
<1> QED  BY <1>1, <1>3, <1>4 DEF IInv

(* A refund pays the sender and converts (ibc_callbacks.go:188).           *)
LEMMA RefundLemma ==
  ASSUME IInv, NEW p \in flight, NEW how \in Outcomes, Refund(p, how),
         pair' = pair, meta' = meta, sent' = sent, flight' = flight \ {p}
  PROVE  IInv'
<1>1. p.asset \in Assets /\ p.from \in Users /\ p.n \in Nat
  BY Erc20Assumption DEF IInv, Packets, Amounts
<1> DEFINE x == p.asset
           b == SendCoins(books[x], Escrow, p.from, p.n)
           c == ConvertCoinToERC20FromPacket(x, b, p.n, p.from, how)
<1>2. BookOK(books[x]) /\ Escrow \in Holders \ {Module} /\ p.from \in Holders
  BY <1>1, Erc20Assumption DEF IInv, Holders
<1>3. BookOK(b) /\ b.supply = books[x].supply
  BY <1>1, <1>2, SendLemma
<1>4. BookOK(c) /\ (x \in meta \/ c.supply = books[x].supply)
  <2> HIDE DEF b, x
  <2>1. CASE pair[x] = "none" \/ ~enabled
    BY <1>3, <2>1 DEF ConvertCoinToERC20FromPacket
  <2>2. CASE ~(pair[x] = "none" \/ ~enabled)
    <3>1. c = ConvertCoinNativeERC20(x, b, p.n, p.from, p.from, how).book
      BY <2>2 DEF ConvertCoinToERC20FromPacket
    <3>2. BookOK(c)
      BY <3>1, <1>1, <1>3, CoinsInLemma
    <3>3. x \in meta
      BY <2>2, <1>1, EnabledLemma DEF x
    <3> QED  BY <3>2, <3>3
  <2> QED  BY <2>1, <2>2
<1>5. books' = [books EXCEPT ![x] = c] /\ sent' \in Nat /\ flight' \subseteq Packets
  BY DEF Refund, IInv
<1> HIDE DEF c, b
<1> QED  BY Zenon, <1>1, <1>4, <1>5, UpdateLemma

(* The conversions by message (msg_server.go:26 and 192).                  *)
LEMMA ConvertStep ==
  ASSUME IInv, NEW x \in Assets, NEW n \in Amounts, NEW to \in Users, NEW from \in Users,
         NEW how \in Outcomes, NEW sendable \in BOOLEAN,
         \/ ConvertERC20(x, n, to, from, how, sendable)
         \/ ConvertCoin(x, n, to, from, how, sendable)
  PROVE  IInv'
<1>1. n \in Nat /\ BookOK(books[x]) /\ pair[x] = "on"
  BY Erc20Assumption DEF Amounts, IInv, ConvertERC20, ConvertCoin, MintingEnabled
<1>2. x \in meta
  BY <1>1, EnabledLemma
<1>3. CASE DeleteTokenPair(x)
  BY <1>3 DEF DeleteTokenPair, IInv, Fresh, ibc
<1> DEFINE c == convertERC20IntoCoinsForNativeToken(books[x], n, to, from, how)
<1>4. CASE ~c.err /\ books' = [books EXCEPT ![x] = c.book]
           /\ UNCHANGED <<enabled, pair, meta, code, ibc>>
  <2>1. BookOK(c.book)
    BY <1>1, <1>4, TokensInLemma
  <2> HIDE DEF c
  <2> QED  BY Zenon, <1>2, <1>4, <2>1, UpdateLemma DEF ibc, IInv
<1> DEFINE d == ConvertCoinNativeERC20(x, books[x], n, to, from, how)
<1>5. CASE ~d.err /\ books' = [books EXCEPT ![x] = d.book]
           /\ UNCHANGED <<enabled, pair, meta, code, ibc>>
  <2>1. BookOK(d.book)
    BY <1>1, CoinsInLemma
  <2> HIDE DEF d
  <2> QED  BY Zenon, <1>2, <1>5, <2>1, UpdateLemma DEF ibc, IInv
<1> HIDE DEF c, d
<1> QED  BY <1>3, <1>4, <1>5 DEF ConvertERC20, ConvertCoin, c, d

(* A transfer converts what is missing (transfer/keeper/msg_server.go:25). *)
LEMMA TransferStep ==
  ASSUME IInv, NEW x \in Assets, NEW n \in Amounts, NEW from \in Users,
         NEW how \in Outcomes, NEW sendable \in BOOLEAN,
         Transfer(x, n, from, how, sendable)
  PROVE  IInv'
<1> DEFINE b == books[x]
           short == n - b.coin[from]
           c == convertERC20IntoCoinsForNativeToken(b, short, from, from, how)
           b1 == IF short <= 0 THEN b ELSE c.book
<1>1. /\ n \in Nat /\ BookOK(b) /\ short \in Int
      /\ from \in Holders \ {Module} /\ Escrow \in Holders
  <2>1. /\ n \in Nat /\ BookOK(b)
        /\ from \in Holders \ {Module} /\ Escrow \in Holders
    BY Erc20Assumption DEF Amounts, IInv, Holders
  <2>2. b.coin[from] \in Int
    BY <2>1 DEF BookOK, IntBooks
  <2> QED  BY <2>1, <2>2
<1>2. short > 0 => pair[x] = "on" /\ ~c.err
  BY DEF Transfer, MintingEnabled
<1>3. BookOK(b1) /\ (x \in meta \/ b1.supply = books[x].supply)
  <2>1. CASE short <= 0
    BY <1>1, <2>1
  <2>2. CASE ~(short <= 0)
    <3>1. short \in Nat /\ ~c.err /\ x \in meta
      BY <1>1, <1>2, <2>2, EnabledLemma
    <3> HIDE DEF b, short
    <3>2. BookOK(c.book)
      BY <1>1, <3>1, TokensInLemma
    <3> QED  BY <2>2, <3>1, <3>2
  <2> QED  BY <2>1, <2>2
<1>4. /\ books' = [books EXCEPT ![x] = SendCoins(b1, from, Escrow, n)]
      /\ pair' = pair /\ meta' = meta
  BY DEF Transfer
<1>5. sent' \in Nat /\ flight' \subseteq Packets
  <2>1. sent < MaxPackets /\ sent' = sent + 1
        /\ flight' = flight \cup
            {[asset |-> x, from |-> from, n |-> n, seq |-> sent + 1, status |-> "sent"]}
    BY DEF Transfer
  <2> QED  BY <2>1, Erc20Assumption DEF IInv, Packets
<1> HIDE DEF b1
<1>6. /\ BookOK(SendCoins(b1, from, Escrow, n))
      /\ SendCoins(b1, from, Escrow, n).supply = b1.supply
  BY <1>1, <1>3, SendLemma
<1> QED  BY Zenon, <1>3, <1>4, <1>5, <1>6, UpdateLemma

(* Coins come back, also when the v2 middleware drops the error            *)
(* (ibc_callbacks.go:35, v2/ibc_middleware.go:65).                         *)
LEMMA RecvStep ==
  ASSUME IInv, NEW x \in Assets, NEW n \in Amounts, NEW to \in Users,
         NEW how \in Outcomes, NEW sendable \in BOOLEAN, NEW v2 \in BOOLEAN,
         OnRecvPacket(x, n, to, how, sendable, v2)
  PROVE  IInv'
<1> DEFINE b == SendCoins(books[x], Escrow, to, n)
           c == IF ~enabled \/ pair[x] # "on" THEN [err |-> FALSE, book |-> b]
                ELSE IF ~MintingEnabled(x, to, sendable) THEN [err |-> TRUE, book |-> b]
                ELSE ConvertCoinNativeERC20(x, b, n, to, to, how)
<1>1. /\ n \in Nat /\ BookOK(books[x])
      /\ Escrow \in Holders \ {Module} /\ to \in Holders
  BY Erc20Assumption DEF Amounts, IInv, Holders
<1>2. BookOK(b) /\ b.supply = books[x].supply
  BY <1>1, SendLemma
<1>3. books' = [books EXCEPT ![x] = c.book] /\ pair' = pair /\ meta' = meta
      /\ sent' = sent /\ flight' = flight
  BY DEF OnRecvPacket
<1> HIDE DEF b
<1>4. BookOK(c.book) /\ (x \in meta \/ c.book.supply = books[x].supply)
  <2>1. CASE c.book = b
    BY <1>2, <2>1
  <2>2. CASE pair[x] = "on" /\ c = ConvertCoinNativeERC20(x, b, n, to, to, how)
    BY <1>1, <1>2, <2>2, CoinsInLemma, EnabledLemma
  <2> QED  BY <2>1, <2>2
<1> HIDE DEF c
<1> QED  BY Zenon, <1>3, <1>4, UpdateLemma DEF IInv

(* Tokens that a user sends never leave the module account.                *)
LEMMA TokenSendLemma ==
  ASSUME NEW b, BookOK(b), NEW from \in Users, NEW to \in Users \cup {Module}, NEW n \in Nat
  PROVE  /\ BookOK(CallTransfer(b, from, to, n, "ok"))
         /\ CallTransfer(b, from, to, n, "ok").supply = b.supply
<1> DEFINE c == CallTransfer(b, from, to, n, "ok")
<1>1. b \in IntBooks /\ from \in Holders /\ to \in Holders /\ Module \in Holders \ {from}
  BY Erc20Assumption DEF BookOK, Holders
<1>2. c \in IntBooks /\ c.coin = b.coin /\ c.supply = b.supply
  BY <1>1 DEF CallTransfer, MovesTokens, KeepFee, Move, IntBooks
<1>3. c.tok[Module] >= b.tok[Module]
  <2> DEFINE f == Move(b.tok, from, to, n)
  <2>1. b.tok \in [Holders -> Int]
    BY <1>1 DEF IntBooks
  <2>2. f \in [Holders -> Int] /\ f[Module] >= b.tok[Module]
    BY <1>1, <2>1 DEF Move
  <2> HIDE DEF f
  <2>3. c.tok[Module] = f[Module]
    BY <1>1, <2>2 DEF CallTransfer, MovesTokens, KeepFee, f
  <2> QED  BY <2>2, <2>3
<1> HIDE DEF c
<1>4. /\ b.supply \in Int /\ b.coin[Module] \in Int /\ b.tok[Module] \in Int
      /\ c.tok[Module] \in Int
  BY <1>1, <1>2 DEF IntBooks
<1>5. b.supply - b.coin[Module] <= b.tok[Module]
  BY DEF BookOK
<1>6. c.supply - c.coin[Module] <= c.tok[Module]
  BY <1>2, <1>3, <1>4, <1>5
<1>7. BookOK(c) /\ c.supply = b.supply
  BY <1>2, <1>6 DEF BookOK
<1> QED  BY <1>7 DEF c

(* Every action preserves the invariant.                                   *)
LEMMA NextInv == IInv /\ [Next]_vars => IInv'
<1> SUFFICES ASSUME IInv, [Next]_vars PROVE IInv'
  OBVIOUS
<1>1. CASE UNCHANGED vars
  BY <1>1 DEF vars, ibc, IInv, Fresh
<1>2. CASE UpdateParams
  BY <1>2 DEF UpdateParams, ibc, IInv, Fresh
<1>3. ASSUME NEW x \in Assets, RegisterERC20(x) \/ ToggleConversion(x) \/ ChangeCode(x) PROVE IInv'
  <2>1. books' = books /\ sent' = sent /\ flight' = flight
    BY <1>3 DEF RegisterERC20, ToggleConversion, ChangeCode, ibc
  <2>2. pair' \in [Assets -> {"none", "on", "off"}]
    BY <1>3 DEF RegisterERC20, ToggleConversion, ChangeCode, IInv
  <2>3. meta \subseteq meta' /\ \A y \in Assets : pair'[y] # "none" => y \in meta'
    BY <1>3 DEF RegisterERC20, ToggleConversion, ChangeCode, IInv, Fresh
  <2> QED  BY <2>1, <2>2, <2>3 DEF IInv, Fresh
<1>4. ASSUME NEW p \in flight, NEW answer \in {"received", "refused"}, CounterpartyAnswers(p, answer)
      PROVE  IInv'
  <2>1. [p EXCEPT !.status = answer] \in Packets
    BY DEF IInv, Packets
  <2> QED  BY <1>4, <2>1 DEF CounterpartyAnswers, IInv, Fresh
<1>5. ASSUME NEW p \in flight, NEW how \in Outcomes,
             OnAcknowledgementPacket(p, how) \/ OnTimeoutPacket(p, how)
      PROVE  IInv'
  <2>1. pair' = pair /\ meta' = meta /\ sent' = sent /\ flight' = flight \ {p}
    BY <1>5 DEF OnAcknowledgementPacket, OnTimeoutPacket
  <2>2. CASE Refund(p, how)
    BY <2>1, <2>2, RefundLemma
  <2>3. CASE books' = books
    BY <2>1, <2>3 DEF IInv, Fresh
  <2> QED  BY <1>5, <2>2, <2>3 DEF OnAcknowledgementPacket, OnTimeoutPacket
<1>6. ASSUME NEW x \in Assets, NEW from \in Users, NEW to \in Users, NEW n \in Amounts,
             BankSend(x, from, to, n)
      PROVE  IInv'
  <2>1. /\ n \in Nat /\ BookOK(books[x]) /\ from \in Holders \ {Module} /\ to \in Holders
    BY Erc20Assumption DEF Amounts, IInv, Holders
  <2>2. /\ BookOK(SendCoins(books[x], from, to, n))
        /\ SendCoins(books[x], from, to, n).supply = books[x].supply
    BY <2>1, SendLemma
  <2>3. /\ books' = [books EXCEPT ![x] = SendCoins(books[x], from, to, n)]
        /\ pair' = pair /\ meta' = meta /\ sent' = sent /\ flight' = flight
    BY <1>6 DEF BankSend, ibc
  <2> QED  BY Zenon, <2>2, <2>3, UpdateLemma DEF IInv
<1>7. ASSUME NEW x \in Assets, NEW from \in Users, NEW to \in Users \cup {Module},
             NEW n \in Amounts, TokenSend(x, from, to, n)
      PROVE  IInv'
  <2> DEFINE c == CallTransfer(books[x], from, to, n, "ok")
  <2>1. n \in Nat /\ BookOK(books[x])
    BY Erc20Assumption DEF Amounts, IInv
  <2>2. BookOK(c) /\ c.supply = books[x].supply
    BY <2>1, TokenSendLemma
  <2>3. /\ books' = [books EXCEPT ![x] = c]
        /\ pair' = pair /\ meta' = meta /\ sent' = sent /\ flight' = flight
    BY <1>7 DEF TokenSend, ibc
  <2> HIDE DEF c
  <2> QED  BY ZenonT(30), <2>2, <2>3, UpdateLemma DEF IInv
<1> QED
  BY <1>1, <1>2, <1>3, <1>4, <1>5, <1>6, <1>7, ConvertStep, TransferStep, RecvStep DEF Next

(* For any contracts, whatever they answer, and any number of users,       *)
(* packets and amounts: a coin of a contract outside the module account is *)
(* backed by a token in it, through every conversion, half-done conversion *)
(* of a refund, transfer and deleted pair.                                 *)
THEOREM CoinsBacked == Spec => []Backed
<1>1. IInv => Backed
  BY DEF IInv, BookOK, Backed
<1> QED  BY <1>1, InitInv, NextInv, PTL DEF Spec

(* A contract is registered only while its coin has no supply: the denom   *)
(* metadata CreateCoinMetadata refuses to write twice outlives the pair.   *)
THEOREM RegisteredFresh == Spec => FreshPair
<1> DEFINE A == \A x \in Assets : pair[x] = "none" /\ pair'[x] # "none" => books[x].supply = 0
<1>1. IInv /\ [Next]_vars => [A]_vars
  <2> SUFFICES ASSUME IInv, Next, NEW x \in Assets, pair[x] = "none", pair'[x] # "none"
               PROVE  books[x].supply = 0
    OBVIOUS
  <2>1. CASE \E y \in Assets : RegisterERC20(y)
    BY <2>1 DEF RegisterERC20, CreateCoinMetadata, IInv, Fresh
  <2>2. CASE \E y \in Assets : ToggleConversion(y)
    BY <2>2 DEF ToggleConversion, IInv
  <2>3. CASE pair' = pair
    BY <2>3
  <2>4. CASE \E y \in Assets : DeleteTokenPair(y)
    BY <2>4 DEF DeleteTokenPair, IInv
  <2> QED
    BY <2>1, <2>2, <2>3, <2>4
    DEF Next, UpdateParams, ChangeCode, ConvertERC20, ConvertCoin, Transfer, OnRecvPacket,
        CounterpartyAnswers, OnAcknowledgementPacket, OnTimeoutPacket, BankSend, TokenSend
<1>2. FreshPair <=> [][A]_vars
  BY DEF FreshPair
<1> QED  BY <1>1, <1>2, InitInv, NextInv, PTL DEF Spec

-----------------------------------------------------------------------------
(* The escrow account                                                      *)

(* No two packets under way have the same sequence number.                 *)
Distinct(F) == \A p, q \in F : p.seq = q.seq => p = q

(* EscrowExact is inductive with these: a packet's number is its own.      *)
SInv ==
  /\ IInv /\ sent <= MaxPackets /\ remote \in [Assets -> Nat]
  /\ Distinct(flight) /\ \A p \in flight : p.seq <= sent
  /\ EscrowExact

LEMMA OwedAt ==
  ASSUME NEW F, Distinct(F), NEW x, NEW i \in 1 .. MaxPackets
  PROVE  /\ \A p \in F : Owes(p, x, i) => Owed(F, x)[i] = p.n
         /\ (\A p \in F : ~ Owes(p, x, i)) => Owed(F, x)[i] = 0
<1>1. Owed(F, x)[i] = IF \E p \in F : Owes(p, x, i)
                      THEN (CHOOSE p \in F : Owes(p, x, i)).n ELSE 0
  BY DEF Owed
<1>2. ASSUME NEW p \in F, Owes(p, x, i) PROVE Owed(F, x)[i] = p.n
  <2> DEFINE q == CHOOSE r \in F : Owes(r, x, i)
  <2>1. q \in F /\ Owes(q, x, i)
    BY <1>2
  <2>2. q = p
    <3> HIDE DEF q
    <3> QED  BY <1>2, <2>1 DEF Distinct, Owes
  <2> QED  BY Zenon, <1>1, <1>2, <2>2
<1> QED  BY <1>1, <1>2

LEMMA OwedType ==
  ASSUME NEW F, F \subseteq Packets, Distinct(F), NEW x
  PROVE  Owed(F, x) \in [1 .. MaxPackets -> Nat]
<1>1. ASSUME NEW i \in 1 .. MaxPackets PROVE Owed(F, x)[i] \in Nat
  <2>1. \A p \in F : p.n \in Nat
    BY Erc20Assumption DEF Packets, Amounts
  <2>2. CASE \E p \in F : Owes(p, x, i)
    BY <2>1, <2>2, OwedAt
  <2>3. CASE \A p \in F : ~ Owes(p, x, i)
    BY <2>3, OwedAt
  <2> QED  BY <2>2, <2>3
<1>2. Owed(F, x) = [i \in 1 .. MaxPackets |-> Owed(F, x)[i]]
  BY DEF Owed
<1> QED  BY <1>1, <1>2

(* When only the packet with number s changes, the sum changes by what it  *)
(* owed before and owes now.                                               *)
LEMMA OwedChange ==
  ASSUME NEW F, F \subseteq Packets, Distinct(F), NEW G, G \subseteq Packets, Distinct(G),
         NEW s \in 1 .. MaxPackets, \A p \in Packets : p.seq # s => (p \in F <=> p \in G),
         NEW x
  PROVE  /\ SumOf(Owed(F, x), MaxPackets) \in Nat
         /\ SumOf(Owed(G, x), MaxPackets)
              = SumOf(Owed(F, x), MaxPackets) - Owed(F, x)[s] + Owed(G, x)[s]
<1>1. MaxPackets \in Nat
  BY Erc20Assumption
<1>2. /\ Owed(F, x) \in [1 .. MaxPackets -> Nat]
      /\ Owed(G, x) \in [1 .. MaxPackets -> Nat]
  BY OwedType
<1>3. ASSUME NEW i \in 1 .. MaxPackets, i # s PROVE Owed(G, x)[i] = Owed(F, x)[i]
  <2>1. \A p \in Packets : Owes(p, x, i) => (p \in F <=> p \in G)
    BY <1>3 DEF Owes
  <2>2. CASE \E p \in F : Owes(p, x, i)
    <3>1. PICK p \in F : Owes(p, x, i)
      BY <2>2
    <3>2. p \in G
      BY <2>1, <3>1
    <3>3. Owed(F, x)[i] = p.n
      BY <3>1, OwedAt
    <3>4. Owed(G, x)[i] = p.n
      BY <3>1, <3>2, OwedAt
    <3> QED  BY <3>3, <3>4
  <2>3. CASE \A p \in F : ~ Owes(p, x, i)
    <3>1. \A p \in G : ~ Owes(p, x, i)
      BY <2>1, <2>3
    <3> QED  BY <2>3, <3>1, OwedAt
  <2> QED  BY <2>2, <2>3
<1> DEFINE f == Owed(F, x)
           g == Owed(G, x)
<1> HIDE DEF f, g
<1>4. f \in [1 .. MaxPackets -> Nat] /\ g \in [1 .. MaxPackets -> Nat] /\ g[s] \in Nat
  BY <1>2 DEF f, g
<1>5. g = [f EXCEPT ![s] = g[s]]
  BY <1>3, <1>4 DEF f, g
<1>6. SumOf([f EXCEPT ![s] = g[s]], MaxPackets) = SumOf(f, MaxPackets) - f[s] + g[s]
  BY Zenon, <1>1, <1>4, SumOfUpdate
<1>7. SumOf(f, MaxPackets) \in Nat
  BY <1>1, <1>4, SumOfType
<1> QED  BY Zenon, <1>5, <1>6, <1>7 DEF f, g

(* Conversions leave the escrow account alone; a transfer or a refund      *)
(* moves its amount (SendCoins).                                           *)
LEMMA EscrowSend ==
  ASSUME NEW b \in IntBooks, NEW u \in Users, NEW n \in Nat
  PROVE  /\ SendCoins(b, u, Escrow, n) \in IntBooks
         /\ SendCoins(b, u, Escrow, n).coin[Escrow] = b.coin[Escrow] + n
         /\ SendCoins(b, Escrow, u, n) \in IntBooks
         /\ SendCoins(b, Escrow, u, n).coin[Escrow] = b.coin[Escrow] - n
         /\ \A v \in Users \cup {Module} :
              /\ SendCoins(b, u, v, n) \in IntBooks
              /\ SendCoins(b, u, v, n).coin[Escrow] = b.coin[Escrow]
  BY Erc20Assumption DEF IntBooks, SendCoins, Move, Holders

(* A send between users leaves the escrow account alone.                   *)
LEMMA UserSend ==
  ASSUME NEW b \in IntBooks, NEW u \in Users, NEW v \in Users, NEW n
  PROVE  SendCoins(b, u, v, n).coin[Escrow] = b.coin[Escrow]
  BY Erc20Assumption DEF IntBooks, SendCoins, Move, Holders

LEMMA EscrowTokensIn ==
  ASSUME NEW b \in IntBooks, NEW n \in Nat, NEW u \in Users, NEW v \in Users, NEW how \in Outcomes
  PROVE  LET c == convertERC20IntoCoinsForNativeToken(b, n, u, v, how)
         IN  c.book \in IntBooks /\ c.book.coin[Escrow] = b.coin[Escrow]
<1> DEFINE e == CallTransfer(b, v, Module, n, how)
<1>1. e \in IntBooks /\ e.coin = b.coin
  BY Erc20Assumption DEF CallTransfer, MovesTokens, KeepFee, Outcomes, Move, IntBooks, Holders
<1>2. u \in Holders /\ Escrow \in Holders \ {u}
  BY Erc20Assumption DEF Holders
<1> HIDE DEF e
<1>3. MintCoins(e, u, n) \in IntBooks /\ MintCoins(e, u, n).coin[Escrow] = e.coin[Escrow]
  BY <1>1, <1>2, MintLemma
<1> QED  BY <1>1, <1>3 DEF convertERC20IntoCoinsForNativeToken, e

LEMMA EscrowCoinsIn ==
  ASSUME NEW x, NEW b \in IntBooks, NEW n \in Nat, NEW u \in Users, NEW v \in Users, NEW how \in Outcomes
  PROVE  ConvertCoinNativeERC20(x, b, n, u, v, how).book.coin[Escrow] = b.coin[Escrow]
<1> DEFINE s == SendCoins(b, v, Module, n)
           paid == CallTransfer(s, Module, u, n, how)
           burnt == BurnCoins(paid, Module, n)
<1>1. s \in IntBooks /\ s.coin[Escrow] = b.coin[Escrow]
  BY EscrowSend
<1>2. paid \in IntBooks /\ paid.coin = s.coin
  <2> HIDE DEF s
  <2> QED  BY <1>1, Erc20Assumption DEF CallTransfer, MovesTokens, KeepFee, Outcomes, Move, IntBooks, Holders
<1>3. burnt.coin[Escrow] = paid.coin[Escrow]
  <2> HIDE DEF paid
  <2>1. burnt = [coin |-> [paid.coin EXCEPT ![Module] = @ - n], supply |-> paid.supply - n,
                 tok |-> paid.tok]
    BY DEF BurnCoins
  <2>2. burnt.coin = [paid.coin EXCEPT ![Module] = @ - n]
    BY <2>1
  <2>3. Module # Escrow /\ Escrow \in Holders /\ paid.coin \in [Holders -> Int]
    BY <1>2, Erc20Assumption DEF IntBooks, Holders
  <2> QED  BY <2>2, <2>3
<1> HIDE DEF s, paid, burnt
<1>4. paid.coin[Escrow] = b.coin[Escrow] /\ burnt.coin[Escrow] = b.coin[Escrow]
  BY <1>1, <1>2, <1>3
<1>5. ConvertCoinNativeERC20(x, b, n, u, v, how).book \in {b, paid, burnt}
  BY Zenon DEF ConvertCoinNativeERC20, s, paid, burnt
<1> QED  BY <1>4, <1>5

(* A step that leaves the packets, the other chain and the escrow account. *)
LEMMA EscrowKept ==
  ASSUME SInv, IInv', UNCHANGED <<sent, flight, remote>>,
         \A y \in Assets : books'[y].coin[Escrow] = books[y].coin[Escrow]
  PROVE  SInv'
  BY DEF SInv, EscrowExact, Distinct

LEMMA OneBookKept ==
  ASSUME SInv, IInv', UNCHANGED <<sent, flight, remote>>, NEW x \in Assets, NEW c,
         books' = [books EXCEPT ![x] = c], c.coin[Escrow] = books[x].coin[Escrow]
  PROVE  SInv'
<1>1. \A y \in Assets : books'[y].coin[Escrow] = books[y].coin[Escrow]
  BY DEF SInv, IInv
<1> QED  BY <1>1, EscrowKept

(* The numbers of the escrow account are integers.                         *)
LEMMA EscrowTypes ==
  ASSUME SInv, NEW y \in Assets
  PROVE  /\ books[y] \in IntBooks /\ books[y].coin[Escrow] \in Int /\ remote[y] \in Nat
         /\ SumOf(Owed(flight, y), MaxPackets) \in Nat
         /\ books[y].coin[Escrow] = remote[y] + SumOf(Owed(flight, y), MaxPackets)
<1>1. books[y] \in IntBooks /\ remote[y] \in Nat
  BY DEF SInv, IInv
<1>2. books[y].coin[Escrow] \in Int
  BY <1>1 DEF IntBooks, Holders
<1>3. SumOf(Owed(flight, y), MaxPackets) \in Nat
  <2>1. MaxPackets \in Nat /\ Owed(flight, y) \in [1 .. MaxPackets -> Nat]
    BY OwedType, Erc20Assumption DEF SInv, IInv
  <2> QED  BY <2>1, SumOfType
<1>4. books[y].coin[Escrow] = remote[y] + SumOf(Owed(flight, y), MaxPackets)
  BY DEF SInv, EscrowExact
<1> QED  BY <1>1, <1>2, <1>3, <1>4

LEMMA EscrowConvert ==
  ASSUME SInv, IInv', NEW x \in Assets, NEW n \in Amounts, NEW to \in Users, NEW from \in Users,
         NEW how \in Outcomes, NEW sendable \in BOOLEAN,
         \/ ConvertERC20(x, n, to, from, how, sendable)
         \/ ConvertCoin(x, n, to, from, how, sendable)
  PROVE  SInv'
<1>1. n \in Nat /\ books[x] \in IntBooks
  BY Erc20Assumption, EscrowTypes DEF Amounts
<1>2. UNCHANGED <<sent, flight, remote>>
  BY DEF ConvertERC20, ConvertCoin, DeleteTokenPair, ibc
<1> DEFINE c == convertERC20IntoCoinsForNativeToken(books[x], n, to, from, how)
           d == ConvertCoinNativeERC20(x, books[x], n, to, from, how)
<1>3. CASE books' = books
  BY <1>2, <1>3, EscrowKept
<1>4. CASE books' = [books EXCEPT ![x] = c.book]
  <2>1. c.book.coin[Escrow] = books[x].coin[Escrow]
    BY <1>1, EscrowTokensIn
  <2> HIDE DEF c
  <2> QED  BY Zenon, <1>2, <1>4, <2>1, OneBookKept
<1>5. CASE books' = [books EXCEPT ![x] = d.book]
  <2>1. d.book.coin[Escrow] = books[x].coin[Escrow]
    BY <1>1, EscrowCoinsIn
  <2> HIDE DEF d
  <2> QED  BY Zenon, <1>2, <1>5, <2>1, OneBookKept
<1> HIDE DEF c, d
<1> QED  BY <1>3, <1>4, <1>5 DEF ConvertERC20, ConvertCoin, DeleteTokenPair, c, d

(* A new packet takes the next number; its amount is escrowed.             *)
LEMMA EscrowTransfer ==
  ASSUME SInv, IInv', NEW x \in Assets, NEW n \in Amounts, NEW from \in Users,
         NEW how \in Outcomes, NEW sendable \in BOOLEAN,
         Transfer(x, n, from, how, sendable)
  PROVE  SInv'
<1> DEFINE b == books[x]
           short == n - b.coin[from]
           c == convertERC20IntoCoinsForNativeToken(b, short, from, from, how)
           b1 == IF short <= 0 THEN b ELSE c.book
           p == [asset |-> x, from |-> from, n |-> n, seq |-> sent + 1, status |-> "sent"]
           s == sent + 1
<1>1. n \in Nat /\ b \in IntBooks /\ from \in Holders /\ b.coin[from] \in Int
  <2>1. n \in Nat /\ from \in Holders
    BY Erc20Assumption DEF Amounts, Holders
  <2>2. b \in IntBooks
    BY EscrowTypes
  <2> HIDE DEF b
  <2> QED  BY <2>1, <2>2 DEF IntBooks
<1>2. /\ sent < MaxPackets /\ sent' = sent + 1 /\ remote' = remote
      /\ books' = [books EXCEPT ![x] = SendCoins(b1, from, Escrow, n)]
      /\ flight' = flight \cup {p}
  BY SMTT(30) DEF Transfer
<1>3. b1 \in IntBooks /\ b1.coin[Escrow] = b.coin[Escrow]
  <2>1. CASE short <= 0
    BY <1>1, <2>1
  <2>2. CASE ~(short <= 0)
    <3>1. short \in Nat
      BY <1>1, <2>2
    <3> HIDE DEF b, short
    <3>2. c.book \in IntBooks /\ c.book.coin[Escrow] = b.coin[Escrow]
      BY <1>1, <3>1, EscrowTokensIn
    <3> QED  BY <2>2, <3>2
  <2> QED  BY <2>1, <2>2
<1> HIDE DEF b1
<1>4. SendCoins(b1, from, Escrow, n).coin[Escrow] = b.coin[Escrow] + n
  BY <1>1, <1>3, EscrowSend
<1>5. /\ sent \in Nat /\ s \in 1 .. MaxPackets /\ flight \subseteq Packets
      /\ flight' \subseteq Packets /\ Distinct(flight) /\ \A q \in flight : q.seq <= sent
  BY <1>2, Erc20Assumption DEF SInv, IInv
<1>6. p.seq = s /\ p.asset = x /\ p.n = n /\ p.status = "sent"
  OBVIOUS
<1>7. \A q \in flight : q.seq \in Nat /\ q.seq < s
  BY <1>5 DEF Packets
<1> HIDE DEF p
<1>8. Distinct(flight')
  BY <1>2, <1>5, <1>6, <1>7 DEF Distinct
<1>9. \A q \in flight' : q.seq <= sent'
  BY <1>2, <1>5, <1>6, <1>7
<1>10. \A q \in Packets : q.seq # s => (q \in flight <=> q \in flight')
  BY <1>2, <1>6
<1>11. ASSUME NEW y \in Assets
       PROVE  books'[y].coin[Escrow] = remote'[y] + SumOf(Owed(flight', y), MaxPackets)
  <2> DEFINE old == SumOf(Owed(flight, y), MaxPackets)
             new == SumOf(Owed(flight', y), MaxPackets)
  <2>1. new = old - Owed(flight, y)[s] + Owed(flight', y)[s]
    BY <1>5, <1>8, <1>10, OwedChange
  <2>2. Owed(flight, y)[s] = 0
    <3>1. \A q \in flight : ~ Owes(q, y, s)
      BY <1>5, <1>7 DEF Owes
    <3> QED  BY <1>5, <3>1, OwedAt
  <2>3. /\ old \in Nat /\ remote[y] \in Nat /\ books[y].coin[Escrow] \in Int
        /\ books[y].coin[Escrow] = remote[y] + old
    BY EscrowTypes
  <2> HIDE DEF old, new
  <2>4. CASE y = x
    <3>1. Owes(p, y, s) /\ p \in flight'
      BY <1>2, <1>6, <2>4 DEF Owes
    <3>2. Owed(flight', y)[s] = n
      BY <1>5, <1>6, <1>8, <3>1, OwedAt
    <3>3. books'[y].coin[Escrow] = books[y].coin[Escrow] + n
      BY SMTT(30), <1>2, <1>4, <2>4 DEF SInv, IInv
    <3>4. books'[y].coin[Escrow] = remote'[y] + new
      BY <1>1, <1>2, <2>1, <2>2, <2>3, <3>2, <3>3
    <3> QED  BY <3>4 DEF new
  <2>5. CASE y # x
    <3>1. \A q \in flight' : ~ Owes(q, y, s)
      BY <1>2, <1>5, <1>6, <1>7, <2>5 DEF Owes
    <3>2. Owed(flight', y)[s] = 0
      BY <1>5, <1>8, <3>1, OwedAt
    <3>3. books'[y] = books[y]
      BY SMTT(30), <1>2, <2>5 DEF SInv, IInv
    <3>4. books'[y].coin[Escrow] = remote'[y] + new
      BY SMTT(30), <1>2, <2>1, <2>2, <2>3, <3>2, <3>3
    <3> QED  BY <3>4 DEF new
  <2> QED  BY <2>4, <2>5
<1>12. EscrowExact'
  BY Zenon, <1>11 DEF EscrowExact
<1>13. sent' <= MaxPackets /\ remote' \in [Assets -> Nat]
  BY <1>2, <1>5 DEF SInv
<1> QED  BY <1>8, <1>9, <1>12, <1>13 DEF SInv

(* A step that changes one packet under way keeps the sum when the escrow  *)
(* account and the other chain change by what the packet owed and owes.    *)
LEMMA PacketStep ==
  ASSUME SInv, IInv', sent' = sent, remote' \in [Assets -> Nat],
         Distinct(flight'), \A q \in flight' : q.seq <= sent, NEW s \in 1 .. MaxPackets,
         \A q \in Packets : q.seq # s => (q \in flight <=> q \in flight'),
         \A y \in Assets : books'[y].coin[Escrow] - remote'[y]
           = books[y].coin[Escrow] - remote[y] - Owed(flight, y)[s] + Owed(flight', y)[s]
  PROVE  SInv'
<1>1. /\ MaxPackets \in Nat /\ flight \subseteq Packets /\ flight' \subseteq Packets
      /\ Distinct(flight)
  BY Erc20Assumption DEF SInv, IInv
<1>2. ASSUME NEW y \in Assets
      PROVE  books'[y].coin[Escrow] = remote'[y] + SumOf(Owed(flight', y), MaxPackets)
  <2> DEFINE old == SumOf(Owed(flight, y), MaxPackets)
             new == SumOf(Owed(flight', y), MaxPackets)
             was == Owed(flight, y)[s]
             is == Owed(flight', y)[s]
             c == books'[y].coin[Escrow]
  <2>1. new = old - was + is
    BY <1>1, OwedChange
  <2>2. was \in Nat /\ is \in Nat
    BY <1>1, OwedType
  <2>3. /\ old \in Nat /\ remote[y] \in Nat /\ books[y].coin[Escrow] \in Int
        /\ books[y].coin[Escrow] = remote[y] + old
    BY EscrowTypes
  <2>4. c \in Int /\ remote'[y] \in Nat
    BY DEF IInv, IntBooks, Holders
  <2>5. c - remote'[y] = books[y].coin[Escrow] - remote[y] - was + is
    OBVIOUS
  <2> HIDE DEF old, new, was, is, c
  <2>6. c = remote'[y] + new
    BY <2>1, <2>2, <2>3, <2>4, <2>5
  <2> QED  BY <2>6 DEF c, new
<1>3. EscrowExact'
  BY <1>2 DEF EscrowExact
<1> QED  BY <1>3 DEF SInv

(* A packet under way is the only one with its number.                     *)
LEMMA InFlight ==
  ASSUME SInv, NEW p \in flight
  PROVE  /\ p \in Packets /\ p.asset \in Assets /\ p.from \in Users /\ p.n \in Nat
         /\ p.seq \in 1 .. MaxPackets /\ p.seq <= sent
         /\ \A q \in flight : q.seq = p.seq => q = p
         /\ \A y \in Assets : Owed(flight, y)[p.seq]
              = IF p.asset = y /\ p.status # "received" THEN p.n ELSE 0
<1>1. /\ p \in Packets /\ p.asset \in Assets /\ p.from \in Users /\ p.n \in Nat
      /\ p.seq \in 1 .. MaxPackets /\ p.seq <= sent
  BY Erc20Assumption DEF SInv, IInv, Packets, Amounts
<1>2. Distinct(flight) /\ \A q \in flight : q.seq = p.seq => q = p
  BY DEF SInv, Distinct
<1>3. ASSUME NEW y \in Assets
      PROVE  Owed(flight, y)[p.seq] = IF p.asset = y /\ p.status # "received" THEN p.n ELSE 0
  <2>1. CASE Owes(p, y, p.seq)
    BY <1>1, <1>2, <2>1, OwedAt DEF Owes
  <2>2. CASE ~ Owes(p, y, p.seq)
    <3>1. \A q \in flight : ~ Owes(q, y, p.seq)
      BY <1>2, <2>2 DEF Owes
    <3>2. Owed(flight, y)[p.seq] = 0
      BY SMTT(30), <1>1, <1>2, <3>1, OwedAt
    <3> QED  BY <2>2, <3>2 DEF Owes
  <2> QED  BY <2>1, <2>2
<1> QED  BY <1>1, <1>2, <1>3

(* A packet that is answered for leaves: it owes nothing any more.         *)
LEMMA EscrowAnswered ==
  ASSUME SInv, IInv', NEW p \in flight, NEW how \in Outcomes,
         OnAcknowledgementPacket(p, how) \/ OnTimeoutPacket(p, how)
  PROVE  SInv'
<1> DEFINE x == p.asset
           b == SendCoins(books[x], Escrow, p.from, p.n)
           c == ConvertCoinToERC20FromPacket(x, b, p.n, p.from, how)
           d == ConvertCoinNativeERC20(x, b, p.n, p.from, p.from, how).book
<1>1. /\ flight' = flight \ {p} /\ sent' = sent /\ remote' = remote
      /\ \/ p.status # "received" /\ books' = [books EXCEPT ![x] = c]
         \/ p.status = "received" /\ books' = books
  <2>1. p.status \in {"sent", "received", "refused"}
    BY InFlight DEF Packets
  <2> HIDE DEF c
  <2> QED  BY <2>1 DEF OnAcknowledgementPacket, OnTimeoutPacket, Refund, c
<1>2. /\ p \in Packets /\ x \in Assets /\ p.from \in Users /\ p.n \in Nat
      /\ p.seq \in 1 .. MaxPackets /\ \A q \in flight : q.seq = p.seq => q = p
  BY InFlight
<1>3. books[x] \in IntBooks /\ books[x].coin[Escrow] \in Int
  BY <1>2, EscrowTypes
<1>4. b \in IntBooks /\ b.coin[Escrow] = books[x].coin[Escrow] - p.n
  <2> HIDE DEF x
  <2> QED  BY Zenon, <1>2, <1>3, EscrowSend
<1>5. c.coin[Escrow] = books[x].coin[Escrow] - p.n
  <2> HIDE DEF b
  <2>1. d.coin[Escrow] = b.coin[Escrow]
    BY <1>2, <1>4, EscrowCoinsIn
  <2>2. c \in {b, d}
    BY Zenon DEF ConvertCoinToERC20FromPacket, c, d
  <2> HIDE DEF c, d
  <2> QED  BY <1>4, <2>1, <2>2
<1> HIDE DEF c
<1>6. /\ Distinct(flight') /\ \A q \in flight' : q.seq <= sent
      /\ \A q \in Packets : q.seq # p.seq => (q \in flight <=> q \in flight')
  BY <1>1 DEF SInv, Distinct
<1>7. ASSUME NEW y \in Assets
      PROVE  books'[y].coin[Escrow] - remote'[y]
        = books[y].coin[Escrow] - remote[y] - Owed(flight, y)[p.seq] + Owed(flight', y)[p.seq]
  <2>1. \A q \in flight' : ~ Owes(q, y, p.seq)
    BY <1>1, <1>2 DEF Owes
  <2>2. Owed(flight', y)[p.seq] = 0
    BY <1>2, <1>6, <2>1, OwedAt
  <2>3. Owed(flight, y)[p.seq] = IF x = y /\ p.status # "received" THEN p.n ELSE 0
    BY InFlight
  <2>4. books[y].coin[Escrow] \in Int /\ remote[y] \in Nat
    BY EscrowTypes
  <2>5. books'[y].coin[Escrow] = books[y].coin[Escrow]
                                   - (IF x = y /\ p.status # "received" THEN p.n ELSE 0)
    <3>1. books \in [Assets -> IntBooks]
      BY DEF SInv, IInv
    <3> HIDE DEF x
    <3> QED  BY <1>1, <1>2, <1>5, <2>4, <3>1
  <2> HIDE DEF x
  <2> QED  BY <1>1, <1>2, <2>2, <2>3, <2>4, <2>5
<1>8. remote' \in [Assets -> Nat]
  BY <1>1 DEF SInv
<1> QED  BY ZenonT(30), <1>1, <1>2, <1>6, <1>7, <1>8, PacketStep

(* The other chain answers: what it received is its own from then on.      *)
LEMMA EscrowCounterparty ==
  ASSUME SInv, IInv', NEW p \in flight, NEW answer \in {"received", "refused"},
         CounterpartyAnswers(p, answer)
  PROVE  SInv'
<1> DEFINE q == [p EXCEPT !.status = answer]
<1>1. /\ p.status = "sent" /\ flight' = (flight \ {p}) \cup {q} /\ sent' = sent /\ books' = books
      /\ remote' = IF answer = "received" THEN [remote EXCEPT ![p.asset] = @ + p.n] ELSE remote
  BY DEF CounterpartyAnswers
<1>2. /\ p \in Packets /\ p.asset \in Assets /\ p.n \in Nat /\ p.seq \in 1 .. MaxPackets
      /\ p.seq <= sent /\ \A r \in flight : r.seq = p.seq => r = p
  BY InFlight
<1>3. q.seq = p.seq /\ q.asset = p.asset /\ q.n = p.n /\ q.status = answer /\ q \in Packets
  BY <1>2 DEF Packets
<1> HIDE DEF q
<1>4. Distinct(flight') /\ \A r \in flight' : r.seq <= sent
  BY <1>1, <1>2, <1>3 DEF SInv, Distinct
<1>5. \A r \in Packets : r.seq # p.seq => (r \in flight <=> r \in flight')
  BY <1>1, <1>3
<1>6. remote \in [Assets -> Nat] /\ remote' \in [Assets -> Nat]
  BY <1>1, <1>2 DEF SInv
<1>7. ASSUME NEW y \in Assets
      PROVE  books'[y].coin[Escrow] - remote'[y]
        = books[y].coin[Escrow] - remote[y] - Owed(flight, y)[p.seq] + Owed(flight', y)[p.seq]
  <2>1. Owed(flight, y)[p.seq] = IF p.asset = y THEN p.n ELSE 0
    BY <1>1, InFlight
  <2>2. Owed(flight', y)[p.seq] = IF p.asset = y /\ answer = "refused" THEN p.n ELSE 0
    <3>1. CASE p.asset = y /\ answer = "refused"
      <4>1. q \in flight' /\ Owes(q, y, p.seq)
        BY <1>1, <1>3, <3>1 DEF Owes
      <4> QED  BY <1>2, <1>3, <1>4, <3>1, <4>1, OwedAt
    <3>2. CASE ~(p.asset = y /\ answer = "refused")
      <4>1. \A r \in flight' : ~ Owes(r, y, p.seq)
        BY <1>1, <1>2, <1>3, <3>2 DEF Owes
      <4>2. Owed(flight', y)[p.seq] = 0
        BY <1>2, <1>4, <4>1, OwedAt
      <4> QED  BY <3>2, <4>2
    <3> QED  BY <3>1, <3>2
  <2>3. books[y].coin[Escrow] \in Int /\ remote[y] \in Nat
    BY EscrowTypes
  <2>4. remote'[y] = remote[y] + (IF p.asset = y /\ answer = "received" THEN p.n ELSE 0)
    BY <1>1, <1>2, <1>6, <2>3
  <2> QED  BY <1>1, <1>2, <2>1, <2>2, <2>3, <2>4
<1> QED  BY ZenonT(30), <1>1, <1>2, <1>4, <1>5, <1>6, <1>7, PacketStep

(* Coins that come back leave the escrow account and the other chain.      *)
LEMMA EscrowReceive ==
  ASSUME SInv, IInv', NEW x \in Assets, NEW n \in Amounts, NEW to \in Users,
         NEW how \in Outcomes, NEW sendable \in BOOLEAN, NEW v2 \in BOOLEAN,
         OnRecvPacket(x, n, to, how, sendable, v2)
  PROVE  SInv'
<1> DEFINE b == SendCoins(books[x], Escrow, to, n)
           d == ConvertCoinNativeERC20(x, b, n, to, to, how).book
           c == IF ~enabled \/ pair[x] # "on" THEN [err |-> FALSE, book |-> b]
                ELSE IF ~MintingEnabled(x, to, sendable) THEN [err |-> TRUE, book |-> b]
                ELSE ConvertCoinNativeERC20(x, b, n, to, to, how)
           e == c.book
<1>1. /\ n \in Nat /\ books[x] \in IntBooks /\ books[x].coin[Escrow] \in Int
  BY SMTT(30), Erc20Assumption, EscrowTypes DEF Amounts
<1>2. /\ books' = [books EXCEPT ![x] = e] /\ remote[x] >= n
      /\ remote' = [remote EXCEPT ![x] = @ - n] /\ sent' = sent /\ flight' = flight
  BY ZenonT(30) DEF OnRecvPacket
<1>3. b \in IntBooks /\ b.coin[Escrow] = books[x].coin[Escrow] - n
  BY <1>1, EscrowSend
<1> HIDE DEF b
<1>4. d.coin[Escrow] = b.coin[Escrow]
  BY <1>1, <1>3, EscrowCoinsIn
<1>5. e \in {b, d}
  OBVIOUS
<1> HIDE DEF d, c, e
<1>6. e.coin[Escrow] = books[x].coin[Escrow] - n
  BY <1>3, <1>4, <1>5
<1>7. remote \in [Assets -> Nat] /\ remote' \in [Assets -> Nat]
  BY SMTT(30), <1>1, <1>2 DEF SInv
<1>8. ASSUME NEW y \in Assets
      PROVE  books'[y].coin[Escrow] = remote'[y] + SumOf(Owed(flight', y), MaxPackets)
  <2> DEFINE old == SumOf(Owed(flight, y), MaxPackets)
  <2>1. /\ old \in Nat /\ remote[y] \in Nat /\ books[y].coin[Escrow] \in Int
        /\ books[y].coin[Escrow] = remote[y] + old
    BY EscrowTypes
  <2> HIDE DEF old
  <2>2. books'[y].coin[Escrow] = remote'[y] + old
    <3>1. CASE y = x
      BY SMTT(30), <1>1, <1>2, <1>6, <1>7, <2>1, <3>1 DEF SInv, IInv
    <3>2. CASE y # x
      BY <1>2, <1>7, <2>1, <3>2 DEF SInv, IInv
    <3> QED  BY SMTT(30), <3>1, <3>2
  <2> QED  BY SMTT(30), <1>2, <2>2 DEF old
<1>9. EscrowExact'
  BY <1>8 DEF EscrowExact
<1> QED  BY SMTT(30), <1>2, <1>7, <1>9 DEF SInv, Distinct

LEMMA InitEscrow == Init => SInv
<1> SUFFICES ASSUME Init PROVE SInv
  OBVIOUS
<1>1. IInv
  BY InitInv
<1>2. /\ sent = 0 /\ flight = {} /\ remote = [x \in Assets |-> 0] /\ MaxPackets \in Nat
  BY Erc20Assumption DEF Init
<1>3. Distinct(flight) /\ \A p \in flight : p.seq <= sent
  BY <1>2 DEF Distinct
<1>4. ASSUME NEW x \in Assets
      PROVE  books[x].coin[Escrow] = remote[x] + SumOf(Owed(flight, x), MaxPackets)
  <2>1. \A i \in 1 .. MaxPackets : Owed(flight, x)[i] = 0
    BY <1>2 DEF Owed
  <2>2. Owed(flight, x) \in [1 .. MaxPackets -> Nat]
    BY <1>2, <1>3, OwedType
  <2>3. SumOf(Owed(flight, x), MaxPackets) = 0
    BY <1>2, <2>1, <2>2, SumOfZeros
  <2>4. books[x].coin[Escrow] = 0
    BY DEF Init, Zero, Holders
  <2> QED  BY <1>2, <2>3, <2>4
<1> QED  BY <1>1, <1>2, <1>3, <1>4 DEF SInv, EscrowExact

LEMMA NextEscrow == SInv /\ [Next]_vars => SInv'
<1> SUFFICES ASSUME SInv, [Next]_vars PROVE SInv'
  OBVIOUS
<1>1. IInv'
  BY NextInv DEF SInv
<1>2. CASE UNCHANGED vars
  BY <1>1, <1>2, EscrowKept DEF vars, ibc
<1>3. CASE UpdateParams
  BY <1>1, <1>3, EscrowKept DEF UpdateParams, ibc
<1>4. ASSUME NEW x \in Assets, RegisterERC20(x) \/ ToggleConversion(x) \/ ChangeCode(x) PROVE SInv'
  BY <1>1, <1>4, EscrowKept DEF RegisterERC20, ToggleConversion, ChangeCode, ibc
<1>5. ASSUME NEW x \in Assets, NEW from \in Users, NEW to \in Users, NEW n \in Amounts,
             BankSend(x, from, to, n)
      PROVE  SInv'
  <2> DEFINE c == SendCoins(books[x], from, to, n)
  <2>1. books[x] \in IntBooks
    BY EscrowTypes
  <2>2. c.coin[Escrow] = books[x].coin[Escrow]
    BY <2>1, UserSend
  <2>3. books' = [books EXCEPT ![x] = c] /\ UNCHANGED <<sent, flight, remote>>
    BY <1>5 DEF BankSend, ibc
  <2> HIDE DEF c
  <2> QED  BY Zenon, <1>1, <2>2, <2>3, OneBookKept
<1>6. ASSUME NEW x \in Assets, NEW from \in Users, NEW to \in Users \cup {Module},
             NEW n \in Amounts, TokenSend(x, from, to, n)
      PROVE  SInv'
  <2> DEFINE c == CallTransfer(books[x], from, to, n, "ok")
  <2>1. c.coin[Escrow] = books[x].coin[Escrow]
    BY DEF CallTransfer, MovesTokens
  <2>2. books' = [books EXCEPT ![x] = c] /\ UNCHANGED <<sent, flight, remote>>
    BY <1>6 DEF TokenSend, ibc
  <2> HIDE DEF c
  <2> QED  BY Zenon, <1>1, <2>1, <2>2, OneBookKept
<1> QED
  BY <1>1, <1>2, <1>3, <1>4, <1>5, <1>6, EscrowConvert, EscrowTransfer, EscrowAnswered,
     EscrowCounterparty, EscrowReceive DEF Next

(* For any contracts, users, amounts and packets: the escrow account holds *)
(* exactly what the other chain has and what packets under way have taken  *)
(* and not been answered for, so that no refund or return finds it short.  *)
THEOREM EscrowIsExact == Spec => []EscrowExact
<1>1. SInv => EscrowExact
  BY DEF SInv
<1> QED  BY <1>1, InitEscrow, NextEscrow, PTL DEF Spec
=============================================================================
