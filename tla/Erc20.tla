------------------------------- MODULE Erc20 -------------------------------
(***************************************************************************)
(* x/erc20 with the ICS20 transfer application around it: the pairs of     *)
(* ERC-20 contracts and coins, conversions between the two, and transfers  *)
(* over IBC that convert on the way out and on the way back in.            *)
(*                                                                         *)
(* An asset is a contract and the coin whose denomination is made from its *)
(* address (types.CreateDenom).  The pairs of IBC vouchers, whose contract *)
(* is a precompile on the coin itself, convert nothing and have no part    *)
(* here.  The bank, ICS20 and the contract are external.  A message        *)
(* that returns an error is undone by the SDK and is no step; where the    *)
(* code goes on after an error the step keeps what was done before it.     *)
(***************************************************************************)
EXTENDS Integers, FiniteSetsExt, Sums

CONSTANTS
  Assets,      \* ERC-20 contracts, each with the coin of its pair
  Users,       \* accounts
  Module,      \* the account of x/erc20, a blocked address
  Escrow,      \* the escrow account of the IBC channel
  Tokens,      \* tokens a user holds at first
  MaxAmount,   \* bound on the amount of a call
  MaxPackets   \* bound on the number of packets sent

Holders == Users \cup {Module, Escrow}
Amounts == 1 .. MaxAmount

ASSUME Erc20Assumption ==
  /\ Module # Escrow /\ {Module, Escrow} \cap Users = {}
  /\ MaxAmount \in Nat /\ MaxPackets \in Nat /\ Tokens \in Nat

VARIABLES
  enabled,  \* parameter EnableErc20
  pair,     \* the token pair of an asset: "none", "on" or "off"
  meta,     \* assets with denom metadata in x/bank
  code,     \* contracts that have code
  books,    \* coins and their supply, and tokens, of every asset
  sent, flight,    \* number of packets sent, packets not yet acknowledged
  remote           \* coins that circulate on the other chain

ibc == <<sent, flight, remote>>
vars == <<enabled, pair, meta, code, books, ibc>>

Zero == [h \in Holders |-> 0]

Init ==
  /\ enabled = TRUE /\ pair = [x \in Assets |-> "none"]
  /\ meta = {} /\ code = [x \in Assets |-> TRUE]
  /\ books = [x \in Assets |->
       [coin |-> Zero, supply |-> 0,
        tok |-> [h \in Holders |-> IF h \in Users THEN Tokens ELSE 0]]]
  /\ sent = 0 /\ flight = {} /\ remote = [x \in Assets |-> 0]

-----------------------------------------------------------------------------
(* Ledgers                                                                 *)

Move(f, from, to, n) == [f EXCEPT ![from] = @ - n, ![to] = @ + n]
SendCoins(b, from, to, n) == [b EXCEPT !.coin = Move(@, from, to, n)]
MintCoins(b, to, n) ==
  [coin |-> [b.coin EXCEPT ![to] = @ + n], supply |-> b.supply + n, tok |-> b.tok]
BurnCoins(b, from, n) ==
  [coin |-> [b.coin EXCEPT ![from] = @ - n], supply |-> b.supply - n, tok |-> b.tok]

(* What a call of the contract's transfer does: it moves the amount, keeps *)
(* one token of it as a fee, returns false, or reverts.                    *)
Outcomes == {"ok", "fee", "false", "revert"}
MovesTokens(how) == how \in {"ok", "fee"}
KeepFee(f, to, how) == [f EXCEPT ![to] = IF how = "fee" THEN @ - 1 ELSE @]
CallTransfer(b, from, to, n, how) ==
  IF MovesTokens(how)
  THEN [coin |-> b.coin, supply |-> b.supply,
        tok |-> KeepFee(Move(b.tok, from, to, n), to, how)]
  ELSE b
CanCall(b, from, n, how) == MovesTokens(how) => b.tok[from] >= n

-----------------------------------------------------------------------------
(* Conversions                                                             *)

(* Whether x/bank lets the coin be sent is the parameter sendable.         *)
MintingEnabled(x, receiver, sendable) ==
  enabled /\ pair[x] = "on" /\ receiver \in Users /\ sendable

(* Mutant: the balance of the module account is not checked                *)
MutConvertERC20(b, n, receiver, sender, how) ==
  [err  |-> ~MovesTokens(how),
   book |-> MintCoins(CallTransfer(b, sender, Module, n, how), receiver, n)]
(* Tokens in, coins out; every failure is an error of the message.         *)
convertERC20IntoCoinsForNativeToken(b, n, receiver, sender, how) ==
  LET escrowed == CallTransfer(b, sender, Module, n, how)
  IN  [err  |-> ~MovesTokens(how) \/ escrowed.tok[Module] # b.tok[Module] + n,
       book |-> MintCoins(escrowed, receiver, n)]

(* Mutant: the coins are burned without being escrowed first              *)
MutConvertCoinNativeERC20(x, b, n, receiver, sender, how) ==
  IF ~code[x] THEN [err |-> TRUE, book |-> b]
  ELSE LET paid == CallTransfer(b, Module, receiver, n, how)
       IN  IF MovesTokens(how) THEN [err |-> FALSE, book |-> BurnCoins(paid, Module, n)]
           ELSE [err |-> TRUE, book |-> paid]
(* Coins in, tokens out.  "book" is what is left in the stores also when   *)
(* an error is returned: the coins are moved before the contract is called *)
(* and burned after the receiver's balance is checked.                     *)
ConvertCoinNativeERC20(x, b, n, receiver, sender, how) ==
  IF ~code[x] \/ b.coin[sender] < n THEN [err |-> TRUE, book |-> b]
  ELSE LET paid == CallTransfer(SendCoins(b, sender, Module, n), Module, receiver, n, how)
       IN  IF MovesTokens(how) /\ paid.tok[receiver] = b.tok[receiver] + n
           THEN [err |-> FALSE, book |-> BurnCoins(paid, Module, n)]
           ELSE [err |-> TRUE, book |-> paid]

(* The pair of a contract without code is deleted, with its allowances     *)
(* (the store holds none of a contract) but not its metadata in x/bank.    *)
DeleteTokenPair(x) ==
  /\ pair' = [pair EXCEPT ![x] = "none"]
  /\ UNCHANGED <<enabled, meta, code, books, ibc>>

ConvertERC20(x, n, receiver, sender, how, sendable) ==
  /\ MintingEnabled(x, receiver, sendable)
  /\ \/ ~code[x] /\ DeleteTokenPair(x)
     \/ /\ code[x] /\ CanCall(books[x], sender, n, how)
        /\ LET c == convertERC20IntoCoinsForNativeToken(books[x], n, receiver, sender, how)
           IN  ~c.err /\ books' = [books EXCEPT ![x] = c.book]
        /\ UNCHANGED <<enabled, pair, meta, code, ibc>>

ConvertCoin(x, n, receiver, sender, how, sendable) ==
  /\ MintingEnabled(x, receiver, sendable)
  /\ \/ ~code[x] /\ DeleteTokenPair(x)
     \/ /\ code[x] /\ CanCall(books[x], Module, n, how)
        /\ LET c == ConvertCoinNativeERC20(x, books[x], n, receiver, sender, how)
           IN  ~c.err /\ books' = [books EXCEPT ![x] = c.book]
        /\ UNCHANGED <<enabled, pair, meta, code, ibc>>

-----------------------------------------------------------------------------
(* Registration and parameters.  Who may register (the authority, or every *)
(* account while PermissionlessRegistration is set) is left open.          *)

CreateCoinMetadata(x) == code[x] /\ x \notin meta
(* Mutant: metadata that exists is overwritten                             *)
MutRegisterERC20(x) ==
  /\ enabled /\ pair[x] = "none" /\ code[x]
  /\ meta' = meta \cup {x} /\ pair' = [pair EXCEPT ![x] = "on"]
  /\ UNCHANGED <<enabled, code, books, ibc>>
RegisterERC20(x) ==
  /\ enabled /\ pair[x] = "none" /\ CreateCoinMetadata(x)
  /\ meta' = meta \cup {x} /\ pair' = [pair EXCEPT ![x] = "on"]
  /\ UNCHANGED <<enabled, code, books, ibc>>

ToggleConversion(x) ==
  /\ enabled /\ pair[x] # "none"
  /\ pair' = [pair EXCEPT ![x] = IF @ = "on" THEN "off" ELSE "on"]
  /\ UNCHANGED <<enabled, meta, code, books, ibc>>

UpdateParams ==
  /\ enabled' = ~enabled
  /\ UNCHANGED <<pair, meta, code, books, ibc>>

-----------------------------------------------------------------------------
(* IBC transfers                                                           *)

Packets == [asset : Assets, from : Users, n : Amounts, seq : 1 .. MaxPackets,
            status : {"sent", "received", "refused"}]

(* The message takes coins where it can and converts the rest.             *)
Transfer(x, n, from, how, sendable) ==
  LET b == books[x]
      short == n - b.coin[from]
      c == convertERC20IntoCoinsForNativeToken(b, short, from, from, how)
      b1 == IF short <= 0 THEN b ELSE c.book
  IN  /\ sent < MaxPackets
      /\ short > 0 => /\ MintingEnabled(x, from, sendable) /\ code[x]
                      /\ CanCall(b, from, short, how) /\ ~c.err
      /\ books' = [books EXCEPT ![x] = SendCoins(b1, from, Escrow, n)]
      /\ sent' = sent + 1
      /\ flight' = flight \cup
           {[asset |-> x, from |-> from, n |-> n, seq |-> sent + 1, status |-> "sent"]}
      /\ UNCHANGED <<enabled, pair, meta, code, remote>>

(* The other chain receives the packet, or answers with an error.          *)
CounterpartyAnswers(p, answer) ==
  /\ p.status = "sent"
  /\ flight' = (flight \ {p}) \cup {[p EXCEPT !.status = answer]}
  /\ remote' = IF answer = "received" THEN [remote EXCEPT ![p.asset] = @ + p.n] ELSE remote
  /\ UNCHANGED <<enabled, pair, meta, code, books, sent>>

(* The refunded coins are converted back; an error of the conversion is    *)
(* dropped, and with it nothing that was done before the error.            *)
ConvertCoinToERC20FromPacket(x, b, n, sender, how) ==
  IF pair[x] = "none" \/ ~enabled THEN b
  ELSE ConvertCoinNativeERC20(x, b, n, sender, sender, how).book

Refund(p, how) ==
  LET b == SendCoins(books[p.asset], Escrow, p.from, p.n)
  IN  /\ CanCall(b, Module, p.n, how)
      /\ books' = [books EXCEPT ![p.asset] =
           ConvertCoinToERC20FromPacket(p.asset, b, p.n, p.from, how)]

(* Mutant: every acknowledgement refunds                                   *)
MutOnAcknowledgementPacket(p, how) ==
  /\ p.status # "sent" /\ Refund(p, how)
  /\ flight' = flight \ {p}
  /\ UNCHANGED <<enabled, pair, meta, code, sent, remote>>
OnAcknowledgementPacket(p, how) ==
  /\ p.status # "sent"
  /\ IF p.status = "refused" THEN Refund(p, how) ELSE UNCHANGED books
  /\ flight' = flight \ {p}
  /\ UNCHANGED <<enabled, pair, meta, code, sent, remote>>

OnTimeoutPacket(p, how) ==
  /\ p.status = "sent" /\ Refund(p, how)
  /\ flight' = flight \ {p}
  /\ UNCHANGED <<enabled, pair, meta, code, sent, remote>>

(* Coins come back from the other chain.  IBC classic undoes a receive     *)
(* whose acknowledgement is an error; the v2 middleware drops the error,   *)
(* and what was done before it stays.                                      *)
OnRecvPacket(x, n, to, how, sendable, v2) ==
  LET b == SendCoins(books[x], Escrow, to, n)
      c == IF ~enabled \/ pair[x] # "on" THEN [err |-> FALSE, book |-> b]
           ELSE IF ~MintingEnabled(x, to, sendable) THEN [err |-> TRUE, book |-> b]
           ELSE ConvertCoinNativeERC20(x, b, n, to, to, how)
  IN  /\ remote[x] >= n /\ CanCall(b, Module, n, how)
      /\ ~c.err \/ v2
      /\ books' = [books EXCEPT ![x] = c.book]
      /\ remote' = [remote EXCEPT ![x] = @ - n]
      /\ UNCHANGED <<enabled, pair, meta, code, sent, flight>>

-----------------------------------------------------------------------------
(* The world outside: users send coins and tokens, and a contract loses    *)
(* its code and gets it back with its storage (an account that delegates   *)
(* to the code).  No contract moves the tokens of an account that did not  *)
(* call it.                                                                *)

BankSend(x, from, to, n) ==
  /\ books[x].coin[from] >= n
  /\ books' = [books EXCEPT ![x] = SendCoins(@, from, to, n)]
  /\ UNCHANGED <<enabled, pair, meta, code, ibc>>

TokenSend(x, from, to, n) ==
  /\ code[x] /\ books[x].tok[from] >= n
  /\ books' = [books EXCEPT ![x] = CallTransfer(@, from, to, n, "ok")]
  /\ UNCHANGED <<enabled, pair, meta, code, ibc>>

ChangeCode(x) ==
  /\ code' = [code EXCEPT ![x] = ~@]
  /\ UNCHANGED <<enabled, pair, meta, books, ibc>>

Next ==
  \/ UpdateParams
  \/ \E x \in Assets : RegisterERC20(x) \/ ToggleConversion(x) \/ ChangeCode(x)
  \/ \E x \in Assets, n \in Amounts, to, from \in Users, how \in Outcomes, sendable \in BOOLEAN :
       \/ ConvertERC20(x, n, to, from, how, sendable)
       \/ ConvertCoin(x, n, to, from, how, sendable)
  \/ \E x \in Assets, n \in Amounts, u \in Users, how \in Outcomes, sendable \in BOOLEAN :
       \/ Transfer(x, n, u, how, sendable)
       \/ \E v2 \in BOOLEAN : OnRecvPacket(x, n, u, how, sendable, v2)
  \/ \E p \in flight, answer \in {"received", "refused"} : CounterpartyAnswers(p, answer)
  \/ \E p \in flight, how \in Outcomes : OnAcknowledgementPacket(p, how) \/ OnTimeoutPacket(p, how)
  \/ \E x \in Assets, from, to \in Users, n \in Amounts : BankSend(x, from, to, n)
  \/ \E x \in Assets, from \in Users, to \in Users \cup {Module}, n \in Amounts :
       TokenSend(x, from, to, n)

Spec == Init /\ [][Next]_vars

-----------------------------------------------------------------------------
(* Properties                                                              *)

Books == [coin : [Holders -> Nat], supply : Nat, tok : [Holders -> Nat]]
Total(f) == MapThenSumSet(LAMBDA h : f[h], DOMAIN f)

(* Types; the bank's supply of an asset is the sum of its balances.        *)
TypeOK ==
  /\ enabled \in BOOLEAN /\ pair \in [Assets -> {"none", "on", "off"}]
  /\ meta \subseteq Assets /\ code \in [Assets -> BOOLEAN]
  /\ books \in [Assets -> Books]
  /\ \A x \in Assets : books[x].supply = Total(books[x].coin)
  /\ sent \in 0 .. MaxPackets /\ flight \subseteq Packets /\ remote \in [Assets -> Nat]

(* Every coin of a contract outside the module account is backed by a      *)
(* token the module holds: whatever the contract answers, whichever step   *)
(* of a conversion fails and however conversions, transfers, refunds and   *)
(* deletions of the pair interleave, the coins can be redeemed.            *)
Backed ==
  \A x \in Assets : books[x].supply - books[x].coin[Module] <= books[x].tok[Module]

(* What each packet of F may have to pay back in an asset.                 *)
Owes(p, x, i) == p.seq = i /\ p.asset = x /\ p.status # "received"
Owed(F, x) ==
  [i \in 1 .. MaxPackets |->
     IF \E p \in F : Owes(p, x, i) THEN (CHOOSE p \in F : Owes(p, x, i)).n ELSE 0]

(* The escrow account holds what circulates on the other chain and what    *)
(* the packets under way may have to pay back, no more and no less.        *)
EscrowExact ==
  \A x \in Assets :
    books[x].coin[Escrow] = remote[x] + SumOf(Owed(flight, x), MaxPackets)

(* A contract is registered only while no coin of its denomination exists: *)
(* the coins of a pair that was deleted never become coins of a new one.   *)
FreshPair ==
  [][\A x \in Assets : pair[x] = "none" /\ pair'[x] # "none" => books[x].supply = 0]_vars

(* A packet that times out or is refused gives its sender the amount back: *)
(* the module pays it in tokens or, when that conversion fails, the sender *)
(* keeps the refunded coins.                                               *)
RefundReturned ==
  [][\A p \in flight :
       p.status # "received" /\ (\A q \in flight' : q.seq # p.seq) =>
         LET b == books[p.asset] b1 == books'[p.asset]
         IN  \/ b1.tok[Module] = b.tok[Module] - p.n
             \/ b1.coin[p.from] = b.coin[p.from] + p.n]_vars
=============================================================================
