----------------------------- MODULE PreciseBank -----------------------------
(***************************************************************************)
(* x/precisebank: balances of an extended denomination (18 decimals) kept  *)
(* as an integer balance in x/bank plus a fraction 0 .. CF-1 in the        *)
(* module's own store.  Fractions are backed by whole coins of the reserve *)
(* account; the part of the reserve that backs no account is the remainder.*)
(*                                                                         *)
(* x/bank (integer balances, supply, spendable check, blocked addresses)   *)
(* is not part of the repository; it is modelled by `bank', `supply' and   *)
(* CanDebit.  A keeper call that returns an error (or panics) is undone by *)
(* the caller's SDK cache context, so its writes do not survive: Finish    *)
(* keeps the stores of a call that did not end "ok".                       *)
(***************************************************************************)
EXTENDS Integers, Sums

CONSTANTS
  CF,          \* types.ConversionFactor(): fractional units per integer coin
  N,           \* accounts other than the reserve are 1 .. N
  Modules,     \* the accounts that are module accounts with Minter and Burner
  Blocked,     \* config.BlockedAddresses(): may not be the target of MsgSend
  Locked,      \* integer coins of an account that x/bank will not let it spend
  Amounts,     \* extended amounts a caller may pass
  IntAmounts,  \* integer-denomination amounts a caller may pass along
  MaxSupply    \* bound on the integer supply (TLC only; no limit in the code)

Reserve == 0
Accounts == 1 .. N
Holders == 0 .. N

ASSUME CFAssumption == CF \in Nat \ {0}
ASSUME NAssumption == N \in Nat \ {0}
ASSUME RolesAssumption ==
  /\ Modules \subseteq Accounts
  /\ Blocked \subseteq Holders /\ Reserve \in Blocked
  /\ Locked \in [Accounts -> Nat]
ASSUME AmountsAssumption ==
  /\ Amounts \subseteq Nat \ {0}
  /\ IntAmounts \subseteq Nat
  /\ MaxSupply \in Nat

VARIABLES
  bank,      \* x/bank: integer balance of every holder, the reserve included
  supply,    \* x/bank: supply of the integer denomination
  frac,      \* store: fractional balance of every account (0 when absent)
  rem,       \* store: remainder amount
  surplus,   \* history: what the reserve held at genesis beyond its backing
  call,      \* history: the last call, with its amount in extended units
  outcome    \* how the last call ended, see Outcomes

(* "unauthorized": refused before any write; "insufficient": the caller's  *)
(* spendable balance is too small; "reserve": the reserve itself could not *)
(* pay a carry or a burn (an error, or the panic of sendExtendedCoins).    *)
Outcomes == {"ok", "unauthorized", "insufficient", "reserve"}

vars == <<bank, supply, frac, rem, surplus, call, outcome>>
stores == <<bank, supply, frac, rem>>

-----------------------------------------------------------------------------
(* Genesis                                                                 *)

(* GenesisState.Validate: fractions and remainder in range, and together a *)
(* whole number of integer coins.                                          *)
ValidGenesis(f, r) ==
  /\ f \in [Accounts -> 0 .. CF - 1]
  /\ r \in 0 .. CF - 1
  /\ (SumOf(f, N) + r) % CF = 0

(* InitGenesis accepts an inexact reserve only for the empty default state.*)
GenesisAccepted(f, r, reserve) ==
  /\ ValidGenesis(f, r)
  /\ \/ reserve * CF = SumOf(f, N) + r
     \/ r = 0 /\ \A a \in Accounts : f[a] = 0

Init ==
  /\ bank \in [Holders -> 0 .. MaxSupply]
  /\ \A a \in Accounts : bank[a] >= Locked[a]
  /\ supply = SumOf([a \in Accounts |-> bank[a]], N) + bank[Reserve]
  /\ supply <= MaxSupply
  /\ frac \in [Accounts -> 0 .. CF - 1]
  /\ rem \in 0 .. CF - 1
  /\ GenesisAccepted(frac, rem, bank[Reserve])
  /\ surplus = bank[Reserve] * CF - (SumOf(frac, N) + rem)
  /\ call = [op |-> "genesis", amt |-> 0]
  /\ outcome = "ok"

-----------------------------------------------------------------------------
(* x/bank, and how a call ends                                             *)

(* mutant: the whole balance can be spent, locked coins included           *)
MutDebitLocked(b, a, x) == x <= b[a]
CanDebit(b, a, x) == x = 0 \/ x <= b[a] - (IF a = Reserve THEN 0 ELSE Locked[a])
Credit(b, a, x) == [b EXCEPT ![a] = @ + x]
Debit(b, a, x) == [b EXCEPT ![a] = @ - x]
Move(b, from, to, x) == Credit(Debit(b, from, x), to, x)

Called(op, from, to, i, x) ==
  call' = [op |-> op, from |-> from, to |-> to, amt |-> i * CF + x]

(* A call that ends with result res, and the stores it leaves if "ok".     *)
Finish(res, b, s, f, r) ==
  /\ outcome' = res
  /\ IF res = "ok"
     THEN bank' = b /\ supply' = s /\ frac' = f /\ rem' = r
     ELSE UNCHANGED stores
  /\ UNCHANGED surplus

-----------------------------------------------------------------------------
(* Transfers                                                               *)

NeedsBorrow(current, sub) == current < sub
NeedsCarry(current, add) == current + add >= CF
subFromFractionalBalance(current, sub) ==
  IF NeedsBorrow(current, sub) THEN current - sub + CF ELSE current - sub
(* mutant: the carried coin is not taken off the fraction                  *)
MutAddNoCarry(current, add) == current + add
addToFractionalBalance(current, add) ==
  IF NeedsCarry(current, add) THEN current + add - CF ELSE current + add

SentFractions(from, to, f) ==
  [frac EXCEPT ![from] = subFromFractionalBalance(frac[from], f),
               ![to] = addToFractionalBalance(frac[to], f)]

(* mutant: a borrow that meets a carry moves no coin                       *)
MutDirectCoins(amt, borrow, carry) == amt \div CF
(* Coins sent directly from sender to recipient.                           *)
DirectCoins(amt, borrow, carry) == amt \div CF + (IF borrow /\ carry THEN 1 ELSE 0)

(* sendExtendedCoins, starting from the integer balances b.  A borrow and  *)
(* a carry cancel into one more coin sent directly; otherwise the borrowed *)
(* coin goes to the reserve, the carried one comes from it.                *)
sendExtendedCoins(b, from, to, amt) ==
  LET f == amt % CF
      borrow == NeedsBorrow(frac[from], f)
      carry == NeedsCarry(frac[to], f)
      direct == DirectCoins(amt, borrow, carry)
      sent == Move(b, from, to, direct)
      lent == IF borrow /\ ~carry THEN Move(sent, from, Reserve, 1) ELSE sent
      paid == IF carry /\ ~borrow THEN Move(lent, Reserve, to, 1) ELSE lent
  IN [res |-> IF \/ ~CanDebit(b, from, direct)
                 \/ borrow /\ ~carry /\ ~CanDebit(sent, from, 1)
              THEN "insufficient"
              ELSE IF carry /\ ~borrow /\ ~CanDebit(lent, Reserve, 1)
              THEN "reserve" ELSE "ok",
      bank |-> paid,
      frac |-> SentFractions(from, to, f)]

(* SendCoins(from, to, i integer coins + x extended coins): the integer    *)
(* coins pass through to x/bank first.  A transfer to oneself returns      *)
(* before any fraction is touched.                                         *)
(* mutant: no early return for a transfer to oneself                       *)
MutSendToSelf(from, to, i, x) ==
  LET ext == sendExtendedCoins(Move(bank, from, to, i), from, to, x)
  IN /\ Called("transfer", from, to, i, x)
     /\ IF ~CanDebit(bank, from, i) \/ x = 0
        THEN Finish("insufficient", bank, supply, frac, rem)
        ELSE Finish(ext.res, ext.bank, supply, ext.frac, rem)
SendCoins(from, to, i, x) ==
  LET b == Move(bank, from, to, i)
      ext == sendExtendedCoins(b, from, to, x)
  IN /\ Called("transfer", from, to, i, x)
     /\ IF ~CanDebit(bank, from, i)
        THEN Finish("insufficient", bank, supply, frac, rem)
        ELSE IF x = 0 \/ from = to
        THEN Finish("ok", b, supply, frac, rem)
        ELSE Finish(ext.res, ext.bank, supply, ext.frac, rem)

Refuse(from, to, i, x) ==
  /\ Called("transfer", from, to, i, x)
  /\ Finish("unauthorized", bank, supply, frac, rem)

SendCoinsFromAccountToModule(from, to, i, x) ==
  IF to = Reserve THEN Refuse(from, to, i, x) ELSE SendCoins(from, to, i, x)

SendCoinsFromModuleToAccount(from, to, i, x) ==
  IF from = Reserve \/ to \in Blocked THEN Refuse(from, to, i, x) ELSE SendCoins(from, to, i, x)

SendCoinsFromModuleToModule(from, to, i, x) ==
  IF to = Reserve THEN Refuse(from, to, i, x) ELSE SendCoins(from, to, i, x)

(* The message server: sending of the denominations may be disabled.       *)
Send(from, to, i, x, enabled) ==
  IF (i = 0 /\ x = 0) \/ ~enabled \/ to \in Blocked THEN Refuse(from, to, i, x) ELSE SendCoins(from, to, i, x)

-----------------------------------------------------------------------------
(* Minting and burning                                                     *)

(* mutant: the reserve is not topped up                                    *)
MutReserveMint(carry, short) == 0
(* Coins minted to the reserve: the remainder does not cover the fraction. *)
ReserveMint(carry, short) == IF short /\ ~carry THEN 1 ELSE 0

(* mintExtendedCoin to module m, from integer balances b and supply s.     *)
mintExtendedCoin(b, s, m, amt) ==
  LET f == amt % CF
      carry == NeedsCarry(frac[m], f)
      short == rem < f
      carried == IF carry /\ ~short THEN Move(b, Reserve, m, 1) ELSE b
      minted == amt \div CF + (IF carry /\ short THEN 1 ELSE 0)
      backing == ReserveMint(carry, short)
  IN [res |-> IF carry /\ ~short /\ ~CanDebit(b, Reserve, 1) THEN "reserve" ELSE "ok",
      bank |-> Credit(Credit(carried, m, minted), Reserve, backing),
      supply |-> s + minted + backing,
      frac |-> [frac EXCEPT ![m] = addToFractionalBalance(@, f)],
      rem |-> IF short THEN rem - f + CF ELSE rem - f]

MintCoins(m, i, x) ==
  LET ext == mintExtendedCoin(Credit(bank, m, i), supply + i, m, x)
  IN /\ Called("mint", m, m, i, x)
     /\ supply + i + x \div CF + 1 <= MaxSupply
     /\ IF x = 0
        THEN Finish("ok", Credit(bank, m, i), supply + i, frac, rem)
        ELSE Finish(ext.res, ext.bank, ext.supply, ext.frac, ext.rem)

(* burnExtendedCoin from module m.  The reserve coin is burned before the  *)
(* module's own integer coins are, so an insufficient module aborts late.  *)
burnExtendedCoin(b, s, m, amt) ==
  LET f == amt % CF
      borrow == NeedsBorrow(frac[m], f)
      overflow == rem + f >= CF
      lent == IF borrow /\ ~overflow THEN Move(b, m, Reserve, 1) ELSE b
      unbacked == IF overflow /\ ~borrow THEN 1 ELSE 0
      burned == amt \div CF + (IF borrow /\ overflow THEN 1 ELSE 0)
  IN [res |-> IF borrow /\ ~overflow /\ ~CanDebit(b, m, 1) THEN "insufficient"
              ELSE IF ~CanDebit(lent, Reserve, unbacked) THEN "reserve"
              ELSE IF ~CanDebit(lent, m, burned) THEN "insufficient" ELSE "ok",
      bank |-> Debit(Debit(lent, Reserve, unbacked), m, burned),
      supply |-> s - burned - unbacked,
      frac |-> [frac EXCEPT ![m] = subFromFractionalBalance(@, f)],
      rem |-> IF overflow THEN rem + f - CF ELSE rem + f]

BurnCoins(m, i, x) ==
  LET ext == burnExtendedCoin(Debit(bank, m, i), supply - i, m, x)
  IN /\ Called("burn", m, m, i, x)
     /\ IF ~CanDebit(bank, m, i)
        THEN Finish("insufficient", bank, supply, frac, rem)
        ELSE IF x = 0
        THEN Finish("ok", Debit(bank, m, i), supply - i, frac, rem)
        ELSE Finish(ext.res, ext.bank, ext.supply, ext.frac, ext.rem)

-----------------------------------------------------------------------------
Next ==
  \E i \in IntAmounts, x \in Amounts \cup {0} :
    \/ \E from, to \in Accounts : SendCoins(from, to, i, x)
    \/ \E from \in Accounts, to \in Holders, enabled \in BOOLEAN : Send(from, to, i, x, enabled)
    \/ \E from \in Accounts, to \in Modules \cup {Reserve} : SendCoinsFromAccountToModule(from, to, i, x)
    \/ \E from \in Modules \cup {Reserve}, to \in Holders : SendCoinsFromModuleToAccount(from, to, i, x)
    \/ \E from \in Modules, to \in Modules \cup {Reserve} : SendCoinsFromModuleToModule(from, to, i, x)
    \/ \E m \in Modules : MintCoins(m, i, x)
    \/ \E m \in Modules : BurnCoins(m, i, x)

Spec == Init /\ [][Next]_vars

-----------------------------------------------------------------------------
(* Properties                                                              *)

TypeOK ==
  /\ bank \in [Holders -> Nat]
  /\ supply \in Nat
  /\ frac \in [Accounts -> 0 .. CF - 1]
  /\ rem \in 0 .. CF - 1
  /\ surplus \in Nat
  /\ outcome \in Outcomes

(* After any sequence of sends, mints and burns the reserve's integer      *)
(* coins are worth exactly the fractional balances of all accounts plus    *)
(* the remainder (plus what an empty genesis left unaccounted there).      *)
ReserveBacked == bank[Reserve] * CF = SumOf(frac, N) + rem + surplus

(* The reserve can always pay: neither the carry of a transfer (which      *)
(* panics in sendExtendedCoins), nor that of a mint, nor the reserve burn  *)
(* of a burn ever finds the reserve empty.                                 *)
ReserveNeverShort == outcome # "reserve"

(* x/bank's locked coins stay with their owner: borrowing a coin for the   *)
(* reserve never reaches below what vesting locks.                         *)
LockedStays == \A a \in Accounts : bank[a] >= Locked[a]

(* The stores as the ledger of extended amounts that callers see.          *)
ExtendedBalance(a) == bank[a] * CF + frac[a]

(* The extended amounts of the calls. *)
CallAmounts == {i * CF + x : i \in IntAmounts, x \in Amounts \cup {0}}

Ledger == INSTANCE ExtendedLedger WITH
  Held <- [a \in Accounts |-> Locked[a] * CF],
  Amts <- CallAmounts,
  bal <- [a \in Accounts |-> ExtendedBalance(a)],
  total <- supply * CF - rem - surplus,
  result <- outcome

(* Every call is one step of the ledger: it moves, mints or burns exactly  *)
(* its amount, or fails, which it does exactly when the spendable extended *)
(* balance is too small or the call is refused, and then changes nothing.  *)
ImplementsLedger == Ledger!LedgerSpec
=============================================================================
