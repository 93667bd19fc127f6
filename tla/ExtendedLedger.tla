---------------------------- MODULE ExtendedLedger ----------------------------
(***************************************************************************)
(* What x/precisebank promises its callers (x/vm above all): one ledger of *)
(* extended amounts, where a call either moves, creates or destroys        *)
(* exactly the amount it names, or fails and changes nothing, and where it *)
(* fails exactly when the spendable balance is too small or the call is    *)
(* refused.  Fractions, the reserve and the remainder do not appear.       *)
(***************************************************************************)
EXTENDS Integers

CONSTANTS
  Accounts,
  Modules,    \* the accounts that may mint and burn
  Held,       \* amount of every account that it may not spend
  Amts        \* amounts a caller may name

VARIABLES
  bal,        \* extended balance of every account
  total,      \* extended amount in circulation
  call,       \* the last call ...
  result      \* ... and how it ended

ledgerVars == <<bal, total, call, result>>

LedgerInit ==
  /\ bal \in [Accounts -> Nat]
  /\ total \in Nat
  /\ call = [op |-> "genesis", amt |-> 0]
  /\ result = "ok"

Keep == UNCHANGED <<bal, total>>
Enough(a, amt) == amt <= bal[a] - Held[a]

(* Whatever is asked, a call may be refused.                               *)
Refused == result' = "unauthorized" /\ Keep

Transfer(from, to, amt) ==
  /\ call' = [op |-> "transfer", from |-> from, to |-> to, amt |-> amt]
  /\ \/ /\ from # to /\ Enough(from, amt)
        /\ bal' = [bal EXCEPT ![from] = @ - amt, ![to] = @ + amt]
        /\ result' = "ok" /\ UNCHANGED total
     \/ ~Enough(from, amt) /\ result' = "insufficient" /\ Keep
     \/ from = to /\ result' = "ok" /\ Keep

Mint(m, amt) ==
  /\ call' = [op |-> "mint", from |-> m, to |-> m, amt |-> amt]
  /\ bal' = [bal EXCEPT ![m] = @ + amt]
  /\ total' = total + amt
  /\ result' = "ok"

Burn(m, amt) ==
  /\ call' = [op |-> "burn", from |-> m, to |-> m, amt |-> amt]
  /\ \/ /\ Enough(m, amt)
        /\ bal' = [bal EXCEPT ![m] = @ - amt]
        /\ total' = total - amt
        /\ result' = "ok"
     \/ ~Enough(m, amt) /\ result' = "insufficient" /\ Keep

LedgerNext ==
  \/ Refused
  \/ \E amt \in Amts :
       \/ \E from, to \in Accounts : Transfer(from, to, amt)
       \/ \E m \in Modules : Mint(m, amt)
       \/ \E m \in Modules : Burn(m, amt)

LedgerSpec == LedgerInit /\ [][LedgerNext]_ledgerVars
=============================================================================
