------------------------- MODULE PreciseBankProofs --------------------------
(***************************************************************************)
(* For every set of accounts and every conversion factor: the fractions    *)
(* and the remainder stay covered by the reserve, the locked coins stay,   *)
(* and the keeper implements a plain ledger in extended units.  First what *)
(* sendExtendedCoins, mintExtendedCoin and burnExtendedCoin do to the      *)
(* balances, then the steps, then the theorems.                            *)
(***************************************************************************)
EXTENDS PreciseBank, SumsProofs

-----------------------------------------------------------------------------

(* Arithmetic                                                              *)

(* A whole number of coins more or less, in extended units.                *)
LEMMA Distribute ==
  ASSUME NEW c \in Int, NEW x \in Int, NEW y \in Int
  PROVE  (x + y) * c = x * c + y * c /\ (x - y) * c = x * c - y * c
OBVIOUS

LEMMA Distribute3 ==
  ASSUME NEW c \in Int, NEW x \in Int, NEW y \in Int, NEW z \in Int
  PROVE  /\ (x - y - z) * c = x * c - y * c - z * c
         /\ (x + y + z) * c = x * c + y * c + z * c
         /\ (x + y - z) * c = x * c + y * c - z * c
OBVIOUS

(* Integer and fractional part of an extended amount.                      *)
LEMMA Split ==
  ASSUME NEW amt \in Nat
  PROVE  /\ amt \div CF \in Nat
         /\ amt % CF \in 0 .. CF - 1
         /\ amt = (amt \div CF) * CF + (amt % CF)
BY CFAssumption

(* s whole coins cover a difference d of two fractions exactly when there  *)
(* is one coin more than zero if the difference is positive.               *)
LEMMA Cover ==
  ASSUME NEW s \in Int, NEW d \in (1 - CF) .. CF - 1
  PROVE  d <= s * CF <=> s >= (IF d > 0 THEN 1 ELSE 0)
<1>1. CF \in Nat /\ CF > 0
  BY CFAssumption
<1>2. CASE s <= -1
  <2>1. s * CF <= -CF
    BY <1>1, <1>2
  <2> QED BY <1>1, <1>2, <2>1
<1>3. CASE s = 0
  <2>1. s * CF = 0
    BY <1>1, <1>3
  <2> QED BY <1>1, <1>3, <2>1
<1>4. CASE s >= 1
  <2>1. s * CF >= CF
    BY <1>1, <1>4
  <2> QED BY <1>1, <1>4, <2>1
<1> QED BY <1>2, <1>3, <1>4

-----------------------------------------------------------------------------

(* Integer balances                                                        *)

Balances == [Holders -> Nat]

(* All integer coins that exist.                                           *)
Total(b) == SumOf([a \in Accounts |-> b[a]], N) + b[Reserve]

Unlocked(b) == \A a \in Accounts : b[a] >= Locked[a]

LEMMA HoldersSplit ==
  /\ Reserve \in Holders /\ Reserve \notin Accounts
  /\ Accounts \subseteq Holders
  /\ \A a \in Holders : a = Reserve \/ a \in Accounts
BY NAssumption DEF Reserve, Holders, Accounts

(* One balance changes: so does the total.                                 *)
LEMMA TotalUpdate ==
  ASSUME NEW b \in Balances, NEW a \in Holders, NEW v \in Nat
  PROVE  /\ [b EXCEPT ![a] = v] \in Balances
         /\ Total(b) \in Nat
         /\ Total([b EXCEPT ![a] = v]) = Total(b) - b[a] + v
<1> DEFINE g == [x \in Accounts |-> b[x]]
           c == [b EXCEPT ![a] = v]
           h == [x \in Accounts |-> c[x]]
<1>1. c \in Balances
  BY Zenon DEF Balances
<1>2. g \in [1 .. N -> Nat] /\ N \in Nat
  BY NAssumption, HoldersSplit, Zenon DEF Accounts, Balances
<1>3. SumOf(g, N) \in Nat
  BY <1>2, SumOfType, Zenon
<1>4. b[Reserve] \in Nat /\ b[a] \in Nat
  BY HoldersSplit, Zenon DEF Balances
<1>5. CASE a = Reserve
  <2>1. h = g /\ c[Reserve] = v
    BY <1>5, HoldersSplit, Zenon DEF Balances
  <2> QED BY <1>1, <1>3, <1>4, <1>5, <2>1 DEF Total
<1>6. CASE a \in Accounts
  <2>1. h = [g EXCEPT ![a] = v] /\ c[Reserve] = b[Reserve] /\ g[a] = b[a]
    BY <1>6, HoldersSplit, Zenon DEF Balances
  <2>2. SumOf(h, N) = SumOf(g, N) - g[a] + v
    BY <1>2, <1>6, <2>1, SumOfUpdate DEF Accounts
  <2> HIDE DEF g, h, c
  <2>3. SumOf(h, N) + c[Reserve] = SumOf(g, N) + b[Reserve] - b[a] + v
    BY <1>3, <1>4, <2>1, <2>2
  <2> QED BY <1>1, <1>3, <1>4, <2>3 DEF Total, g, h, c
<1> QED BY <1>5, <1>6, HoldersSplit, Zenon

(* x/bank lets an account spend what it has beyond its lock.               *)
LEMMA DebitBound ==
  ASSUME NEW b \in Balances, NEW a \in Holders, NEW x \in Nat, CanDebit(b, a, x)
  PROVE  /\ x <= b[a] /\ b[a] \in Nat
         /\ a \in Accounts /\ b[a] >= Locked[a] => b[a] - x >= Locked[a]
<1>1. b[a] \in Nat
  BY Zenon DEF Balances
<1>2. CASE a = Reserve
  BY <1>1, <1>2, HoldersSplit DEF CanDebit
<1>3. CASE a \in Accounts
  <2>1. Locked[a] \in Nat /\ a # Reserve
    BY <1>3, RolesAssumption, HoldersSplit, Zenon
  <2> QED BY <1>1, <2>1 DEF CanDebit
<1> QED BY <1>2, <1>3, HoldersSplit, Zenon

LEMMA CreditEffect ==
  ASSUME NEW b \in Balances, NEW a \in Holders, NEW x \in Nat
  PROVE  /\ Credit(b, a, x) \in Balances
         /\ Total(b) \in Nat
         /\ Total(Credit(b, a, x)) = Total(b) + x
         /\ Credit(b, a, x)[a] = b[a] + x
         /\ \A c \in Holders : c # a => Credit(b, a, x)[c] = b[c]
         /\ Unlocked(b) => Unlocked(Credit(b, a, x))
<1> DEFINE c == Credit(b, a, x)
<1>1. b[a] \in Nat /\ b[a] + x \in Nat
  BY DEF Balances
<1> DEFINE v == b[a] + x
<1>2. c = [b EXCEPT ![a] = v]
  BY Zenon DEF Credit
<1>3. c \in Balances /\ Total(b) \in Nat /\ Total(c) = Total(b) - b[a] + v
  <2> HIDE DEF c, v
  <2>1. v \in Nat
    BY <1>1, Zenon DEF v
  <2> QED BY <1>2, <2>1, TotalUpdate, Zenon
<1>4. c[a] = b[a] + x /\ \A d \in Holders : d # a => c[d] = b[d]
  BY <1>2, Zenon DEF Balances
<1>5. Unlocked(b) => Unlocked(c)
  <2> SUFFICES ASSUME Unlocked(b), NEW d \in Accounts PROVE c[d] >= Locked[d]
    BY Zenon DEF Unlocked
  <2>1. b[d] >= Locked[d] /\ Locked[d] \in Nat /\ d \in Holders
    BY HoldersSplit, RolesAssumption, Zenon DEF Unlocked
  <2>2. CASE d = a
    BY <1>1, <1>4, <2>1, <2>2
  <2>3. CASE d # a
    BY <1>4, <2>1, <2>3, Zenon
  <2> QED BY <2>2, <2>3, Zenon
<1> HIDE DEF c
<1>6. Total(c) = Total(b) + x
  BY <1>1, <1>3
<1> QED BY <1>3, <1>4, <1>5, <1>6, Zenon DEF c

LEMMA DebitEffect ==
  ASSUME NEW b \in Balances, NEW a \in Holders, NEW x \in Nat, CanDebit(b, a, x)
  PROVE  /\ Debit(b, a, x) \in Balances
         /\ Total(b) \in Nat
         /\ Total(Debit(b, a, x)) = Total(b) - x
         /\ Debit(b, a, x)[a] = b[a] - x
         /\ \A c \in Holders : c # a => Debit(b, a, x)[c] = b[c]
         /\ Unlocked(b) => Unlocked(Debit(b, a, x))
<1> DEFINE c == Debit(b, a, x)
<1>1. b[a] \in Nat /\ b[a] - x \in Nat
  BY DebitBound
<1> DEFINE v == b[a] - x
<1>2. c = [b EXCEPT ![a] = v]
  BY Zenon DEF Debit
<1>3. c \in Balances /\ Total(b) \in Nat /\ Total(c) = Total(b) - b[a] + v
  <2> HIDE DEF c, v
  <2>1. v \in Nat
    BY <1>1, Zenon DEF v
  <2> QED BY <1>2, <2>1, TotalUpdate, Zenon
<1>4. c[a] = b[a] - x /\ \A d \in Holders : d # a => c[d] = b[d]
  BY <1>2, Zenon DEF Balances
<1>5. Unlocked(b) => Unlocked(c)
  <2> SUFFICES ASSUME Unlocked(b), NEW d \in Accounts PROVE c[d] >= Locked[d]
    BY Zenon DEF Unlocked
  <2>1. b[d] >= Locked[d] /\ d \in Holders
    BY HoldersSplit, Zenon DEF Unlocked
  <2>2. CASE d = a
    BY <1>4, <2>1, <2>2, DebitBound, Zenon
  <2>3. CASE d # a
    BY <1>4, <2>1, <2>3, Zenon
  <2> QED BY <2>2, <2>3, Zenon
<1> HIDE DEF c
<1>6. Total(c) = Total(b) - x
  BY <1>1, <1>3
<1> QED BY <1>3, <1>4, <1>5, <1>6, Zenon DEF c

LEMMA MoveEffect ==
  ASSUME NEW b \in Balances, NEW from \in Holders, NEW to \in Holders,
         from # to, NEW x \in Nat, CanDebit(b, from, x)
  PROVE  /\ Move(b, from, to, x) \in Balances
         /\ Total(b) \in Nat
         /\ Total(Move(b, from, to, x)) = Total(b)
         /\ Move(b, from, to, x)[from] = b[from] - x
         /\ Move(b, from, to, x)[to] = b[to] + x
         /\ \A c \in Holders : c # from /\ c # to => Move(b, from, to, x)[c] = b[c]
         /\ Unlocked(b) => Unlocked(Move(b, from, to, x))
<1> DEFINE d == Debit(b, from, x)
           e == Credit(d, to, x)
<1>1. Move(b, from, to, x) = e
  BY Zenon DEF Move
<1>2. d \in Balances /\ Total(b) \in Nat /\ Total(d) = Total(b) - x
  BY DebitEffect, Zenon
<1>3. d[from] = b[from] - x /\ \A c \in Holders : c # from => d[c] = b[c]
  BY DebitEffect
<1>4. Unlocked(b) => Unlocked(d)
  BY DebitEffect, Zenon
<1> HIDE DEF d
<1>5. e \in Balances /\ Total(e) = Total(d) + x
  BY <1>2, CreditEffect
<1>6. e[to] = d[to] + x /\ \A c \in Holders : c # to => e[c] = d[c]
  BY <1>2, CreditEffect
<1>7. Unlocked(d) => Unlocked(e)
  BY <1>2, CreditEffect, Zenon
<1> HIDE DEF e
<1>8. Total(e) = Total(b)
  BY <1>2, <1>5
<1> QED BY <1>1, <1>2, <1>3, <1>4, <1>5, <1>6, <1>7, <1>8, Zenon

(* Moving coins from an account to itself moves nothing.                   *)
LEMMA MoveToSelf ==
  ASSUME NEW b \in Balances, NEW a \in Holders, NEW x \in Nat
  PROVE  Move(b, a, a, x) = b
<1>1. b[a] \in Nat /\ (b[a] - x) + x = b[a]
  BY DEF Balances
<1> DEFINE d == [b EXCEPT ![a] = b[a] - x]
<1>2. d[a] = b[a] - x
  BY Zenon DEF Balances
<1>3. [d EXCEPT ![a] = b[a]] = b
  BY Zenon DEF Balances
<1>4. Move(b, a, a, x) = [d EXCEPT ![a] = d[a] + x]
  BY Zenon DEF Move, Credit, Debit
<1> HIDE DEF d
<1> QED BY <1>1, <1>2, <1>3, <1>4, Zenon

(* The spendable check of x/bank for an account whose lock is covered.     *)
LEMMA Spendable ==
  ASSUME NEW b \in Balances, Unlocked(b), NEW a \in Accounts, NEW x \in Nat
  PROVE  /\ b[a] \in Nat /\ Locked[a] \in Nat
         /\ CanDebit(b, a, x) <=> x <= b[a] - Locked[a]
<1>1. b[a] \in Nat /\ Locked[a] \in Nat /\ a # Reserve /\ b[a] >= Locked[a]
  BY HoldersSplit, RolesAssumption, Zenon DEF Balances, Unlocked
<1> QED BY <1>1 DEF CanDebit

-----------------------------------------------------------------------------

(* Fractions                                                               *)

Fracs == [Accounts -> 0 .. CF - 1]

LEMMA FracsSum ==
  ASSUME NEW f \in Fracs
  PROVE  /\ SumOf(f, N) \in Nat
         /\ \A a \in Accounts : f[a] \in 0 .. CF - 1 /\ f[a] <= SumOf(f, N)
         /\ \A a, b \in Accounts : a # b => f[a] + f[b] <= SumOf(f, N)
<1>1. f \in [1 .. N -> Nat] /\ N \in Nat
  BY CFAssumption, NAssumption DEF Fracs, Accounts
<1>2. SumOf(f, N) \in Nat
  BY <1>1, SumOfType, Zenon
<1>3. \A a \in 1 .. N : f[a] <= SumOf(f, N) /\ \A b \in 1 .. N : b # a => f[a] + f[b] <= SumOf(f, N)
  BY <1>1, SumOfAtLeast, Zenon
<1>4. \A a \in Accounts : f[a] \in 0 .. CF - 1
  BY Zenon DEF Fracs
<1> QED BY <1>2, <1>3, <1>4, Zenon DEF Accounts

LEMMA FracUpdate ==
  ASSUME NEW f \in Fracs, NEW g \in Fracs, NEW a \in Accounts,
         \A c \in Accounts : c # a => g[c] = f[c]
  PROVE  SumOf(g, N) = SumOf(f, N) - f[a] + g[a]
<1>1. f \in [1 .. N -> Nat] /\ N \in Nat /\ g[a] \in Nat
  BY CFAssumption, NAssumption DEF Fracs, Accounts
<1>2. SumOf([f EXCEPT ![a] = g[a]], N) = SumOf(f, N) - f[a] + g[a]
  BY <1>1, SumOfUpdate, Zenon DEF Accounts
<1>3. g = [f EXCEPT ![a] = g[a]]
  BY Zenon DEF Fracs
<1> QED BY <1>2, <1>3, Zenon

(* Borrow and carry keep a fraction in range, and trade CF units for a     *)
(* coin.                                                                   *)
LEMMA FracArith ==
  ASSUME NEW c \in 0 .. CF - 1, NEW f \in 0 .. CF - 1
  PROVE  /\ subFromFractionalBalance(c, f) \in 0 .. CF - 1
         /\ subFromFractionalBalance(c, f) = c - f + (IF NeedsBorrow(c, f) THEN CF ELSE 0)
         /\ addToFractionalBalance(c, f) \in 0 .. CF - 1
         /\ addToFractionalBalance(c, f) = c + f - (IF NeedsCarry(c, f) THEN CF ELSE 0)
BY CFAssumption DEF subFromFractionalBalance, addToFractionalBalance, NeedsBorrow, NeedsCarry

-----------------------------------------------------------------------------

(* The inductive invariant                                                 *)

(* x/bank's own bookkeeping is part of it: a burn may only take coins off  *)
(* the supply that some holder has.                                        *)
Inv ==
  /\ TypeOK
  /\ ReserveBacked
  /\ ReserveNeverShort
  /\ LockedStays
  /\ supply = Total(bank)

LEMMA InvFacts ==
  ASSUME Inv
  PROVE  /\ bank \in Balances /\ Unlocked(bank) /\ frac \in Fracs
         /\ rem \in 0 .. CF - 1 /\ surplus \in Nat /\ supply \in Nat
         /\ supply = Total(bank)
         /\ CF \in Nat /\ CF > 0 /\ bank[Reserve] \in Nat
         /\ bank[Reserve] * CF = SumOf(frac, N) + rem + surplus
BY CFAssumption, HoldersSplit
   DEF Inv, TypeOK, ReserveBacked, LockedStays, Unlocked, Balances, Fracs

(* Fractions worth a coin are backed by a coin of the reserve.             *)
LEMMA ReserveHasCoin ==
  ASSUME Inv, SumOf(frac, N) + rem >= CF
  PROVE  bank[Reserve] >= 1
<1>1. CF \in Nat /\ CF > 0 /\ bank[Reserve] \in Nat /\ SumOf(frac, N) \in Nat
      /\ rem \in Nat /\ surplus \in Nat /\ bank[Reserve] * CF = SumOf(frac, N) + rem + surplus
  BY InvFacts, FracsSum
<1>2. CASE bank[Reserve] = 0
  <2>1. bank[Reserve] * CF = 0
    BY <1>1, <1>2
  <2> QED BY <1>1, <2>1
<1> QED BY <1>1, <1>2

-----------------------------------------------------------------------------

(* Transfers                                                               *)

(* c, g: the stores after x extended units went from one account to        *)
(* another, starting from the integer balances b.                          *)
Sent(b, c, g, from, to, x) ==
  /\ c \in Balances /\ Unlocked(c) /\ g \in Fracs
  /\ Total(c) = Total(b)
  /\ c[Reserve] * CF = SumOf(g, N) + rem + surplus
  /\ c[from] * CF + g[from] = b[from] * CF + frac[from] - x
  /\ c[to] * CF + g[to] = b[to] * CF + frac[to] + x
  /\ \A a \in Accounts : a # from /\ a # to => c[a] = b[a] /\ g[a] = frac[a]

(* The two fractions of a transfer, and what the reserve must gain or pay. *)
LEMMA SendFracs ==
  ASSUME Inv, NEW from \in Accounts, NEW to \in Accounts, from # to,
         NEW f \in 0 .. CF - 1, NEW g,
         g = SentFractions(from, to, f)
  PROVE  /\ g \in Fracs /\ SumOf(g, N) \in Int
         /\ g[from] = frac[from] - f + (IF NeedsBorrow(frac[from], f) THEN CF ELSE 0)
         /\ g[to] = frac[to] + f - (IF NeedsCarry(frac[to], f) THEN CF ELSE 0)
         /\ \A a \in Accounts : a # from /\ a # to => g[a] = frac[a]
         /\ SumOf(g, N) = SumOf(frac, N) + (IF NeedsBorrow(frac[from], f) THEN CF ELSE 0)
                                         - (IF NeedsCarry(frac[to], f) THEN CF ELSE 0)
<1> DEFINE v == subFromFractionalBalance(frac[from], f)
           w == addToFractionalBalance(frac[to], f)
           h == [frac EXCEPT ![from] = v]
<1>1. frac \in Fracs /\ CF \in Nat
  BY InvFacts, Zenon
<1>2. frac[from] \in 0 .. CF - 1 /\ frac[to] \in 0 .. CF - 1 /\ SumOf(frac, N) \in Nat
  BY <1>1, FracsSum, Zenon
<1>a. v \in 0 .. CF - 1 /\ w \in 0 .. CF - 1
  BY <1>2, FracArith, Zenon
<1>3. /\ v = frac[from] - f + (IF NeedsBorrow(frac[from], f) THEN CF ELSE 0)
      /\ w = frac[to] + f - (IF NeedsCarry(frac[to], f) THEN CF ELSE 0)
  BY <1>2, FracArith, Zenon
<1> HIDE DEF v, w
<1>4. h \in Fracs /\ h[from] = v /\ \A c \in Accounts : c # from => h[c] = frac[c]
  BY <1>1, <1>a, Zenon DEF Fracs
<1>5. g \in Fracs /\ g[to] = w /\ \A c \in Accounts : c # to => g[c] = h[c]
  <2>1. g = [frac EXCEPT ![from] = v, ![to] = w]
    BY Zenon DEF v, w, SentFractions
  <2> QED BY <1>1, <1>a, <2>1, Zenon DEF Fracs
<1> HIDE DEF h
<1>6. SumOf(h, N) = SumOf(frac, N) - frac[from] + v
  BY <1>1, <1>4, FracUpdate, Zenon
<1>7. SumOf(g, N) = SumOf(h, N) - h[to] + w
  BY <1>4, <1>5, FracUpdate, Zenon
<1> DEFINE B == IF NeedsBorrow(frac[from], f) THEN CF ELSE 0
           C == IF NeedsCarry(frac[to], f) THEN CF ELSE 0
<1>8. B \in Nat /\ C \in Nat
  BY <1>1, Zenon
<1>9. SumOf(g, N) = SumOf(frac, N) - frac[from] + v - frac[to] + w
  BY <1>2, <1>a, <1>4, <1>6, <1>7
<1>10. v = frac[from] - f + B /\ w = frac[to] + f - C
  BY <1>3, Zenon
<1>11. SumOf(g, N) = SumOf(frac, N) + B - C
  <2> HIDE DEF B, C
  <2> QED BY <1>2, <1>a, <1>8, <1>9, <1>10
<1>12. SumOf(g, N) \in Int
  BY <1>2, <1>a, <1>9
<1> QED BY <1>3, <1>4, <1>5, <1>11, <1>12, Zenon

(* The integer side: B coins borrowed, C coins carried, d sent directly.   *)
LEMMA SentWhole ==
  ASSUME Inv, NEW from \in Accounts, NEW to \in Accounts, from # to,
         NEW f \in 0 .. CF - 1, NEW q \in Nat, NEW x \in Nat, x = q * CF + f,
         NEW b \in Balances, b[Reserve] = bank[Reserve],
         NEW B \in Int, B = (IF NeedsBorrow(frac[from], f) THEN 1 ELSE 0),
         NEW C \in Int, C = (IF NeedsCarry(frac[to], f) THEN 1 ELSE 0),
         NEW c \in Balances, Unlocked(c), Total(c) = Total(b),
         c[from] = b[from] - q - B, c[to] = b[to] + q + C,
         c[Reserve] = b[Reserve] + B - C,
         \A a \in Accounts : a # from /\ a # to => c[a] = b[a]
  PROVE  Sent(b, c, SentFractions(from, to, f), from, to, x)
<1> DEFINE g == SentFractions(from, to, f)
<1>1. /\ frac \in Fracs /\ CF \in Nat /\ CF > 0 /\ rem \in Nat /\ surplus \in Nat
      /\ bank[Reserve] \in Nat /\ bank[Reserve] * CF = SumOf(frac, N) + rem + surplus
      /\ SumOf(frac, N) \in Nat
  BY InvFacts, FracsSum
<1>2. frac[from] \in 0 .. CF - 1 /\ frac[to] \in 0 .. CF - 1
  BY <1>1, FracsSum, Zenon
<1>3. b[from] \in Nat /\ b[to] \in Nat
  BY HoldersSplit, Zenon DEF Balances
<1>4. /\ B * CF = (IF NeedsBorrow(frac[from], f) THEN CF ELSE 0)
      /\ C * CF = (IF NeedsCarry(frac[to], f) THEN CF ELSE 0)
      /\ B * CF \in Int /\ C * CF \in Int
  BY <1>1
<1>5. /\ g \in Fracs /\ SumOf(g, N) \in Int
      /\ g[from] = frac[from] - f + B * CF
      /\ g[to] = frac[to] + f - C * CF
      /\ \A a \in Accounts : a # from /\ a # to => g[a] = frac[a]
      /\ SumOf(g, N) = SumOf(frac, N) + B * CF - C * CF
  BY <1>4, SendFracs
<1> HIDE DEF g
<1> DEFINE qc == q * CF
           fc == b[from] * CF
           tc == b[to] * CF
           rc == bank[Reserve] * CF
           BC == B * CF
           CC == C * CF
<1>6. c[from] * CF = fc - qc - BC
  BY <1>1, <1>3, Distribute3
<1>7. c[to] * CF = tc + qc + CC
  BY <1>1, <1>3, Distribute3
<1>8. c[Reserve] * CF = rc + BC - CC
  <2>1. c[Reserve] = bank[Reserve] + B - C
    BY Zenon
  <2>2. (bank[Reserve] + B - C) * CF = bank[Reserve] * CF + B * CF - C * CF
    <3> DEFINE r == bank[Reserve]
    <3>1. r \in Int /\ CF \in Int
      BY <1>1
    <3> HIDE DEF r
    <3>2. (r + B - C) * CF = r * CF + B * CF - C * CF
      BY <3>1, Distribute3
    <3> QED BY <3>2, Zenon DEF r
  <2> QED BY <2>1, <2>2, Zenon
<1>9. /\ qc \in Int /\ fc \in Int /\ tc \in Int /\ rc \in Int /\ BC \in Int /\ CC \in Int
      /\ x = qc + f /\ g[from] = frac[from] - f + BC /\ g[to] = frac[to] + f - CC
      /\ SumOf(g, N) = SumOf(frac, N) + BC - CC /\ rc = SumOf(frac, N) + rem + surplus
  BY <1>1, <1>3, <1>5
<1> HIDE DEF qc, fc, tc, rc, BC, CC
<1>10. c[Reserve] * CF = SumOf(g, N) + rem + surplus
  BY <1>1, <1>8, <1>9
<1>11. c[from] * CF + g[from] = b[from] * CF + frac[from] - x
  <2>1. c[from] * CF + g[from] = fc + frac[from] - x
    BY <1>2, <1>6, <1>9
  <2> QED BY <2>1, Zenon DEF fc
<1>12. c[to] * CF + g[to] = b[to] * CF + frac[to] + x
  <2>1. c[to] * CF + g[to] = tc + frac[to] + x
    BY <1>2, <1>7, <1>9
  <2> QED BY <2>1, Zenon DEF tc
<1>13. Sent(b, c, g, from, to, x)
  BY <1>5, <1>10, <1>11, <1>12, Zenon DEF Sent
<1> QED BY <1>13, Zenon DEF g

LEMMA SendExtended ==
  ASSUME Inv, NEW from \in Accounts, NEW to \in Accounts, from # to, NEW x \in Nat,
         NEW b \in Balances, Unlocked(b), b[Reserve] = bank[Reserve],
         NEW e, e = sendExtendedCoins(b, from, to, x)
  PROVE  \/ /\ e.res = "ok"
            /\ x <= b[from] * CF + frac[from] - Locked[from] * CF
            /\ Sent(b, e.bank, e.frac, from, to, x)
         \/ /\ e.res = "insufficient"
            /\ ~ (x <= b[from] * CF + frac[from] - Locked[from] * CF)
<1> DEFINE f == x % CF
           q == x \div CF
           borrow == NeedsBorrow(frac[from], f)
           carry == NeedsCarry(frac[to], f)
           s == b[from] - Locked[from] - q
<1>1. q \in Nat /\ f \in 0 .. CF - 1 /\ x = q * CF + f
  BY Split, Zenon
<1> HIDE DEF f, q
<1>2. /\ frac \in Fracs /\ CF \in Nat /\ CF > 0 /\ rem \in Nat /\ surplus \in Nat
      /\ bank[Reserve] \in Nat /\ bank[Reserve] * CF = SumOf(frac, N) + rem + surplus
      /\ SumOf(frac, N) \in Nat
  BY InvFacts, FracsSum
<1>3. frac[from] \in 0 .. CF - 1 /\ frac[to] \in 0 .. CF - 1
      /\ frac[from] + frac[to] <= SumOf(frac, N)
  BY <1>2, FracsSum, Zenon
<1>4. /\ from \in Holders /\ to \in Holders /\ Reserve \in Holders
      /\ from # Reserve /\ to # Reserve
  BY HoldersSplit, Zenon
<1>5. b[from] \in Nat /\ Locked[from] \in Nat /\ b[to] \in Nat
  BY Spendable, Zenon
<1>6. x <= b[from] * CF + frac[from] - Locked[from] * CF <=> s >= (IF borrow THEN 1 ELSE 0)
  <2>1. f - frac[from] \in (1 - CF) .. CF - 1 /\ s \in Int
    BY <1>1, <1>2, <1>3, <1>5
  <2>2. f - frac[from] <= s * CF <=> s >= (IF f - frac[from] > 0 THEN 1 ELSE 0)
    <3> HIDE DEF s
    <3> QED BY <2>1, Cover, Zenon
  <2>3. s * CF = b[from] * CF - Locked[from] * CF - q * CF
    BY <1>1, <1>2, <1>5
  <2>4. borrow <=> f - frac[from] > 0
    BY <1>1, <1>2, <1>3 DEF NeedsBorrow
  <2>5. b[from] * CF \in Int /\ Locked[from] * CF \in Int /\ q * CF \in Int /\ s * CF \in Int
    BY <1>1, <1>2, <1>5
  <2> QED BY <1>1, <1>3, <2>2, <2>3, <2>4, <2>5
<1> DEFINE g == SentFractions(from, to, f)
<1>8. carry /\ ~borrow => bank[Reserve] >= 1
  <2>1. carry /\ ~borrow => SumOf(frac, N) + rem >= CF
    BY <1>1, <1>2, <1>3 DEF NeedsBorrow, NeedsCarry
  <2> QED BY <2>1, ReserveHasCoin, Zenon
<1> DEFINE direct == DirectCoins(x, borrow, carry)
           sent == Move(b, from, to, direct)
           lent == IF borrow /\ ~carry THEN Move(sent, from, Reserve, 1) ELSE sent
           paid == IF carry /\ ~borrow THEN Move(lent, Reserve, to, 1) ELSE lent
<1>9. e = [res |-> IF \/ ~CanDebit(b, from, direct)
                      \/ borrow /\ ~carry /\ ~CanDebit(sent, from, 1)
                   THEN "insufficient"
                   ELSE IF carry /\ ~borrow /\ ~CanDebit(lent, Reserve, 1)
                   THEN "reserve" ELSE "ok",
           bank |-> paid, frac |-> g]
  BY Zenon DEF sendExtendedCoins, f
<1>10. direct = q + (IF borrow /\ carry THEN 1 ELSE 0)
  BY Zenon DEF DirectCoins, q
<1> HIDE DEF g, borrow, carry, direct
<1>11. direct \in Nat /\ (CanDebit(b, from, direct) <=> direct <= b[from] - Locked[from])
  BY <1>1, <1>10, Spendable
<1>12. CanDebit(b, from, direct) =>
         /\ sent \in Balances /\ Unlocked(sent) /\ Total(sent) = Total(b)
         /\ sent[from] = b[from] - direct /\ sent[to] = b[to] + direct
         /\ \A a \in Holders : a # from /\ a # to => sent[a] = b[a]
  BY <1>4, <1>11, MoveEffect
<1> HIDE DEF sent
<1>13. ASSUME NEW c \in Balances, Unlocked(c), Total(c) = Total(b),
              c[from] = b[from] - q - (IF borrow THEN 1 ELSE 0),
              c[to] = b[to] + q + (IF carry THEN 1 ELSE 0),
              c[Reserve] = b[Reserve] + (IF borrow THEN 1 ELSE 0) - (IF carry THEN 1 ELSE 0),
              \A a \in Accounts : a # from /\ a # to => c[a] = b[a]
       PROVE  Sent(b, c, g, from, to, x)
  <2> DEFINE B == IF borrow THEN 1 ELSE 0
             C == IF carry THEN 1 ELSE 0
  <2>1. B \in Int /\ C \in Int
    OBVIOUS
  <2>2. /\ B = (IF NeedsBorrow(frac[from], f) THEN 1 ELSE 0)
        /\ C = (IF NeedsCarry(frac[to], f) THEN 1 ELSE 0)
    BY Zenon DEF borrow, carry
  <2>3. c[from] = b[from] - q - B /\ c[to] = b[to] + q + C /\ c[Reserve] = b[Reserve] + B - C
    BY <1>13, Zenon
  <2> HIDE DEF B, C
  <2> QED BY <1>1, <1>13, <2>1, <2>2, <2>3, SentWhole DEF g
<1>14. CASE ~borrow /\ ~carry
  <2>1. direct = q /\ paid = sent
    BY <1>1, <1>10, <1>14
  <2>2. CASE ~CanDebit(b, from, direct)
    BY <1>1, <1>5, <1>6, <1>9, <1>11, <1>14, <2>1, <2>2
  <2>3. CASE CanDebit(b, from, direct)
    <3>1. e.res = "ok" /\ e.bank = sent /\ e.frac = g
      BY <1>9, <1>14, <2>1, <2>3
    <3>2. Sent(b, sent, g, from, to, x)
      <4>1. /\ sent \in Balances /\ Unlocked(sent) /\ Total(sent) = Total(b)
            /\ \A a \in Accounts : a # from /\ a # to => sent[a] = b[a]
        BY <1>12, <2>3, HoldersSplit, Zenon
      <4>2. /\ sent[from] = b[from] - q - (IF borrow THEN 1 ELSE 0)
            /\ sent[to] = b[to] + q + (IF carry THEN 1 ELSE 0)
        BY <1>1, <1>5, <1>12, <1>14, <2>1, <2>3
      <4>3. sent[Reserve] = b[Reserve] + (IF borrow THEN 1 ELSE 0) - (IF carry THEN 1 ELSE 0)
        BY <1>2, <1>4, <1>12, <1>14, <2>3
      <4> QED BY <1>13, <4>1, <4>2, <4>3, Zenon
    <3> QED BY <1>1, <1>5, <1>6, <1>11, <1>14, <2>1, <2>3, <3>1, <3>2
  <2> QED BY <2>2, <2>3, Zenon
<1>15. CASE borrow /\ carry
  <2>1. direct = q + 1 /\ paid = sent
    BY <1>1, <1>10, <1>15, Zenon
  <2>2. CASE ~CanDebit(b, from, direct)
    BY <1>1, <1>5, <1>6, <1>9, <1>11, <1>15, <2>1, <2>2
  <2>3. CASE CanDebit(b, from, direct)
    <3>1. e.res = "ok" /\ e.bank = sent /\ e.frac = g
      BY <1>9, <1>15, <2>1, <2>3
    <3>2. Sent(b, sent, g, from, to, x)
      <4>1. /\ sent \in Balances /\ Unlocked(sent) /\ Total(sent) = Total(b)
            /\ \A a \in Accounts : a # from /\ a # to => sent[a] = b[a]
        BY <1>12, <2>3, HoldersSplit, Zenon
      <4>2. /\ sent[from] = b[from] - q - (IF borrow THEN 1 ELSE 0)
            /\ sent[to] = b[to] + q + (IF carry THEN 1 ELSE 0)
        BY <1>1, <1>5, <1>12, <1>15, <2>1, <2>3
      <4>3. sent[Reserve] = b[Reserve] + (IF borrow THEN 1 ELSE 0) - (IF carry THEN 1 ELSE 0)
        BY <1>2, <1>4, <1>12, <1>15, <2>3
      <4> QED BY <1>13, <4>1, <4>2, <4>3, Zenon
    <3> QED BY <1>1, <1>5, <1>6, <1>11, <1>15, <2>1, <2>3, <3>1, <3>2
  <2> QED BY <2>2, <2>3, Zenon
<1>16. CASE borrow /\ ~carry
  <2> DEFINE c == Move(sent, from, Reserve, 1)
  <2>1. direct = q /\ paid = c
    BY <1>1, <1>10, <1>16
  <2>2. CASE ~CanDebit(b, from, direct)
    BY <1>1, <1>5, <1>6, <1>9, <1>11, <1>16, <2>1, <2>2
  <2>3. CASE CanDebit(b, from, direct)
    <3>1. CanDebit(sent, from, 1) <=> 1 <= b[from] - q - Locked[from]
      BY <1>12, <2>1, <2>3, Spendable, Zenon
    <3>2. CASE ~CanDebit(sent, from, 1)
      BY <1>1, <1>5, <1>6, <1>9, <1>16, <3>1, <3>2
    <3>3. CASE CanDebit(sent, from, 1)
      <4>1. e.res = "ok" /\ e.bank = c /\ e.frac = g
        BY <1>9, <1>16, <2>1, <2>3, <3>3
      <4>2. /\ c \in Balances /\ Unlocked(c) /\ Total(c) = Total(b)
            /\ c[from] = sent[from] - 1 /\ c[Reserve] = sent[Reserve] + 1
            /\ \A a \in Holders : a # from /\ a # Reserve => c[a] = sent[a]
        BY <1>4, <1>12, <2>3, <3>3, MoveEffect
      <4> HIDE DEF c
      <4>3. /\ c[from] = b[from] - q - (IF borrow THEN 1 ELSE 0)
            /\ c[to] = b[to] + q + (IF carry THEN 1 ELSE 0)
            /\ c[Reserve] = b[Reserve] + (IF borrow THEN 1 ELSE 0) - (IF carry THEN 1 ELSE 0)
            /\ \A a \in Accounts : a # from /\ a # to => c[a] = b[a]
        BY <1>1, <1>2, <1>4, <1>5, <1>12, <1>16, <2>1, <2>3, <4>2, HoldersSplit
      <4>4. Sent(b, c, g, from, to, x)
        BY <1>13, <4>2, <4>3, Zenon
      <4> QED BY <1>1, <1>5, <1>6, <1>16, <3>1, <3>3, <4>1, <4>4
    <3> QED BY <3>2, <3>3, Zenon
  <2> QED BY <2>2, <2>3, Zenon
<1>17. CASE ~borrow /\ carry
  <2> DEFINE c == Move(sent, Reserve, to, 1)
  <2>1. direct = q /\ paid = c /\ lent = sent
    BY <1>1, <1>10, <1>17
  <2>2. CASE ~CanDebit(b, from, direct)
    BY <1>1, <1>5, <1>6, <1>9, <1>11, <1>17, <2>1, <2>2
  <2>3. CASE CanDebit(b, from, direct)
    <3>1. CanDebit(sent, Reserve, 1)
      BY <1>2, <1>4, <1>8, <1>12, <1>17, <2>3 DEF CanDebit
    <3>2. e.res = "ok" /\ e.bank = c /\ e.frac = g
      BY <1>9, <1>17, <2>1, <2>3, <3>1
    <3>3. /\ c \in Balances /\ Unlocked(c) /\ Total(c) = Total(b)
          /\ c[Reserve] = sent[Reserve] - 1 /\ c[to] = sent[to] + 1
          /\ \A a \in Holders : a # to /\ a # Reserve => c[a] = sent[a]
      BY <1>4, <1>12, <2>3, <3>1, MoveEffect
    <3> HIDE DEF c
    <3>4. /\ c[from] = b[from] - q - (IF borrow THEN 1 ELSE 0)
          /\ c[to] = b[to] + q + (IF carry THEN 1 ELSE 0)
          /\ c[Reserve] = b[Reserve] + (IF borrow THEN 1 ELSE 0) - (IF carry THEN 1 ELSE 0)
          /\ \A a \in Accounts : a # from /\ a # to => c[a] = b[a]
      BY <1>1, <1>2, <1>4, <1>5, <1>12, <1>17, <2>1, <2>3, <3>3, HoldersSplit
    <3>5. Sent(b, c, g, from, to, x)
      BY <1>13, <3>3, <3>4, Zenon
    <3> QED BY <1>1, <1>5, <1>6, <1>11, <1>17, <2>1, <2>3, <3>2, <3>5
  <2> QED BY <2>2, <2>3, Zenon
<1> QED BY <1>14, <1>15, <1>16, <1>17, Zenon

-----------------------------------------------------------------------------

(* Mints and burns                                                         *)

(* c, t, g, r: the stores after x extended units (negative for a burn)     *)
(* came to account m, starting from the integer balances b and supply s.   *)
Booked(b, s, c, t, g, r, m, x) ==
  /\ c \in Balances /\ Unlocked(c) /\ g \in Fracs /\ r \in 0 .. CF - 1
  /\ t = Total(c)
  /\ c[Reserve] * CF = SumOf(g, N) + r + surplus
  /\ c[m] * CF + g[m] = b[m] * CF + frac[m] + x
  /\ \A a \in Accounts : a # m => c[a] = b[a] /\ g[a] = frac[a]
  /\ t * CF - r = s * CF - rem + x

(* D coins come to the account and E to the reserve.                       *)
LEMMA BookWhole ==
  ASSUME Inv, NEW m \in Accounts, NEW x \in Int, NEW D \in Int, NEW E \in Int,
         NEW b \in Balances, b[Reserve] = bank[Reserve],
         NEW c \in Balances, Unlocked(c), Total(c) = Total(b) + D + E,
         c[m] = b[m] + D, c[Reserve] = b[Reserve] + E,
         \A a \in Accounts : a # m => c[a] = b[a],
         NEW g \in Fracs, g[m] = frac[m] + x - D * CF,
         \A a \in Accounts : a # m => g[a] = frac[a],
         NEW r \in 0 .. CF - 1, r = rem - x + D * CF + E * CF,
         NEW s \in Nat, s = Total(b), NEW t, t = s + D + E
  PROVE  Booked(b, s, c, t, g, r, m, x)
<1>1. /\ frac \in Fracs /\ CF \in Int /\ rem \in Nat /\ surplus \in Nat
      /\ bank[Reserve] \in Int /\ bank[Reserve] * CF = SumOf(frac, N) + rem + surplus
      /\ SumOf(frac, N) \in Nat
  BY InvFacts, FracsSum
<1>2. frac[m] \in 0 .. CF - 1 /\ b[m] \in Int
  BY <1>1, FracsSum, HoldersSplit DEF Balances
<1>3. SumOf(g, N) = SumOf(frac, N) - frac[m] + g[m]
  BY <1>1, FracUpdate, Zenon
<1> DEFINE d == D * CF
           e == E * CF
           mc == b[m] * CF
           rc == bank[Reserve] * CF
           sc == s * CF
<1>4. c[m] * CF = mc + d
  BY <1>1, <1>2, Distribute
<1>5. c[Reserve] * CF = rc + e
  BY <1>1, Distribute
<1>6. t * CF = sc + d + e
  BY <1>1, Distribute3
<1>7. /\ d \in Int /\ e \in Int /\ mc \in Int /\ rc \in Int /\ sc \in Int
      /\ g[m] = frac[m] + x - d /\ r = rem - x + d + e
      /\ rc = SumOf(frac, N) + rem + surplus
  BY <1>1, <1>2
<1> HIDE DEF d, e, mc, rc, sc
<1>8. c[Reserve] * CF = SumOf(g, N) + r + surplus
  BY <1>1, <1>2, <1>3, <1>5, <1>7
<1>9. c[m] * CF + g[m] = b[m] * CF + frac[m] + x
  <2>1. c[m] * CF + g[m] = mc + frac[m] + x
    BY <1>2, <1>4, <1>7
  <2> QED BY <2>1, Zenon DEF mc
<1>10. t * CF - r = s * CF - rem + x
  <2>1. t * CF - r = sc - rem + x
    BY <1>1, <1>6, <1>7
  <2> QED BY <2>1, Zenon DEF sc
<1> QED BY <1>8, <1>9, <1>10, Zenon DEF Booked

LEMMA MintExtended ==
  ASSUME Inv, NEW m \in Accounts, NEW x \in Nat,
         NEW b \in Balances, Unlocked(b), b[Reserve] = bank[Reserve],
         NEW s \in Nat, s = Total(b),
         NEW e, e = mintExtendedCoin(b, s, m, x)
  PROVE  e.res = "ok" /\ Booked(b, s, e.bank, e.supply, e.frac, e.rem, m, x)
<1> DEFINE f == x % CF
           q == x \div CF
           carry == NeedsCarry(frac[m], f)
           short == rem < f
           carried == IF carry /\ ~short THEN Move(b, Reserve, m, 1) ELSE b
           minted == q + (IF carry /\ short THEN 1 ELSE 0)
           backing == ReserveMint(carry, short)
           g == [frac EXCEPT ![m] = addToFractionalBalance(@, f)]
           r == IF short THEN rem - f + CF ELSE rem - f
           c == Credit(Credit(carried, m, minted), Reserve, backing)
<1>1. e = [res |-> IF carry /\ ~short /\ ~CanDebit(b, Reserve, 1) THEN "reserve" ELSE "ok",
           bank |-> c, supply |-> s + minted + backing, frac |-> g, rem |-> r]
  BY Zenon DEF mintExtendedCoin
<1>2. q \in Nat /\ f \in 0 .. CF - 1 /\ x = q * CF + f
  BY Split, Zenon
<1>3. /\ frac \in Fracs /\ CF \in Nat /\ CF > 0 /\ rem \in 0 .. CF - 1 /\ surplus \in Nat
      /\ bank[Reserve] \in Nat /\ SumOf(frac, N) \in Nat
      /\ frac[m] \in 0 .. CF - 1 /\ frac[m] <= SumOf(frac, N)
  BY InvFacts, FracsSum, Zenon
<1> HIDE DEF f, q
<1>4. m \in Holders /\ Reserve \in Holders /\ m # Reserve /\ b[m] \in Nat
  BY HoldersSplit, Zenon DEF Balances
<1>5. carry /\ ~short => CanDebit(b, Reserve, 1)
  <2>1. carry /\ ~short => SumOf(frac, N) + rem >= CF
    BY <1>2, <1>3 DEF NeedsCarry
  <2>2. carry /\ ~short => bank[Reserve] >= 1
    BY <2>1, ReserveHasCoin, Zenon
  <2> QED BY <1>3, <2>2 DEF CanDebit
<1>6. g \in Fracs /\ g[m] = frac[m] + f - (IF carry THEN CF ELSE 0)
      /\ \A a \in Accounts : a # m => g[a] = frac[a]
  <2> DEFINE v == addToFractionalBalance(frac[m], f)
  <2>1. v \in 0 .. CF - 1 /\ v = frac[m] + f - (IF carry THEN CF ELSE 0)
    BY <1>2, <1>3, FracArith, Zenon
  <2>2. g = [frac EXCEPT ![m] = v]
    BY Zenon
  <2> HIDE DEF v, g, carry
  <2>3. g \in Fracs /\ g[m] = v /\ \A a \in Accounts : a # m => g[a] = frac[a]
    BY <1>3, <2>1, <2>2, Zenon DEF Fracs
  <2> QED BY <2>1, <2>3, Zenon
<1>7. r \in 0 .. CF - 1 /\ r = rem - f + (IF short THEN CF ELSE 0)
  BY <1>2, <1>3
<1>8. minted \in Nat /\ backing \in Nat /\ backing = (IF short /\ ~carry THEN 1 ELSE 0)
  BY <1>2 DEF ReserveMint
<1> DEFINE D == q + (IF carry THEN 1 ELSE 0)
           E == (IF short THEN 1 ELSE 0) - (IF carry THEN 1 ELSE 0)
<1> HIDE DEF carry, short, g, r
<1>9. /\ carried \in Balances /\ Unlocked(carried) /\ Total(carried) = Total(b)
      /\ carried[m] = b[m] + (IF carry /\ ~short THEN 1 ELSE 0)
      /\ carried[Reserve] = b[Reserve] - (IF carry /\ ~short THEN 1 ELSE 0)
      /\ \A a \in Accounts : a # m => carried[a] = b[a]
  <2>1. CASE carry /\ ~short
    BY <1>4, <1>5, <2>1, MoveEffect, HoldersSplit
  <2>2. CASE ~ (carry /\ ~short)
    BY <1>3, <1>4, <2>2
  <2> QED BY <2>1, <2>2, Zenon
<1> DEFINE c1 == Credit(carried, m, minted)
<1>10. /\ c1 \in Balances /\ Unlocked(c1) /\ Total(c1) = Total(b) + minted
       /\ c1[m] = carried[m] + minted /\ c1[Reserve] = carried[Reserve]
       /\ \A a \in Accounts : a # m => c1[a] = b[a]
  <2> HIDE DEF carried, minted
  <2>1. carried \in Balances /\ minted \in Nat
    BY <1>8, <1>9, Zenon
  <2>2. c1 \in Balances /\ Total(c1) = Total(carried) + minted
    BY <1>4, <2>1, CreditEffect, Zenon
  <2>3. c1[m] = carried[m] + minted /\ \A a \in Holders : a # m => c1[a] = carried[a]
    BY <1>4, <2>1, Zenon DEF Credit, Balances
  <2>4. Unlocked(carried) => Unlocked(c1)
    BY <1>4, <2>1, CreditEffect, Zenon
  <2> HIDE DEF c1
  <2> QED BY <1>4, <1>9, <2>2, <2>3, <2>4, HoldersSplit, Zenon
<1>11. /\ c \in Balances /\ Unlocked(c) /\ Total(c) = Total(b) + minted + backing
       /\ c[m] = carried[m] + minted /\ c[Reserve] = carried[Reserve] + backing
       /\ \A a \in Accounts : a # m => c[a] = b[a]
  <2> HIDE DEF c1, backing
  <2>1. c = Credit(c1, Reserve, backing)
    BY Zenon DEF c1
  <2> HIDE DEF c, carried, minted
  <2>2. c1 \in Balances /\ backing \in Nat /\ Total(b) + minted \in Nat
    BY <1>8, <1>10, CreditEffect
  <2>3. c \in Balances /\ Total(c) = Total(c1) + backing
    BY <1>4, <2>1, <2>2, CreditEffect
  <2>4. c[Reserve] = c1[Reserve] + backing /\ \A a \in Holders : a # Reserve => c[a] = c1[a]
    BY <1>4, <2>1, <2>2, Zenon DEF Credit, Balances
  <2>5. Unlocked(c1) => Unlocked(c)
    BY <1>4, <2>1, <2>2, CreditEffect, Zenon
  <2> QED BY <1>4, <1>10, <2>2, <2>3, <2>4, <2>5, HoldersSplit, Zenon
<1> HIDE DEF c, backing, carried
<1>12. /\ minted + backing = D + E /\ D \in Int /\ E \in Int
       /\ c[m] = b[m] + D /\ c[Reserve] = b[Reserve] + E
  BY <1>2, <1>3, <1>4, <1>8, <1>9, <1>11
<1>13. /\ D * CF = q * CF + (IF carry THEN CF ELSE 0)
       /\ E * CF = (IF short THEN CF ELSE 0) - (IF carry THEN CF ELSE 0)
       /\ q * CF \in Int
  BY <1>2, <1>3
<1>14. g[m] = frac[m] + x - D * CF /\ r = rem - x + D * CF + E * CF
  <2> HIDE DEF D, E
  <2> QED BY <1>2, <1>3, <1>6, <1>7, <1>13
<1>15. Total(b) \in Nat /\ Total(c) = Total(b) + D + E /\ s + minted + backing = s + D + E
  <2> HIDE DEF D, E, minted
  <2> QED BY <1>8, <1>11, <1>12
<1>16. Booked(b, s, c, s + minted + backing, g, r, m, x)
  <2> HIDE DEF D, E, minted
  <2> QED BY <1>6, <1>7, <1>11, <1>12, <1>14, <1>15, BookWhole
<1>17. e.res = "ok" /\ e.bank = c /\ e.supply = s + minted + backing /\ e.frac = g /\ e.rem = r
  <2> DEFINE t == s + minted + backing
             ok == IF carry /\ ~short /\ ~CanDebit(b, Reserve, 1) THEN "reserve" ELSE "ok"
  <2>1. e = [res |-> ok, bank |-> c, supply |-> t, frac |-> g, rem |-> r]
    BY <1>1, Zenon
  <2>2. ok = "ok"
    BY <1>5, Zenon
  <2> HIDE DEF minted, t, ok
  <2>3. e.res = "ok" /\ e.bank = c /\ e.supply = t /\ e.frac = g /\ e.rem = r
    BY <2>1, <2>2
  <2> QED BY <2>3, Zenon DEF t
<1> QED BY <1>16, <1>17, Zenon

LEMMA BurnExtended ==
  ASSUME Inv, NEW m \in Accounts, NEW x \in Nat,
         NEW b \in Balances, Unlocked(b), b[Reserve] = bank[Reserve],
         NEW s \in Nat, s = Total(b),
         NEW e, e = burnExtendedCoin(b, s, m, x)
  PROVE  \/ /\ e.res = "ok"
            /\ x <= b[m] * CF + frac[m] - Locked[m] * CF
            /\ Booked(b, s, e.bank, e.supply, e.frac, e.rem, m, -x)
         \/ /\ e.res = "insufficient"
            /\ ~ (x <= b[m] * CF + frac[m] - Locked[m] * CF)
<1> DEFINE f == x % CF
           q == x \div CF
           borrow == NeedsBorrow(frac[m], f)
           overflow == rem + f >= CF
           lent == IF borrow /\ ~overflow THEN Move(b, m, Reserve, 1) ELSE b
           unbacked == IF overflow /\ ~borrow THEN 1 ELSE 0
           burned == q + (IF borrow /\ overflow THEN 1 ELSE 0)
           g == [frac EXCEPT ![m] = subFromFractionalBalance(@, f)]
           r == IF overflow THEN rem + f - CF ELSE rem + f
           c1 == Debit(lent, Reserve, unbacked)
           c == Debit(c1, m, burned)
           u == b[m] - Locked[m] - q
           B == IF borrow THEN 1 ELSE 0
           O == IF overflow THEN 1 ELSE 0
<1>1. e = [res |-> IF borrow /\ ~overflow /\ ~CanDebit(b, m, 1) THEN "insufficient"
                   ELSE IF ~CanDebit(lent, Reserve, unbacked) THEN "reserve"
                   ELSE IF ~CanDebit(lent, m, burned) THEN "insufficient" ELSE "ok",
           bank |-> c, supply |-> s - burned - unbacked, frac |-> g, rem |-> r]
  BY Zenon DEF burnExtendedCoin
<1>2. q \in Nat /\ f \in 0 .. CF - 1 /\ x = q * CF + f
  BY Split, Zenon
<1>3. /\ frac \in Fracs /\ CF \in Nat /\ CF > 0 /\ rem \in 0 .. CF - 1 /\ surplus \in Nat
      /\ bank[Reserve] \in Nat /\ SumOf(frac, N) \in Nat
      /\ frac[m] \in 0 .. CF - 1 /\ frac[m] <= SumOf(frac, N)
  BY InvFacts, FracsSum, Zenon
<1> HIDE DEF f, q
<1>4. m \in Holders /\ Reserve \in Holders /\ m # Reserve /\ b[m] \in Nat /\ Locked[m] \in Nat
  BY HoldersSplit, Spendable, Zenon
<1>5. x <= b[m] * CF + frac[m] - Locked[m] * CF <=> u >= B
  <2>1. f - frac[m] \in (1 - CF) .. CF - 1 /\ u \in Int
    BY <1>2, <1>3, <1>4
  <2>2. f - frac[m] <= u * CF <=> u >= (IF f - frac[m] > 0 THEN 1 ELSE 0)
    <3> HIDE DEF u
    <3> QED BY <2>1, Cover, Zenon
  <2>3. u * CF = b[m] * CF - Locked[m] * CF - q * CF
    BY <1>2, <1>3, <1>4
  <2>4. borrow <=> f - frac[m] > 0
    BY <1>2, <1>3 DEF NeedsBorrow
  <2>5. b[m] * CF \in Int /\ Locked[m] * CF \in Int /\ q * CF \in Int /\ u * CF \in Int
    BY <1>2, <1>3, <1>4
  <2> QED BY <1>2, <1>3, <2>2, <2>3, <2>4, <2>5
<1>6. g \in Fracs /\ g[m] = frac[m] - f + (IF borrow THEN CF ELSE 0)
      /\ \A a \in Accounts : a # m => g[a] = frac[a]
  <2> DEFINE v == subFromFractionalBalance(frac[m], f)
  <2>1. v \in 0 .. CF - 1 /\ v = frac[m] - f + (IF borrow THEN CF ELSE 0)
    BY <1>2, <1>3, FracArith, Zenon
  <2>2. g = [frac EXCEPT ![m] = v]
    BY Zenon
  <2> HIDE DEF v, g, borrow
  <2>3. g \in Fracs /\ g[m] = v /\ \A a \in Accounts : a # m => g[a] = frac[a]
    BY <1>3, <2>1, <2>2, Zenon DEF Fracs
  <2> QED BY <2>1, <2>3, Zenon
<1>7. r \in 0 .. CF - 1 /\ r = rem + f - (IF overflow THEN CF ELSE 0)
  BY <1>2, <1>3
<1>8. overflow /\ ~borrow => bank[Reserve] >= 1
  <2>1. overflow /\ ~borrow => SumOf(frac, N) + rem >= CF
    BY <1>2, <1>3 DEF NeedsBorrow
  <2> QED BY <2>1, ReserveHasCoin, Zenon
<1> HIDE DEF borrow, overflow, g, r
<1>9. CanDebit(b, m, 1) <=> 1 <= b[m] - Locked[m]
  BY Spendable, Zenon
<1>10. CASE borrow /\ ~overflow /\ ~CanDebit(b, m, 1)
  <2>1. e.res = "insufficient"
    BY <1>1, <1>10
  <2>2. ~ (u >= B)
    BY <1>2, <1>4, <1>9, <1>10
  <2> QED BY <1>5, <2>1, <2>2, Zenon
<1>11. CASE ~ (borrow /\ ~overflow /\ ~CanDebit(b, m, 1))
  <2>1. /\ lent \in Balances /\ Unlocked(lent) /\ Total(lent) = Total(b)
        /\ lent[m] = b[m] - (IF borrow /\ ~overflow THEN 1 ELSE 0)
        /\ lent[Reserve] = b[Reserve] + (IF borrow /\ ~overflow THEN 1 ELSE 0)
        /\ \A a \in Accounts : a # m => lent[a] = b[a]
    <3>1. CASE borrow /\ ~overflow
      BY <1>4, <1>11, <3>1, MoveEffect, HoldersSplit
    <3>2. CASE ~ (borrow /\ ~overflow)
      BY <1>3, <1>4, <3>2
    <3> QED BY <3>1, <3>2, Zenon
  <2> HIDE DEF lent
  <2>2. unbacked \in Nat /\ burned \in Nat /\ CanDebit(lent, Reserve, unbacked)
    BY <1>2, <1>3, <1>8, <2>1 DEF CanDebit
  <2>3. CanDebit(lent, m, burned) <=> u >= B
    <3>1. CanDebit(lent, m, burned) <=> burned <= lent[m] - Locked[m]
      BY <2>1, <2>2, Spendable, Zenon
    <3> QED BY <1>2, <1>4, <2>1, <3>1
  <2>4. CASE ~CanDebit(lent, m, burned)
    <3>1. e.res = "insufficient"
      <4> HIDE DEF unbacked, burned
      <4> QED BY <1>1, <1>11, <2>2, <2>4
    <3> QED BY <1>5, <2>3, <2>4, <3>1, Zenon
  <2>5. CASE CanDebit(lent, m, burned)
    <3>1. /\ e.res = "ok" /\ e.bank = c /\ e.supply = s - burned - unbacked
          /\ e.frac = g /\ e.rem = r
      <4> HIDE DEF unbacked, burned, c
      <4> QED BY <1>1, <1>11, <2>2, <2>5
    <3>2. Total(b) \in Nat
      BY <1>4, CreditEffect, Zenon
    <3>3. /\ c1 \in Balances /\ Unlocked(c1) /\ Total(c1) = Total(b) - unbacked
          /\ c1[m] = lent[m] /\ c1[Reserve] = lent[Reserve] - unbacked
          /\ \A a \in Accounts : a # m => c1[a] = b[a]
      <4> HIDE DEF unbacked
      <4>1. c1 \in Balances /\ Total(c1) = Total(lent) - unbacked
        BY <1>4, <2>1, <2>2, DebitEffect
      <4>2. c1[Reserve] = lent[Reserve] - unbacked /\ \A a \in Holders : a # Reserve => c1[a] = lent[a]
        BY <1>4, <2>1, Zenon DEF Debit, Balances
      <4>3. Unlocked(lent) => Unlocked(c1)
        BY <1>4, <2>1, <2>2, DebitEffect, Zenon
      <4> HIDE DEF c1
      <4> QED BY <1>4, <2>1, <4>1, <4>2, <4>3, HoldersSplit, Zenon
    <3>4. CanDebit(c1, m, burned)
      <4> HIDE DEF c1, burned
      <4> QED BY <2>5, <3>3, Zenon DEF CanDebit
    <3>5. /\ c \in Balances /\ Unlocked(c) /\ Total(c) = Total(b) - unbacked - burned
          /\ c[m] = lent[m] - burned /\ c[Reserve] = lent[Reserve] - unbacked
          /\ \A a \in Accounts : a # m => c[a] = b[a]
      <4> HIDE DEF unbacked, burned, c1
      <4>1. c \in Balances /\ Total(c) = Total(c1) - burned
        BY <1>4, <2>2, <3>3, <3>4, DebitEffect
      <4>2. c[m] = c1[m] - burned /\ \A a \in Holders : a # m => c[a] = c1[a]
        BY <1>4, <3>3, Zenon DEF Debit, Balances
      <4>3. Unlocked(c1) => Unlocked(c)
        BY <1>4, <2>2, <3>3, <3>4, DebitEffect, Zenon
      <4> HIDE DEF c
      <4> QED BY <1>4, <3>3, <4>1, <4>2, <4>3, HoldersSplit, Zenon
    <3> HIDE DEF c
    <3> DEFINE D == 0 - q - B
               E == B - O
    <3>6. /\ D \in Int /\ E \in Int /\ D + E = 0 - burned - unbacked
          /\ c[m] = b[m] + D /\ c[Reserve] = b[Reserve] + E
      BY <1>2, <1>3, <1>4, <2>1, <3>5
    <3>7. /\ D * CF = 0 - q * CF - (IF borrow THEN CF ELSE 0)
          /\ E * CF = (IF borrow THEN CF ELSE 0) - (IF overflow THEN CF ELSE 0)
          /\ q * CF \in Int
      BY <1>2, <1>3
    <3>8. g[m] = frac[m] + (-x) - D * CF /\ r = rem - (-x) + D * CF + E * CF
      <4> HIDE DEF D, E
      <4> QED BY <1>2, <1>3, <1>6, <1>7, <3>7
    <3>9. Total(c) = Total(b) + D + E /\ s - burned - unbacked = s + D + E
      <4> HIDE DEF D, E, burned, unbacked
      <4> QED BY <2>2, <3>2, <3>5, <3>6
    <3>10. Booked(b, s, c, s - burned - unbacked, g, r, m, -x)
      <4> DEFINE y == -x
                 t == s - burned - unbacked
      <4>1. y \in Int /\ g[m] = frac[m] + y - D * CF /\ r = rem - y + D * CF + E * CF
        BY <3>8
      <4>2. t = s + D + E
        BY <3>9, Zenon
      <4> HIDE DEF y, t, D, E
      <4>3. Booked(b, s, c, t, g, r, m, y)
        BY <1>6, <1>7, <3>5, <3>6, <3>9, <4>1, <4>2, BookWhole
      <4> QED BY <4>3, Zenon DEF y, t
    <3> HIDE DEF burned, unbacked
    <3> QED BY <1>5, <2>3, <2>5, <3>1, <3>10, Zenon
  <2> QED BY <2>4, <2>5, Zenon
<1> QED BY <1>10, <1>11, Zenon

-----------------------------------------------------------------------------

(* Calls                                                                   *)

(* A call that fails leaves the stores, and so the invariant, alone.       *)
LEMMA InvKept ==
  ASSUME Inv, UNCHANGED stores, surplus' = surplus,
         outcome' \in {"unauthorized", "insufficient"}
  PROVE  Inv'
<1>1. bank' = bank /\ supply' = supply /\ frac' = frac /\ rem' = rem
  BY Zenon DEF stores
<1>2. outcome' # "reserve" /\ outcome' \in Outcomes
  BY Zenon DEF Outcomes
<1> QED BY <1>1, <1>2, Zenon DEF Inv, TypeOK, ReserveBacked, ReserveNeverShort, LockedStays, Total

LEMMA InvBooked ==
  ASSUME Inv, bank' \in Balances, Unlocked(bank'), frac' \in Fracs, rem' \in 0 .. CF - 1,
         supply' = Total(bank'), bank'[Reserve] * CF = SumOf(frac', N) + rem' + surplus,
         surplus' = surplus, outcome' = "ok"
  PROVE  Inv'
<1>1. Total(bank') \in Nat
  BY TotalUpdate, HoldersSplit, Zenon
<1>2. surplus \in Nat
  BY InvFacts, Zenon
<1> QED BY <1>1, <1>2, Zenon DEF Inv, TypeOK, ReserveBacked, ReserveNeverShort, LockedStays, Total,
                          Balances, Fracs, Unlocked, Outcomes

(* What the ledger sees of an account.                                     *)
LEMMA BalanceOf ==
  ASSUME Inv, NEW a \in Accounts
  PROVE  /\ bank[a] \in Nat /\ frac[a] \in 0 .. CF - 1 /\ Locked[a] \in Nat
         /\ bank[a] * CF \in Nat /\ Locked[a] * CF \in Nat
<1>1. bank[a] \in Nat /\ frac[a] \in 0 .. CF - 1 /\ Locked[a] \in Nat /\ CF \in Nat
  BY InvFacts, Spendable, FracsSum, Zenon
<1> QED BY <1>1

(* Integer coins an account cannot spend are more than its extended        *)
(* balance allows, whatever extended coins come on top.                    *)
LEMMA NotEnough ==
  ASSUME Inv, NEW a \in Accounts, NEW i \in Nat, NEW x \in Nat, ~CanDebit(bank, a, i)
  PROVE  ~ (i * CF + x <= bank[a] * CF + frac[a] - Locked[a] * CF)
<1>1. bank[a] \in Nat /\ frac[a] \in 0 .. CF - 1 /\ Locked[a] \in Nat /\ CF \in Nat
  BY BalanceOf, CFAssumption, Zenon
<1>2. i >= bank[a] - Locked[a] + 1
  BY <1>1, InvFacts, Spendable
<1> DEFINE k == i - bank[a] + Locked[a]
<1>3. k \in Nat /\ k >= 1 /\ k * CF = i * CF - bank[a] * CF + Locked[a] * CF
  BY <1>1, <1>2
<1> HIDE DEF k
<1>4. k * CF >= CF
  BY <1>1, <1>3
<1> DEFINE ic == i * CF
           bc == bank[a] * CF
           lc == Locked[a] * CF
           kc == k * CF
<1>5. ic \in Int /\ bc \in Int /\ lc \in Int /\ kc \in Int
  BY <1>1, <1>3
<1>6. kc = ic - bc + lc /\ kc >= CF
  BY <1>3, <1>4, Zenon
<1> HIDE DEF ic, bc, lc, kc
<1>7. ~ (ic + x <= bc + frac[a] - lc)
  BY <1>1, <1>5, <1>6
<1> QED BY <1>7, Zenon DEF ic, bc, lc

Balance == [a \in Accounts |-> ExtendedBalance(a)]

(* Which accounts a transfer changes, in the ledger's terms.               *)
LEMMA LedgerMoved ==
  ASSUME Inv, NEW from \in Accounts, NEW to \in Accounts, from # to, NEW amt \in Int,
         bank'[from] * CF + frac'[from] = bank[from] * CF + frac[from] - amt,
         bank'[to] * CF + frac'[to] = bank[to] * CF + frac[to] + amt,
         \A a \in Accounts : a # from /\ a # to => bank'[a] = bank[a] /\ frac'[a] = frac[a]
  PROVE  Balance' = [Balance EXCEPT ![from] = @ - amt, ![to] = @ + amt]
<1> DEFINE B == [a \in Accounts |-> bank[a] * CF + frac[a]]
           C == [a \in Accounts |-> bank'[a] * CF + frac'[a]]
<1>1. B[from] = bank[from] * CF + frac[from] /\ B[to] = bank[to] * CF + frac[to]
  BY Zenon
<1>2. C[from] = B[from] - amt /\ C[to] = B[to] + amt
  <2>1. /\ C[from] = bank'[from] * CF + frac'[from] /\ C[to] = bank'[to] * CF + frac'[to]
    BY Zenon
  <2> HIDE DEF B, C
  <2>2. C[from] = B[from] - amt
    <3> DEFINE k == bank[from] * CF
    <3>1. k \in Int /\ frac[from] \in Int
      BY BalanceOf, CFAssumption
    <3>2. B[from] = k + frac[from] /\ C[from] = k + frac[from] - amt
      BY <1>1, <2>1, Zenon
    <3> HIDE DEF k
    <3> QED BY <3>1, <3>2
  <2>3. C[to] = B[to] + amt
    BY <1>1, <2>1, Zenon
  <2> QED BY <2>2, <2>3, Zenon
<1>3. \A a \in Accounts : a # from /\ a # to => C[a] = B[a]
  BY Zenon
<1>4. B = [a \in Accounts |-> B[a]] /\ C = [a \in Accounts |-> C[a]]
  BY Zenon
<1> HIDE DEF B, C
<1>5. C = [B EXCEPT ![from] = @ - amt, ![to] = @ + amt]
  BY <1>2, <1>3, <1>4, Zenon
<1> QED BY <1>5, Zenon DEF B, C, Balance, ExtendedBalance

LEMMA LedgerBooked ==
  ASSUME NEW m \in Accounts, NEW bal,
         bank'[m] * CF + frac'[m] = bal,
         \A a \in Accounts : a # m => bank'[a] = bank[a] /\ frac'[a] = frac[a]
  PROVE  Balance' = [Balance EXCEPT ![m] = bal]
BY ZenonT(30) DEF Balance, ExtendedBalance

LEMMA EnoughDef ==
  ASSUME Inv, NEW a \in Accounts, NEW amt \in Int
  PROVE  Ledger!Enough(a, amt) <=> amt <= bank[a] * CF + frac[a] - Locked[a] * CF
BY BalanceOf, CFAssumption DEF Ledger!Enough, ExtendedBalance

LEMMA SendCoinsStep ==
  ASSUME Inv, NEW from \in Accounts, NEW to \in Accounts, NEW i \in Nat, NEW x \in Nat,
         SendCoins(from, to, i, x)
  PROVE  Inv' /\ Ledger!Transfer(from, to, i * CF + x)
<1> DEFINE amt == i * CF + x
           b == Move(bank, from, to, i)
           e == sendExtendedCoins(b, from, to, x)
           enough == amt <= bank[from] * CF + frac[from] - Locked[from] * CF
<1>1. call' = [op |-> "transfer", from |-> from, to |-> to, amt |-> amt]
  BY Zenon DEF SendCoins, Called
<1>2. /\ bank \in Balances /\ Unlocked(bank) /\ frac \in Fracs /\ rem \in 0 .. CF - 1
      /\ CF \in Nat /\ supply = Total(bank) /\ surplus \in Nat
      /\ bank[Reserve] * CF = SumOf(frac, N) + rem + surplus
  BY InvFacts, Zenon
<1>3. /\ bank[from] \in Nat /\ frac[from] \in 0 .. CF - 1 /\ Locked[from] \in Nat
      /\ bank[to] \in Nat /\ frac[to] \in 0 .. CF - 1
      /\ from \in Holders /\ to \in Holders /\ from # Reserve /\ to # Reserve
  BY BalanceOf, HoldersSplit, Zenon
<1>5. amt \in Int /\ i * CF \in Int /\ bank[from] * CF \in Int /\ bank[to] * CF \in Int
      /\ Locked[from] * CF \in Int
  BY <1>2, <1>3
<1>4. Ledger!Enough(from, amt) <=> enough
  BY <1>5, EnoughDef, Zenon
<1>6. surplus' = surplus
  BY Zenon DEF SendCoins, Finish
<1>7. CASE ~CanDebit(bank, from, i)
  <2>1. outcome' = "insufficient" /\ UNCHANGED stores
    BY <1>7, Zenon DEF SendCoins, Finish
  <2>2. ~enough
    BY <1>7, NotEnough, Zenon
  <2>3. Ledger!Keep
    BY <1>6, <2>1, Zenon DEF Ledger!Keep, stores, ExtendedBalance
  <2>4. Ledger!Transfer(from, to, amt)
    BY <1>1, <1>4, <2>1, <2>2, <2>3, Zenon DEF Ledger!Transfer
  <2> QED BY <1>6, <2>1, <2>4, InvKept, Zenon
<1>8. CASE CanDebit(bank, from, i) /\ from = to
  <2>1. b = bank
    BY <1>2, <1>3, <1>8, MoveToSelf, Zenon
  <2>2. outcome' = "ok" /\ bank' = b /\ supply' = supply /\ frac' = frac /\ rem' = rem
    BY <1>8, Zenon DEF SendCoins, Finish
  <2>3. Ledger!Keep
    BY <1>6, <2>1, <2>2, Zenon DEF Ledger!Keep, ExtendedBalance
  <2>4. Ledger!Transfer(from, to, amt)
    BY <1>1, <1>8, <2>2, <2>3, Zenon DEF Ledger!Transfer
  <2>5. Inv'
    BY <1>2, <1>6, <2>1, <2>2, InvBooked, Zenon
  <2> QED BY <2>4, <2>5, Zenon
<1>9. CASE CanDebit(bank, from, i) /\ from # to
  <2>1. b \in Balances /\ Total(b) = Total(bank)
    BY <1>2, <1>3, <1>9, MoveEffect
  <2>2. b[from] = bank[from] - i /\ b[to] = bank[to] + i
    BY <1>2, <1>3, <1>9, MoveEffect
  <2>3. \A a \in Holders : a # from /\ a # to => b[a] = bank[a]
    BY <1>2, <1>3, <1>9, MoveEffect
  <2>4. Unlocked(b) /\ b[Reserve] = bank[Reserve]
    BY <1>2, <1>3, <1>9, <2>3, MoveEffect, HoldersSplit, Zenon
  <2> HIDE DEF b
  <2>5. b[from] * CF = bank[from] * CF - i * CF /\ b[to] * CF = bank[to] * CF + i * CF
    <3> DEFINE F == bank[from]
               T == bank[to]
    <3>1. F \in Int /\ T \in Int /\ CF \in Int /\ i \in Int
      BY <1>2, <1>3
    <3> HIDE DEF F, T
    <3>2. (F - i) * CF = F * CF - i * CF /\ (T + i) * CF = T * CF + i * CF
      BY <3>1, Distribute
    <3> QED BY <2>2, <3>2, Zenon DEF F, T
  <2>6. CASE x = 0
    <3>1. outcome' = "ok" /\ bank' = b /\ supply' = supply /\ frac' = frac /\ rem' = rem
      BY <1>9, <2>6, Zenon DEF SendCoins, Finish, b
    <3>2. enough
      <4>1. i <= bank[from] - Locked[from]
        BY <1>2, <1>9, Spendable, Zenon
      <4> DEFINE k == bank[from] - Locked[from] - i
      <4>2. k \in Nat /\ k * CF = bank[from] * CF - Locked[from] * CF - i * CF
        BY <1>2, <1>3, <4>1
      <4> HIDE DEF k
      <4>3. k * CF \in Nat
        BY <1>2, <4>2
      <4> QED BY <1>3, <1>5, <2>6, <4>2, <4>3
    <3>3. Inv'
      BY <1>2, <1>6, <2>1, <2>4, <3>1, InvBooked, Zenon
    <3>4. Balance' = [Balance EXCEPT ![from] = @ - amt, ![to] = @ + amt]
      <4>1. bank'[from] * CF + frac'[from] = bank[from] * CF + frac[from] - amt
        BY <1>3, <1>5, <2>5, <2>6, <3>1
      <4>2. bank'[to] * CF + frac'[to] = bank[to] * CF + frac[to] + amt
        BY <1>3, <1>5, <2>5, <2>6, <3>1
      <4>3. \A a \in Accounts : a # from /\ a # to => bank'[a] = bank[a] /\ frac'[a] = frac[a]
        BY <2>3, <3>1, HoldersSplit, Zenon
      <4> HIDE DEF amt
      <4> QED BY <1>5, <1>9, <4>1, <4>2, <4>3, LedgerMoved
    <3>5. Ledger!Transfer(from, to, amt)
      <4> HIDE DEF enough
      <4> QED BY <1>1, <1>4, <1>6, <1>9, <3>1, <3>2, <3>4, Zenon DEF Ledger!Transfer, Balance
    <3> QED BY <3>3, <3>5, Zenon
  <2>7. CASE x # 0
    <3> HIDE DEF e
    <3>1. /\ outcome' = e.res
          /\ IF e.res = "ok" THEN bank' = e.bank /\ supply' = supply /\ frac' = e.frac /\ rem' = rem
             ELSE UNCHANGED stores
      BY <1>9, <2>7, Zenon DEF SendCoins, Finish, b, e
    <3>2. e = sendExtendedCoins(b, from, to, x)
      BY Zenon DEF e
    <3>3. x <= b[from] * CF + frac[from] - Locked[from] * CF <=> enough
      BY <1>3, <1>5, <2>5
    <3>4. \/ e.res = "ok" /\ enough /\ Sent(b, e.bank, e.frac, from, to, x)
          \/ e.res = "insufficient" /\ ~enough
      <4> HIDE DEF enough
      <4> QED BY <1>9, <2>1, <2>4, <3>2, <3>3, SendExtended
    <3>5. CASE e.res = "ok"
      <4>1. /\ bank' = e.bank /\ frac' = e.frac /\ supply' = supply /\ rem' = rem /\ outcome' = "ok"
        BY <3>1, <3>5, Zenon
      <4>2. Sent(b, bank', frac', from, to, x) /\ enough
        BY <3>4, <3>5, <4>1, Zenon
      <4>3. Inv'
        BY <1>2, <1>6, <2>1, <4>1, <4>2, InvBooked, Zenon DEF Sent
      <4>4. Balance' = [Balance EXCEPT ![from] = @ - amt, ![to] = @ + amt]
        <5>1. bank'[from] * CF + frac'[from] = bank[from] * CF + frac[from] - amt
          BY <1>3, <1>5, <2>5, <4>2 DEF Sent
        <5>2. bank'[to] * CF + frac'[to] = bank[to] * CF + frac[to] + amt
          BY <1>3, <1>5, <2>5, <4>2 DEF Sent
        <5>3. \A a \in Accounts : a # from /\ a # to => bank'[a] = bank[a] /\ frac'[a] = frac[a]
          BY <2>3, <4>2, HoldersSplit, Zenon DEF Sent
        <5> HIDE DEF amt
        <5> QED BY <1>5, <1>9, <5>1, <5>2, <5>3, LedgerMoved
      <4>5. Ledger!Transfer(from, to, amt)
        <5> HIDE DEF enough
        <5> QED BY <1>1, <1>4, <1>6, <1>9, <4>1, <4>2, <4>4 DEF Ledger!Transfer, Balance
      <4> QED BY <4>3, <4>5, Zenon
    <3>6. CASE e.res = "insufficient"
      <4>1. outcome' = "insufficient" /\ UNCHANGED stores /\ ~enough
        BY <3>1, <3>4, <3>6, Zenon
      <4>2. Ledger!Keep
        BY <1>6, <4>1, Zenon DEF Ledger!Keep, stores, ExtendedBalance
      <4>3. Ledger!Transfer(from, to, amt)
        BY <1>1, <1>4, <4>1, <4>2, Zenon DEF Ledger!Transfer
      <4> QED BY <1>6, <4>1, <4>3, InvKept, Zenon
    <3> QED BY <3>4, <3>5, <3>6, Zenon
  <2> QED BY <2>6, <2>7, Zenon
<1> QED BY <1>7, <1>8, <1>9, Zenon

LEMMA RefuseStep ==
  ASSUME Inv, NEW from, NEW to, NEW i, NEW x, Refuse(from, to, i, x)
  PROVE  Inv' /\ Ledger!Refused
<1>1. outcome' = "unauthorized" /\ UNCHANGED stores /\ surplus' = surplus
  BY Zenon DEF Refuse, Finish
<1>2. Ledger!Refused
  BY <1>1, Zenon DEF Ledger!Refused, Ledger!Keep, stores, ExtendedBalance
<1> QED BY <1>1, <1>2, InvKept, Zenon

(* The amount in circulation as the ledger counts it.                      *)
Circulating == supply * CF - rem - surplus

(* The stores after a mint or a burn, from the call's own starting point   *)
(* b = bank and i integer coins more or less.                              *)
LEMMA BookedStep ==
  ASSUME Inv, NEW m \in Accounts, NEW i \in Int, NEW y \in Int, NEW b \in Balances,
         b[m] = bank[m] + i, \A a \in Accounts : a # m => b[a] = bank[a],
         NEW s \in Int, s = supply + i,
         Booked(b, s, bank', supply', frac', rem', m, y),
         surplus' = surplus, outcome' = "ok"
  PROVE  /\ Inv'
         /\ Balance' = [Balance EXCEPT ![m] = @ + (i * CF + y)]
         /\ Circulating' = Circulating + (i * CF + y)
<1>1. /\ CF \in Int /\ supply \in Int /\ rem \in Int /\ surplus \in Int
      /\ bank[m] \in Int /\ frac[m] \in Int
  BY InvFacts, BalanceOf
<1>2. Inv'
  BY InvBooked, Zenon DEF Booked
<1>3. supply' \in Int /\ rem' \in Int
  BY <1>2, InvFacts, CFAssumption DEF Inv, TypeOK
<1> DEFINE ic == i * CF
           bc == bank[m] * CF
           sc == supply * CF
           tc == supply' * CF
<1>4. b[m] * CF = bc + ic /\ s * CF = sc + ic
  BY <1>1, Distribute
<1>5. ic \in Int /\ bc \in Int /\ sc \in Int /\ tc \in Int
  BY <1>1, <1>3
<1>6. bank'[m] * CF + frac'[m] = b[m] * CF + frac[m] + y /\ tc - rem' = s * CF - rem + y
  BY Zenon DEF Booked
<1> HIDE DEF ic, bc, sc, tc
<1>7. bank'[m] * CF + frac'[m] = bc + frac[m] + (ic + y)
  BY <1>1, <1>4, <1>5, <1>6
<1>8. Balance[m] = bc + frac[m]
  BY Zenon DEF Balance, ExtendedBalance, bc
<1>9. Balance' = [Balance EXCEPT ![m] = Balance[m] + (ic + y)]
  <2>1. bank'[m] * CF + frac'[m] = Balance[m] + (ic + y)
    BY <1>7, <1>8, Zenon
  <2>2. \A a \in Accounts : a # m => bank'[a] = bank[a] /\ frac'[a] = frac[a]
    BY Zenon DEF Booked
  <2> QED BY <2>1, <2>2, LedgerBooked, Zenon
<1>10. Circulating' = Circulating + (ic + y)
  <2> DEFINE z == s * CF
             r == rem'
  <2>1. z = sc + ic /\ tc - r = z - rem + y /\ r \in Int
    BY <1>3, <1>4, <1>6, Zenon
  <2> HIDE DEF z, r
  <2>2. tc - r - surplus = sc - rem - surplus + (ic + y)
    BY <1>1, <1>5, <2>1
  <2>3. tc - rem' - surplus = sc - rem - surplus + (ic + y)
    BY <2>2, Zenon DEF r
  <2> QED BY <2>3, Zenon DEF Circulating, tc, sc
<1> QED BY <1>2, <1>9, <1>10, Zenon DEF ic

(* Booking nothing changes no amount, and taking an amount off is booking  *)
(* its negative (MintCoins and BurnCoins of mint.go and burn.go).          *)
LEMMA AddNothing ==
  \A p, q, r \in Int : p * q + r = p * q + r + 0 /\ p * q - r = p * q - r + 0
<1> TAKE p, q, r \in Int
<1> DEFINE k == p * q
<1>1. k \in Int
  OBVIOUS
<1> HIDE DEF k
<1>2. k + r = k + r + 0 /\ k - r = k - r + 0
  BY <1>1
<1> QED BY <1>2, Zenon DEF k

LEMMA SubtractIsAdd ==
  \A p, i \in Int : -i \in Int /\ p - i = p + (-i)
  OBVIOUS

LEMMA MintCoinsStep ==
  ASSUME Inv, NEW m \in Accounts, NEW i \in Nat, NEW x \in Nat, MintCoins(m, i, x)
  PROVE  Inv' /\ Ledger!Mint(m, i * CF + x)
<1> DEFINE b == Credit(bank, m, i)
           s == supply + i
           e == mintExtendedCoin(b, s, m, x)
<1>1. call' = [op |-> "mint", from |-> m, to |-> m, amt |-> i * CF + x]
  BY Zenon DEF MintCoins, Called
<1>2. /\ bank \in Balances /\ Unlocked(bank) /\ frac \in Fracs /\ rem \in 0 .. CF - 1
      /\ CF \in Nat /\ supply \in Nat /\ supply = Total(bank) /\ surplus \in Nat
      /\ bank[Reserve] * CF = SumOf(frac, N) + rem + surplus
      /\ m \in Holders /\ m # Reserve /\ Reserve \in Holders
  BY InvFacts, HoldersSplit, Zenon
<1>3. /\ bank[m] \in Nat /\ frac[m] \in 0 .. CF - 1
  BY BalanceOf, Zenon
<1>4. b \in Balances /\ Total(b) = Total(bank) + i
  BY <1>2, CreditEffect
<1>5. b[m] = bank[m] + i /\ \A a \in Holders : a # m => b[a] = bank[a]
  BY <1>2, Zenon DEF Credit, Balances
<1>6. Unlocked(b)
  BY <1>2, CreditEffect, Zenon
<1>7. s \in Nat /\ s = Total(b) /\ b[Reserve] = bank[Reserve]
  BY <1>2, <1>4, <1>5
<1> HIDE DEF b, s
<1>8. outcome' = "ok" /\ surplus' = surplus /\ Booked(b, s, bank', supply', frac', rem', m, x)
  <2>1. CASE x = 0
    <3>1. outcome' = "ok" /\ surplus' = surplus /\ bank' = b /\ supply' = s /\ frac' = frac /\ rem' = rem
      BY <2>1, Zenon DEF MintCoins, Finish, b, s
    <3>2. b[m] * CF + frac[m] = b[m] * CF + frac[m] + 0 /\ s * CF - rem = s * CF - rem + 0
      <4>1. CF \in Int /\ frac[m] \in Int /\ rem \in Int /\ b[m] \in Int /\ s \in Int
        <5>1. CF \in Int /\ frac[m] \in Int /\ rem \in Int /\ s \in Int
          BY <1>2, <1>3, <1>7
        <5>2. b[m] \in Int
          BY <1>3, <1>5
        <5> QED BY <5>1, <5>2, Zenon
      <4> QED BY <4>1, AddNothing, ZenonT(30)
    <3>3. Booked(b, s, b, s, frac, rem, m, 0)
      BY <1>2, <1>4, <1>6, <1>7, <3>2, Zenon DEF Booked
    <3> QED BY <2>1, <3>1, <3>3, Zenon
  <2>2. CASE x # 0
    <3> HIDE DEF e
    <3>1. /\ outcome' = e.res /\ surplus' = surplus
          /\ e.res = "ok" => bank' = e.bank /\ supply' = e.supply /\ frac' = e.frac /\ rem' = e.rem
      BY <2>2, Zenon DEF MintCoins, Finish, b, s, e
    <3>2. e.res = "ok" /\ Booked(b, s, e.bank, e.supply, e.frac, e.rem, m, x)
      <4>1. e = mintExtendedCoin(b, s, m, x)
        BY Zenon DEF e
      <4> QED BY <1>4, <1>6, <1>7, <4>1, MintExtended
    <3> QED BY <3>1, <3>2, Zenon
  <2> QED BY <2>1, <2>2, Zenon
<1>9. s = supply + i /\ \A a \in Accounts : a # m => b[a] = bank[a]
  BY <1>5, HoldersSplit, Zenon DEF s
<1>10. /\ Inv' /\ Balance' = [Balance EXCEPT ![m] = @ + (i * CF + x)]
       /\ Circulating' = Circulating + (i * CF + x)
  BY <1>4, <1>5, <1>7, <1>8, <1>9, BookedStep
<1> QED BY <1>1, <1>8, <1>10, Zenon DEF Ledger!Mint, Balance, Circulating

LEMMA BurnCoinsStep ==
  ASSUME Inv, NEW m \in Accounts, NEW i \in Nat, NEW x \in Nat, BurnCoins(m, i, x)
  PROVE  Inv' /\ Ledger!Burn(m, i * CF + x)
<1> DEFINE amt == i * CF + x
           b == Debit(bank, m, i)
           s == supply - i
           e == burnExtendedCoin(b, s, m, x)
           enough == amt <= bank[m] * CF + frac[m] - Locked[m] * CF
<1>1. call' = [op |-> "burn", from |-> m, to |-> m, amt |-> amt]
  BY Zenon DEF BurnCoins, Called
<1>2. /\ bank \in Balances /\ Unlocked(bank) /\ frac \in Fracs /\ rem \in 0 .. CF - 1
      /\ CF \in Nat /\ supply \in Nat /\ supply = Total(bank) /\ surplus \in Nat
      /\ bank[Reserve] * CF = SumOf(frac, N) + rem + surplus
      /\ m \in Holders /\ m # Reserve /\ Reserve \in Holders
  BY InvFacts, HoldersSplit, Zenon
<1>3. bank[m] \in Nat /\ frac[m] \in 0 .. CF - 1 /\ Locked[m] \in Nat
  BY BalanceOf, Zenon
<1>4. /\ amt \in Int /\ i * CF \in Int /\ bank[m] * CF \in Int /\ Locked[m] * CF \in Int
  BY <1>2, <1>3
<1>5. Ledger!Enough(m, amt) <=> enough
  BY <1>4, EnoughDef, Zenon
<1>6. surplus' = surplus
  BY Zenon DEF BurnCoins, Finish
<1>7. ASSUME outcome' = "insufficient", UNCHANGED stores, ~enough
      PROVE  Inv' /\ Ledger!Burn(m, amt)
  <2>1. Ledger!Keep
    BY <1>6, <1>7, Zenon DEF Ledger!Keep, stores, ExtendedBalance
  <2>2. Ledger!Burn(m, amt)
    BY <1>1, <1>5, <1>7, <2>1, Zenon DEF Ledger!Burn
  <2> QED BY <1>6, <1>7, <2>2, InvKept, Zenon
<1>8. CASE ~CanDebit(bank, m, i)
  <2>1. outcome' = "insufficient" /\ UNCHANGED stores
    BY <1>8, Zenon DEF BurnCoins, Finish
  <2> QED BY <1>7, <1>8, <2>1, NotEnough, Zenon
<1>9. CASE CanDebit(bank, m, i)
  <2>1. b \in Balances /\ Total(b) = Total(bank) - i /\ Total(b) \in Nat
    BY <1>2, <1>9, DebitEffect, CreditEffect
  <2>2. b[m] = bank[m] - i /\ \A a \in Holders : a # m => b[a] = bank[a]
    BY <1>2, Zenon DEF Debit, Balances
  <2>3. Unlocked(b)
    BY <1>2, <1>9, DebitEffect, Zenon
  <2>4. s \in Nat /\ s = Total(b) /\ b[Reserve] = bank[Reserve]
    BY <1>2, <2>1, <2>2, Zenon
  <2>5. s = supply + (-i) /\ b[m] = bank[m] + (-i) /\ -i \in Int /\ -x \in Int
    <3>1. supply \in Int /\ bank[m] \in Int /\ i \in Int /\ x \in Int
      BY <1>2, <1>3
    <3> HIDE DEF b
    <3>2. -i \in Int /\ -x \in Int /\ supply - i = supply + (-i) /\ bank[m] - i = bank[m] + (-i)
      BY <3>1, SubtractIsAdd, Zenon
    <3> QED BY <2>2, <3>2, Zenon DEF s
  <2> HIDE DEF b, s
  <2>6. \A a \in Accounts : a # m => b[a] = bank[a]
    BY <2>2, HoldersSplit, Zenon
  <2>7. b[m] * CF = bank[m] * CF - i * CF /\ b[m] \in Nat
    <3> DEFINE k == bank[m]
    <3>1. k \in Int /\ CF \in Int /\ i \in Int
      BY <1>2, <1>3
    <3>2. b[m] \in Nat
      BY <1>2, <2>1, Zenon DEF Balances
    <3> HIDE DEF k
    <3>3. (k - i) * CF = k * CF - i * CF
      BY <3>1, Distribute, Zenon
    <3> QED BY <2>2, <3>2, <3>3, Zenon DEF k
  <2>8. ASSUME outcome' = "ok", Booked(b, s, bank', supply', frac', rem', m, -x), enough
        PROVE  Inv' /\ Ledger!Burn(m, amt)
    <3>1. /\ Inv' /\ Balance' = [Balance EXCEPT ![m] = @ + ((-i) * CF + (-x))]
          /\ Circulating' = Circulating + ((-i) * CF + (-x))
      <4> DEFINE j == -i
                 y == -x
      <4>1. /\ j \in Int /\ y \in Int /\ s = supply + j /\ b[m] = bank[m] + j
            /\ Booked(b, s, bank', supply', frac', rem', m, y)
            /\ outcome' = "ok" /\ surplus' = surplus /\ s \in Int /\ b \in Balances
        BY <1>6, <2>1, <2>4, <2>5, <2>8
      <4> HIDE DEF j, y, amt, enough
      <4>2. Inv' /\ Circulating' = Circulating + (j * CF + y)
        BY <2>6, <4>1, BookedStep, ZenonT(90)
      <4>3. Balance' = [Balance EXCEPT ![m] = @ + (j * CF + y)]
        BY <2>6, <4>1, BookedStep, ZenonT(90)
      <4> QED BY <4>2, <4>3, Zenon DEF j, y
    <3>2. Balance[m] \in Int /\ Circulating \in Int
      BY <1>2, <1>3 DEF Balance, ExtendedBalance, Circulating
    <3>3. (-i) * CF + (-x) = - amt
      BY <1>2
    <3>4. Balance[m] + ((-i) * CF + (-x)) = Balance[m] - amt
          /\ Circulating + ((-i) * CF + (-x)) = Circulating - amt
      <4> HIDE DEF amt
      <4> QED BY <1>4, <3>2, <3>3, Zenon
    <3>5. Balance' = [Balance EXCEPT ![m] = Balance[m] - amt] /\ Circulating' = Circulating - amt
      <4> DEFINE d == (-i) * CF + (-x)
      <4>1. Balance' = [Balance EXCEPT ![m] = Balance[m] + d] /\ Circulating' = Circulating + d
        BY <3>1, Zenon
      <4>2. Balance[m] + d = Balance[m] - amt /\ Circulating + d = Circulating - amt
        BY <3>4, Zenon
      <4> HIDE DEF d, amt
      <4> QED BY <4>1, <4>2, Zenon
    <3>6. Ledger!Burn(m, amt)
      <4> HIDE DEF enough, amt
      <4> QED BY <1>1, <1>5, <2>8, <3>5, Zenon DEF Ledger!Burn, Balance, Circulating
    <3> QED BY <3>1, <3>6, Zenon
  <2>9. CASE x = 0
    <3>1. outcome' = "ok" /\ bank' = b /\ supply' = s /\ frac' = frac /\ rem' = rem
      BY <1>9, <2>9, Zenon DEF BurnCoins, Finish, b, s
    <3>2. b[m] * CF + frac[m] = b[m] * CF + frac[m] + (-x) /\ s * CF - rem = s * CF - rem + (-x)
      <4> DEFINE p == b[m] * CF
                 z == s * CF
      <4>1. p \in Int /\ z \in Int /\ frac[m] \in Int /\ rem \in Int
        BY <1>2, <1>3, <2>4, <2>7, SMTT(60)
      <4> HIDE DEF p, z
      <4>2. p + frac[m] = p + frac[m] + (-x) /\ z - rem = z - rem + (-x)
        BY <2>9, <4>1
      <4> QED BY <4>2, Zenon DEF p, z
    <3>3. Booked(b, s, b, s, frac, rem, m, -x)
      BY <1>2, <2>1, <2>3, <2>4, <3>2, Zenon DEF Booked
    <3>4. enough
      <4>1. i <= bank[m] - Locked[m]
        BY <1>2, <1>9, Spendable, Zenon
      <4> DEFINE k == bank[m] - Locked[m] - i
      <4>2. k \in Nat /\ k * CF = bank[m] * CF - Locked[m] * CF - i * CF
        BY <1>2, <1>3, <4>1
      <4> HIDE DEF k
      <4>3. k * CF \in Nat
        BY <1>2, <4>2
      <4> QED BY <1>3, <1>4, <2>9, <4>2, <4>3
    <3> QED BY <2>8, <3>1, <3>3, <3>4, Zenon
  <2>10. CASE x # 0
    <3> HIDE DEF e
    <3>1. /\ outcome' = e.res
          /\ IF e.res = "ok"
             THEN bank' = e.bank /\ supply' = e.supply /\ frac' = e.frac /\ rem' = e.rem
             ELSE UNCHANGED stores
      BY <1>9, <2>10, Zenon DEF BurnCoins, Finish, b, s, e
    <3>2. x <= b[m] * CF + frac[m] - Locked[m] * CF <=> enough
      <4> DEFINE ic == i * CF
                 bc == bank[m] * CF
                 lc == Locked[m] * CF
                 mc == b[m] * CF
      <4>1. ic \in Int /\ bc \in Int /\ lc \in Int /\ mc = bc - ic
        BY <1>4, <2>7, Zenon
      <4> HIDE DEF ic, bc, lc, mc
      <4>2. x <= mc + frac[m] - lc <=> ic + x <= bc + frac[m] - lc
        BY <1>3, <4>1
      <4> QED BY <4>2, Zenon DEF ic, bc, lc, mc
    <3>3. \/ e.res = "ok" /\ enough /\ Booked(b, s, e.bank, e.supply, e.frac, e.rem, m, -x)
          \/ e.res = "insufficient" /\ ~enough
      <4>1. e = burnExtendedCoin(b, s, m, x)
        BY Zenon DEF e
      <4> HIDE DEF enough
      <4> QED BY <2>1, <2>3, <2>4, <3>2, <4>1, BurnExtended
    <3>4. CASE e.res = "ok"
      <4>1. /\ outcome' = "ok" /\ bank' = e.bank /\ supply' = e.supply
            /\ frac' = e.frac /\ rem' = e.rem
        BY <3>1, <3>4, Zenon
      <4> HIDE DEF enough
      <4>2. enough /\ Booked(b, s, bank', supply', frac', rem', m, -x)
        BY <3>3, <3>4, <4>1, Zenon
      <4> QED BY <2>8, <4>1, <4>2, Zenon
    <3>5. CASE e.res = "insufficient"
      <4> HIDE DEF enough
      <4> QED BY <1>7, <3>1, <3>3, <3>5, Zenon
    <3> HIDE DEF enough
    <3> QED BY <3>3, <3>4, <3>5, Zenon
  <2> QED BY <2>9, <2>10, Zenon
<1> QED BY <1>8, <1>9, Zenon

-----------------------------------------------------------------------------

(* Theorems                                                                *)

LEMMA InitInv ==
  ASSUME Init
  PROVE  Inv
<1>1. bank \in Balances /\ supply = Total(bank)
  BY AmountsAssumption DEF Init, Balances, Total
<1>2. frac \in Fracs /\ rem \in 0 .. CF - 1 /\ CF \in Nat /\ CF > 0
  BY CFAssumption DEF Init, Fracs
<1>3. supply \in Nat /\ bank[Reserve] \in Nat /\ SumOf(frac, N) \in Nat
  BY <1>1, <1>2, TotalUpdate, FracsSum, HoldersSplit, Zenon DEF Balances
<1>4. surplus \in Nat
  <2>1. surplus = bank[Reserve] * CF - (SumOf(frac, N) + rem)
    BY Zenon DEF Init
  <2>2. bank[Reserve] * CF \in Nat
    BY <1>2, <1>3
  <2>3. CASE bank[Reserve] * CF = SumOf(frac, N) + rem
    BY <1>2, <1>3, <2>1, <2>2, <2>3
  <2>4. CASE rem = 0 /\ \A a \in Accounts : frac[a] = 0
    <3>1. SumOf(frac, N) = 0
      BY <2>4, NAssumption, SumOfZeros, Zenon DEF Accounts
    <3> QED BY <2>1, <2>2, <2>4, <3>1
  <2> QED BY <2>3, <2>4, Zenon DEF Init, GenesisAccepted
<1>5. bank[Reserve] * CF = SumOf(frac, N) + rem + surplus
  BY <1>2, <1>3, <1>4 DEF Init
<1>6. outcome = "ok" /\ LockedStays
  BY Zenon DEF Init, LockedStays
<1> QED BY <1>1, <1>2, <1>3, <1>4, <1>5, <1>6, Zenon
        DEF Inv, TypeOK, ReserveBacked, ReserveNeverShort, Balances, Fracs, Outcomes

(* The ways a step of the ledger comes about, for an amount z of a call. *)
LEMMA LedgerSteps ==
  ASSUME NEW z \in CallAmounts
  PROVE  /\ \A from, to \in Accounts : Ledger!Transfer(from, to, z) => Ledger!LedgerNext
         /\ \A m \in Modules : Ledger!Mint(m, z) => Ledger!LedgerNext
         /\ \A m \in Modules : Ledger!Burn(m, z) => Ledger!LedgerNext
         /\ Ledger!Refused => Ledger!LedgerNext
BY Zenon DEF Ledger!LedgerNext

LEMMA NextStep ==
  ASSUME Inv, Next
  PROVE  Inv' /\ Ledger!LedgerNext
<1>1. PICK i \in IntAmounts, x \in Amounts \cup {0} :
        \/ \E from, to \in Accounts : SendCoins(from, to, i, x)
        \/ \E from \in Accounts, to \in Holders, enabled \in BOOLEAN : Send(from, to, i, x, enabled)
        \/ \E from \in Accounts, to \in Modules \cup {Reserve} : SendCoinsFromAccountToModule(from, to, i, x)
        \/ \E from \in Modules \cup {Reserve}, to \in Holders : SendCoinsFromModuleToAccount(from, to, i, x)
        \/ \E from \in Modules, to \in Modules \cup {Reserve} : SendCoinsFromModuleToModule(from, to, i, x)
        \/ \E m \in Modules : MintCoins(m, i, x)
        \/ \E m \in Modules : BurnCoins(m, i, x)
  BY Zenon DEF Next
<1>2. i \in Nat /\ x \in Nat
  BY AmountsAssumption
<1> DEFINE amt == i * CF + x
<1>3. amt \in CallAmounts
  BY DEF CallAmounts
<1>4. ASSUME NEW from \in Accounts, NEW to \in Accounts, SendCoins(from, to, i, x)
      PROVE  Inv' /\ Ledger!LedgerNext
  <2>1. Inv' /\ Ledger!Transfer(from, to, amt)
    BY <1>2, <1>4, SendCoinsStep, Zenon
  <2>2. Ledger!Transfer(from, to, amt) => Ledger!LedgerNext
    BY <1>3, LedgerSteps, Zenon
  <2> QED BY <2>1, <2>2, Zenon
<1>5. ASSUME NEW from, NEW to, Refuse(from, to, i, x)
      PROVE  Inv' /\ Ledger!LedgerNext
  <2>1. Inv' /\ Ledger!Refused
    BY <1>5, RefuseStep, Zenon
  <2>2. Ledger!Refused => Ledger!LedgerNext
    BY <1>3, LedgerSteps, Zenon
  <2> QED BY <2>1, <2>2, Zenon
<1>6. Modules \subseteq Accounts /\ Reserve \in Blocked
  BY RolesAssumption, Zenon
<1>7. CASE \E from, to \in Accounts : SendCoins(from, to, i, x)
  BY <1>4, <1>7, Zenon
<1>8. CASE \E from \in Accounts, to \in Holders, enabled \in BOOLEAN : Send(from, to, i, x, enabled)
  BY <1>4, <1>5, <1>6, <1>8, HoldersSplit, Zenon DEF Send
<1>9. CASE \E from \in Accounts, to \in Modules \cup {Reserve} : SendCoinsFromAccountToModule(from, to, i, x)
  BY <1>4, <1>5, <1>6, <1>9, HoldersSplit, Zenon DEF SendCoinsFromAccountToModule
<1>10. CASE \E from \in Modules \cup {Reserve}, to \in Holders : SendCoinsFromModuleToAccount(from, to, i, x)
  BY <1>4, <1>5, <1>6, <1>10, HoldersSplit, Zenon DEF SendCoinsFromModuleToAccount
<1>11. CASE \E from \in Modules, to \in Modules \cup {Reserve} : SendCoinsFromModuleToModule(from, to, i, x)
  BY <1>4, <1>5, <1>6, <1>11, HoldersSplit, Zenon DEF SendCoinsFromModuleToModule
<1>12. CASE \E m \in Modules : MintCoins(m, i, x)
  <2>1. PICK m \in Modules : MintCoins(m, i, x)
    BY <1>12, Zenon
  <2>2. Inv' /\ Ledger!Mint(m, amt)
    BY <1>2, <1>6, <2>1, MintCoinsStep, Zenon
  <2>3. Ledger!Mint(m, amt) => Ledger!LedgerNext
    BY <1>3, LedgerSteps, Zenon
  <2> QED BY <2>2, <2>3, Zenon
<1>13. CASE \E m \in Modules : BurnCoins(m, i, x)
  <2>1. PICK m \in Modules : BurnCoins(m, i, x)
    BY <1>13, Zenon
  <2>2. Inv' /\ Ledger!Burn(m, amt)
    BY <1>2, <1>6, <2>1, BurnCoinsStep, Zenon
  <2>3. Ledger!Burn(m, amt) => Ledger!LedgerNext
    BY <1>3, LedgerSteps, Zenon
  <2> QED BY <2>2, <2>3, Zenon
<1> QED BY <1>1, <1>7, <1>8, <1>9, <1>10, <1>11, <1>12, <1>13

LEMMA InvStutter ==
  ASSUME Inv, UNCHANGED vars
  PROVE  Inv' /\ UNCHANGED Ledger!ledgerVars
BY Zenon DEF vars, Inv, TypeOK, ReserveBacked, ReserveNeverShort, LockedStays, Total,
       Ledger!ledgerVars, ExtendedBalance

(* Whatever sends, mints and burns happen, in any number of accounts and   *)
(* for any conversion factor: the reserve account holds exactly the coins  *)
(* that back the fractional balances and the remainder, it can pay every   *)
(* carry and every burn asked of it (so sendExtendedCoins never panics),   *)
(* and locked coins stay where they are.                                   *)
THEOREM ReserveSound == Spec => [](TypeOK /\ ReserveBacked /\ ReserveNeverShort /\ LockedStays)
<1>1. Init => Inv
  BY InitInv, Zenon
<1>2. Inv /\ [Next]_vars => Inv'
  BY NextStep, InvStutter, Zenon
<1>3. Inv => TypeOK /\ ReserveBacked /\ ReserveNeverShort /\ LockedStays
  BY Zenon DEF Inv
<1> QED BY <1>1, <1>2, <1>3, PTL DEF Spec

LEMMA InitLedger ==
  ASSUME Init
  PROVE  Ledger!LedgerInit
<1>1. Inv
  BY InitInv, Zenon
<1>2. \A a \in Accounts : ExtendedBalance(a) \in Nat
  <2> SUFFICES ASSUME NEW a \in Accounts PROVE ExtendedBalance(a) \in Nat
    BY Zenon
  <2>1. bank[a] \in Nat /\ frac[a] \in Nat /\ CF \in Nat
    BY <1>1, BalanceOf, CFAssumption
  <2> QED BY <2>1 DEF ExtendedBalance
<1>3. supply * CF - rem - surplus \in Nat
  <2> DEFINE S == SumOf([a \in Accounts |-> bank[a]], N)
             r == bank[Reserve]
  <2>1. S \in Nat
    <3>1. [a \in Accounts |-> bank[a]] \in [1 .. N -> Nat]
      BY <1>1, BalanceOf, Zenon DEF Accounts
    <3> QED BY <3>1, NAssumption, SumOfType, Zenon
  <2>2. supply = S + r /\ r \in Nat /\ CF \in Nat /\ rem \in Nat /\ surplus \in Nat
    BY <1>1, InvFacts DEF Total
  <2>3. r * CF = SumOf(frac, N) + rem + surplus /\ SumOf(frac, N) \in Nat
    BY <1>1, InvFacts, FracsSum, Zenon
  <2> HIDE DEF S, r
  <2>4. supply * CF = S * CF + r * CF
    BY <2>1, <2>2, Distribute
  <2>5. S * CF \in Nat
    BY <2>1, <2>2
  <2> QED BY <2>2, <2>3, <2>4, <2>5
<1>4. call = [op |-> "genesis", amt |-> 0] /\ outcome = "ok"
  BY Zenon DEF Init
<1> QED BY <1>2, <1>3, <1>4, Zenon DEF Ledger!LedgerInit

(* x/precisebank is the ledger of extended amounts its callers rely on:    *)
(* every call moves, mints or burns exactly its amount, or fails without   *)
(* effect exactly when the spendable extended balance is too small or the  *)
(* call is refused.                                                        *)
THEOREM Refinement == Spec => ImplementsLedger
<1>1. Init => Inv /\ Ledger!LedgerInit
  BY InitInv, InitLedger, Zenon
<1>2. Inv /\ [Next]_vars => Inv' /\ [Ledger!LedgerNext]_(Ledger!ledgerVars)
  BY NextStep, InvStutter, Zenon
<1> QED BY <1>1, <1>2, PTL DEF Spec, ImplementsLedger, Ledger!LedgerSpec

(* Balances and the supply never go below zero, and every fraction and the *)
(* remainder stay below the conversion factor, as ValidateFractionalAmount *)
(* and SetRemainderAmount demand of what is stored.                        *)
THEOREM BankTypes == Spec => []TypeOK
<1> QED BY ReserveSound, PTL

(* The reserve can pay a carry (send.go:232) and a burn whenever one may   *)
(* be asked of it.                                                         *)
THEOREM ReservePays == Spec => []ReserveNeverShort
<1> QED BY ReserveSound, PTL

(* No send or burn takes locked coins from an account: borrowing a coin    *)
(* for the reserve goes through the checks of x/bank.                      *)
THEOREM LocksHold == Spec => []LockedStays
<1> QED BY ReserveSound, PTL
=============================================================================
