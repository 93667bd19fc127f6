----------------------------- MODULE SumsProofs -----------------------------
(* Facts about sums that the proofs about the ledgers rest on.             *)
EXTENDS Sums, Integers, WellFoundedInduction, TLAPS

(* Every non-empty set of naturals has a least element: the form of        *)
(* induction the proofs below use.                                         *)
LEMMA LeastElement ==
  ASSUME NEW T, T \subseteq Nat, T # {}
  PROVE  \E x \in T : \A y \in T : x <= y
<1> DEFINE R == OpToRel(<, Nat)
<1>1. IsWellFoundedOn(R, Nat)
  BY NatLessThanWellFounded
<1>2. PICK x \in T : \A y \in T : ~ (<<y, x>> \in R)
  <2> HIDE DEF R
  <2> QED BY <1>1, WFMin, Zenon
<1>3. ASSUME NEW y \in T PROVE x <= y
  <2>1. ~ (<<y, x>> \in R)
    BY <1>2
  <2>2. ~ (y < x)
    BY <2>1 DEF OpToRel
  <2> QED BY <2>2
<1> QED BY <1>3

(* Induction over a set T: what holds at 0 and is handed from i to i + 1   *)
(* holds up to n.                                                          *)
LEMMA SetInduction ==
  ASSUME NEW n \in Nat, NEW T, 0 \in T,
         \A i \in 0 .. n - 1 : i \in T => i + 1 \in T
  PROVE  \A i \in 0 .. n : i \in T
<1> DEFINE Bad == {i \in 0 .. n : i \notin T}
<1>1. SUFFICES ASSUME Bad # {} PROVE FALSE
  OBVIOUS
<1>2. Bad \subseteq Nat
  OBVIOUS
<1>3. PICK k \in Bad : \A j \in Bad : k <= j
  <2> HIDE DEF Bad
  <2> QED BY <1>1, <1>2, LeastElement, Zenon
<1>4. k \in 1 .. n /\ k - 1 \in 0 .. n - 1
  BY <1>3
<1>5. k - 1 \in T
  BY <1>3, <1>4
<1> QED BY <1>3, <1>4, <1>5

(* There is a function that satisfies the recursion of PrefixSums.         *)
LEMMA PrefixSumsExist ==
  ASSUME NEW f, NEW n \in Nat
  PROVE  \E g : g = [i \in 0 .. n |-> IF i = 0 THEN 0 ELSE g[i - 1] + f[i]]
<1> DEFINE Sat(g, k) == g = [i \in 0 .. k |-> IF i = 0 THEN 0 ELSE g[i - 1] + f[i]]
           T == {k \in Nat : \E g : Sat(g, k)}
<1>1. 0 \in T
  <2>1. Sat([i \in 0 .. 0 |-> 0], 0)
    OBVIOUS
  <2> QED BY <2>1, Zenon
<1>2. ASSUME NEW k \in 0 .. n - 1, k \in T PROVE k + 1 \in T
  <2>1. PICK g : Sat(g, k)
    BY <1>2
  <2> DEFINE h == [i \in 0 .. k + 1 |-> IF i = k + 1 THEN g[k] + f[k + 1] ELSE g[i]]
  <2>2. Sat(h, k + 1)
    BY <2>1
  <2>3. \E x : Sat(x, k + 1)
    <3> HIDE DEF h, Sat
    <3> QED BY <2>2
  <2>4. k + 1 \in Nat
    OBVIOUS
  <2> HIDE DEF h, Sat
  <2> QED BY <2>3, <2>4
<1>3. n \in T
  <2> HIDE DEF T
  <2>1. \A i \in 0 .. n : i \in T
    BY <1>1, <1>2, SetInduction
  <2> QED BY <2>1
<1> QED BY <1>3

(* PrefixSums is the function its recursion describes.                     *)
LEMMA PrefixSumsDef ==
  ASSUME NEW f, NEW n \in Nat
  PROVE  /\ PrefixSums(f, n)[0] = 0
         /\ \A i \in 1 .. n : PrefixSums(f, n)[i] = PrefixSums(f, n)[i - 1] + f[i]
<1> DEFINE P == PrefixSums(f, n)
<1>1. P = CHOOSE g : g = [i \in 0 .. n |-> IF i = 0 THEN 0 ELSE g[i - 1] + f[i]]
  BY DEF PrefixSums
<1>2. P = [i \in 0 .. n |-> IF i = 0 THEN 0 ELSE P[i - 1] + f[i]]
  <2> HIDE DEF P
  <2> QED BY <1>1, PrefixSumsExist, Zenon
<1> HIDE DEF P
<1>3. P[0] = 0 /\ \A i \in 1 .. n : P[i] = P[i - 1] + f[i]
  BY <1>2
<1> QED BY <1>3 DEF P

(* Sums of naturals are naturals.                                          *)
LEMMA SumOfType ==
  ASSUME NEW n \in Nat, NEW f \in [1 .. n -> Nat]
  PROVE  SumOf(f, n) \in Nat
<1> DEFINE P == PrefixSums(f, n)
           T == {i \in 0 .. n : P[i] \in Nat}
<1>0. P[0] = 0 /\ \A i \in 1 .. n : P[i] = P[i - 1] + f[i]
  BY PrefixSumsDef
<1> HIDE DEF P
<1>1. 0 \in T
  BY <1>0
<1>2. ASSUME NEW i \in 0 .. n - 1, i \in T PROVE i + 1 \in T
  <2>1. i + 1 \in 1 .. n /\ (i + 1) - 1 = i
    OBVIOUS
  <2>2. P[i + 1] = P[i] + f[i + 1]
    BY <1>0, <2>1
  <2> QED BY <1>2, <2>1, <2>2
<1>3. n \in T
  <2> HIDE DEF T
  <2>1. \A i \in 0 .. n : i \in T
    BY <1>1, <1>2, SetInduction, Zenon
  <2> QED BY <2>1
<1> QED BY <1>3 DEF SumOf, P

(* Updating one summand changes the sum by the difference.                 *)
LEMMA SumOfUpdate ==
  ASSUME NEW n \in Nat, NEW f \in [1 .. n -> Nat],
         NEW a \in 1 .. n, NEW v \in Nat
  PROVE  SumOf([f EXCEPT ![a] = v], n) = SumOf(f, n) - f[a] + v
<1> DEFINE g == [f EXCEPT ![a] = v]
           P == PrefixSums(f, n)
           Q == PrefixSums(g, n)
           T == {i \in 0 .. n : /\ P[i] \in Nat
                                /\ Q[i] = IF i < a THEN P[i] ELSE P[i] - f[a] + v}
<1>1. P[0] = 0 /\ \A i \in 1 .. n : P[i] = P[i - 1] + f[i]
  BY PrefixSumsDef
<1>2. Q[0] = 0 /\ \A i \in 1 .. n : Q[i] = Q[i - 1] + g[i]
  <2> HIDE DEF g
  <2> QED BY PrefixSumsDef
<1>3. g \in [1 .. n -> Nat] /\ g[a] = v /\ \A i \in 1 .. n : i # a => g[i] = f[i]
  OBVIOUS
<1> HIDE DEF P, Q, g
<1>4. 0 \in T
  BY <1>1, <1>2
<1>5. ASSUME NEW i \in 0 .. n - 1, i \in T PROVE i + 1 \in T
  <2>1. i + 1 \in 1 .. n /\ (i + 1) - 1 = i
    OBVIOUS
  <2>2. P[i + 1] = P[i] + f[i + 1] /\ Q[i + 1] = Q[i] + g[i + 1]
    BY <1>1, <1>2, <2>1
  <2>3. f[i + 1] \in Nat /\ f[a] \in Nat
    BY <2>1
  <2>4. P[i] \in Nat /\ Q[i] = IF i < a THEN P[i] ELSE P[i] - f[a] + v
    BY <1>5
  <2>5. P[i + 1] \in Nat
    BY <2>2, <2>3, <2>4, SMTT(60)
  <2>6. Q[i + 1] = IF i + 1 < a THEN P[i + 1] ELSE P[i + 1] - f[a] + v
    <3>1. CASE i + 1 = a
      <4>1. g[i + 1] = v /\ f[i + 1] = f[a] /\ i < a /\ ~ (i + 1 < a)
        BY <1>3, <3>1
      <4> QED BY <2>2, <2>3, <2>4, <4>1
    <3>2. CASE i + 1 # a
      <4>1. g[i + 1] = f[i + 1]
        BY <1>3, <2>1, <3>2
      <4> QED BY <2>2, <2>3, <2>4, <3>2, <4>1, SMTT(60)
    <3> QED BY <3>1, <3>2
  <2> QED BY <2>1, <2>5, <2>6
<1>6. n \in T
  <2> HIDE DEF T
  <2>1. \A i \in 0 .. n : i \in T
    BY <1>4, <1>5, SetInduction, Zenon
  <2> QED BY <2>1
<1> QED BY <1>6 DEF SumOf, P, Q, g

(* A summand, and two different summands together, are at most the sum.    *)
LEMMA SumOfAtLeast ==
  ASSUME NEW n \in Nat, NEW f \in [1 .. n -> Nat], NEW a \in 1 .. n
  PROVE  /\ f[a] <= SumOf(f, n)
         /\ \A b \in 1 .. n : b # a => f[a] + f[b] <= SumOf(f, n)
<1> DEFINE g == [f EXCEPT ![a] = 0]
<1>1. g \in [1 .. n -> Nat] /\ \A b \in 1 .. n : b # a => g[b] = f[b]
  OBVIOUS
<1>2. SumOf(g, n) = SumOf(f, n) - f[a] + 0
  BY SumOfUpdate, Zenon
<1>3. SumOf(f, n) \in Nat /\ f[a] \in Nat
  BY SumOfType
<1> HIDE DEF g
<1>4. SumOf(g, n) \in Nat
  BY <1>1, SumOfType
<1>5. ASSUME NEW b \in 1 .. n, b # a PROVE f[a] + f[b] <= SumOf(f, n)
  <2> DEFINE h == [g EXCEPT ![b] = 0]
  <2>1. SumOf(h, n) = SumOf(g, n) - g[b] + 0
    BY <1>1, SumOfUpdate, Zenon
  <2>2. h \in [1 .. n -> Nat]
    BY <1>1
  <2> HIDE DEF h
  <2>3. SumOf(h, n) \in Nat
    BY <2>2, SumOfType
  <2>4. g[b] = f[b] /\ f[b] \in Nat
    BY <1>1, <1>5
  <2> QED BY <1>2, <1>3, <1>4, <2>1, <2>3, <2>4, SMTT(60)
<1> QED BY <1>2, <1>3, <1>4, <1>5

(* A sum of zeros is zero.                                                 *)
LEMMA SumOfZeros ==
  ASSUME NEW n \in Nat, NEW f, \A a \in 1 .. n : f[a] = 0
  PROVE  SumOf(f, n) = 0
<1> DEFINE P == PrefixSums(f, n)
           T == {i \in 0 .. n : P[i] = 0}
<1>0. P[0] = 0 /\ \A i \in 1 .. n : P[i] = P[i - 1] + f[i]
  BY PrefixSumsDef
<1> HIDE DEF P
<1>1. 0 \in T
  BY <1>0
<1>2. ASSUME NEW i \in 0 .. n - 1, i \in T PROVE i + 1 \in T
  <2>1. i + 1 \in 1 .. n /\ (i + 1) - 1 = i
    OBVIOUS
  <2>2. P[i + 1] = P[i] + f[i + 1]
    BY <1>0, <2>1
  <2> QED BY <1>2, <2>1, <2>2
<1>3. n \in T
  <2> HIDE DEF T
  <2>1. \A i \in 0 .. n : i \in T
    BY <1>1, <1>2, SetInduction
  <2> QED BY <2>1
<1> QED BY <1>3 DEF SumOf, P
=============================================================================
