-------------------------------- MODULE Sums --------------------------------
(* The sum of a function of 1 .. n, as a recursive function (no RECURSIVE    *)
(* operator), so that SumsProofs can reason about it.                        *)
EXTENDS Naturals

(* PrefixSums(f, n)[i] = f[1] + ... + f[i]                                   *)
PrefixSums(f, n) ==
  LET s[i \in 0 .. n] == IF i = 0 THEN 0 ELSE s[i - 1] + f[i] IN s

SumOf(f, n) == PrefixSums(f, n)[n]
=============================================================================
