---------------------------- MODULE MCPreciseBank ----------------------------
EXTENDS PreciseBank

(* Account 1 is a vesting account, 2 an ordinary one, 3 the x/vm module.   *)
MCLocked == [a \in Accounts |-> IF a = 1 THEN 1 ELSE 0]

(* No step reads `call', so states that differ only in it are explored     *)
(* once; action properties are still checked on every transition.          *)
MCView == <<stores, surplus, outcome>>
=============================================================================
