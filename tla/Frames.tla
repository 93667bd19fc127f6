------------------------------- MODULE Frames -------------------------------
(***************************************************************************)
(* What the EVM is promised by its state database: a world it may change   *)
(* at will, a stack of remembered worlds to return to, and one commit that *)
(* makes the world it sees at that moment permanent.                       *)
(***************************************************************************)
EXTENDS Naturals, Sequences

CONSTANTS Settle(_),  \* what a world leaves behind once it is committed
          Open,       \* the value of final before the commit
          Lost        \* the value of final once a commit has failed

VARIABLES world,  \* what the getters of the state database return
          saved,  \* the worlds of the snapshots that can still be reverted to
          final   \* the committed world

fvars == <<world, saved, final>>

FInit == saved = << >> /\ final = Open

(* An operation of the EVM or of a precompile: it touches no snapshot. *)
Change == UNCHANGED <<saved, final>>

TakeSnapshot == saved' = Append(saved, world) /\ UNCHANGED <<world, final>>

ReturnTo(i) ==
  /\ world' = saved[i]
  /\ saved' = SubSeq(saved, 1, i - 1)
  /\ UNCHANGED final

MakePermanent == final' = Settle(world) /\ saved' = << >>

(* A commit that fails leaves nothing behind. *)
Abandon == final' = Lost /\ saved' = << >>

FNext ==
  /\ final = Open
  /\ \/ Change
     \/ TakeSnapshot
     \/ \E i \in DOMAIN saved : ReturnTo(i)
     \/ MakePermanent
     \/ Abandon

FSpec == FInit /\ [][FNext]_fvars
=============================================================================
