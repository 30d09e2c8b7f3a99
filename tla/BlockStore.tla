----------------------------- MODULE BlockStore -----------------------------
(***************************************************************************)
(* What an allocator promises its callers: a block is given to one owner   *)
(* at a time, and only an owner gives it back.                             *)
(***************************************************************************)
EXTENDS Naturals

CONSTANT Block   \* every block there could be

VARIABLES
  live,    \* the blocks that have an owner
  taken    \* how many blocks the allocator holds to be in use

Init == live = {} /\ taken = 0

Allocate == taken' = taken + 1 /\ \E b \in Block \ live : live' = live \cup {b}
Deallocate == taken' = taken - 1 /\ \E b \in live : live' = live \ {b}
Discard == live' = {} /\ taken' = 0

Next == Allocate \/ Deallocate \/ Discard
Spec == Init /\ [][Next]_<<live, taken>>
=============================================================================
