------------------------------ MODULE AmdRing ------------------------------
(***************************************************************************)
(* What the two rings of descriptors of the AMD am79c973's driver          *)
(* (src/src/drivers/amd_am79c973.cpp) have in common: how many descriptors *)
(* there are, and in what order the driver and the card go through them.   *)
(***************************************************************************)
EXTENDS Integers

CONSTANT N          \* descriptors in a ring, 8

ASSUME AmdRingAssumption == N \in Nat \ {0}

Slots == 0 .. N - 1

(* A wrong After for the mutation runs: the index does not wrap.            *)
AfterLast(i) == i + 1

After(i) == (i + 1) % N
=============================================================================
