------------------------------- MODULE MCUdp -------------------------------
(***************************************************************************)
(* A small instance of Udp.tla with interchangeable remote endpoints.      *)
(***************************************************************************)
EXTENDS Udp, TLC

CONSTANTS r1, r2, r3

Symmetry == Permutations({r1, r2, r3})
=============================================================================
