----------------------------- MODULE MCNetwork -----------------------------
(***************************************************************************)
(* A small instance of Network.tla: a neighbour, the gateway, an address   *)
(* of the subnet that nobody has, and a host beyond the gateway.           *)
(***************************************************************************)
EXTENDS Network

CONSTANTS near, absent, far

MCIp == {Us, near, absent, far, Gateway}
MCLocal == MCIp \ {far}
MCAlive == {near, Gateway}
MCMac == [h \in MCLocal |-> <<h>>]
=============================================================================
