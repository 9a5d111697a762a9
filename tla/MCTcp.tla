------------------------------- MODULE MCTcp -------------------------------
(***************************************************************************)
(* Payloads and scenarios for Tcp.tla.  Payloads are sequences of bytes of *)
(* which only `zero or not' and the difference between messages matter.    *)
(***************************************************************************)
EXTENDS Tcp

CONSTANTS client, server

(* With headers of 3 and 1 bytes and 5 values for a byte, a message of     *)
(* three has the total 7, which reads as 11 with its two bytes exchanged:  *)
(* it arrives whole.  One such message ends in a zero byte, one does not.  *)
(* The total of six is 10 and reads as 2, less than the IP header; that of *)
(* seven is 11 and reads as 7: three bytes arrive.                         *)
Uncut == {<<2, 2, 0>>, <<3, 3, 3>>}

Mixed == {<<3, 3, 3>>, <<4, 4, 4, 4, 4, 4>>, <<1, 2, 3, 4, 3, 2, 1>>}

AllPayloads == Uncut \cup Mixed

(* Behind a frame in memory is something that is not zero.                 *)
Behind == {<<0, 4>>}

ZeroTail == {<<1, 1, 0>>}

(* The four bytes of the frame checksum.                                   *)
Checksum == <<7, 7, 7, 7>>

Scenario(n, k, lose, close, data) ==
    [sockets |-> n, sends |-> k, loss |-> lose, closers |-> close, payloads |-> data]

(* One connection, which is disconnected, or loses a segment, or has       *)
(* messages cut; two connections between the same hosts.                   *)
OneOrTwo == {Scenario(1, 2, 0, {client}, Uncut), Scenario(1, 1, 1, {client}, Uncut),
             Scenario(1, 2, 0, {}, Mixed), Scenario(2, 1, 0, {}, Uncut)}

(* One connection that is left alone.                                      *)
Calm == {Scenario(1, 2, 0, {}, ZeroTail)}
=============================================================================
