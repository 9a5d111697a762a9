------------------------------- MODULE Stream -------------------------------
(***************************************************************************)
(* What a TCP connection promises its two applications: an endpoint is     *)
(* paired with one other endpoint for good, and reads that endpoint's      *)
(* messages in the order in which they were written, none missing in       *)
(* between and none twice.  The messages in Cut, and no others, may arrive *)
(* cut short.  Reading may stop at any point: nothing here says that all   *)
(* that was written is read.                                               *)
(***************************************************************************)
EXTENDS Integers, Sequences, SequencesExt

CONSTANTS
    Endpoint,       \* the sockets
    Nobody,         \* the peer of a socket that is not connected
    Payload,        \* byte strings
    Cut             \* those that the network may cut

VARIABLES
    peer,           \* endpoint -> the endpoint it is connected to, or Nobody
    written,        \* endpoint -> the payloads its application sent
    got             \* endpoint -> the byte strings its application was given

vars == <<peer, written, got>>

Init ==
    /\ peer = [e \in Endpoint |-> Nobody]
    /\ written = [e \in Endpoint |-> <<>>]
    /\ got = [e \in Endpoint |-> <<>>]

Pair(e, f) ==
    /\ peer[e] = Nobody
    /\ peer' = [peer EXCEPT ![e] = f]
    /\ UNCHANGED <<written, got>>

Write(e, p) ==
    /\ written' = [written EXCEPT ![e] = Append(@, p)]
    /\ UNCHANGED <<peer, got>>

(* The next message of the peer.  The link may have appended filler, or    *)
(* cut a message that may be cut.                                          *)
Read(e) ==
    /\ peer[e] # Nobody
    /\ Len(got[e]) < Len(written[peer[e]])
    /\ LET next == written[peer[e]][Len(got[e]) + 1] IN
          /\ Len(got'[e]) = Len(got[e]) + 1
          /\ IsPrefix(got[e], got'[e])
          /\ \/ IsPrefix(next, Last(got'[e]))
             \/ next \in Cut /\ IsPrefix(Last(got'[e]), next)
    /\ \A f \in Endpoint \ {e} : got'[f] = got[f]
    /\ UNCHANGED <<peer, written>>

Next == \E e \in Endpoint :
    \/ \E f \in Endpoint : Pair(e, f)
    \/ \E p \in Payload : Write(e, p)
    \/ Read(e)

Spec == Init /\ [][Next]_vars
=============================================================================
