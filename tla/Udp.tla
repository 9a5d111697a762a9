-------------------------------- MODULE Udp --------------------------------
(***************************************************************************)
(* The UDP sockets of one host: class UserDatagramProtocolProvider         *)
(* (src/src/net/udp.cpp).                                                  *)
(*                                                                         *)
(* The application calls Listen, Connect and Bind; the network card's      *)
(* interrupt calls OnInternetProtocolReceived.  The network may lose,      *)
(* repeat and reorder datagrams, and anybody may send: at any moment any   *)
(* datagram can come from any remote endpoint for any local port.  An      *)
(* interrupt inside Listen or Connect finds the table as it was before the *)
(* call; Disconnect changes nothing (the loop in it is never entered), nor *)
(* do Connect and Listen when malloc returns 0.  The host has one address. *)
(***************************************************************************)
EXTENDS Integers, Sequences, FiniteSets

CONSTANTS
    Remote,         \* remote endpoints, address and port
    None,           \* the remote endpoint of a socket that only listens
    ListenPorts,    \* ports that the application gives to Listen
    FirstPort,      \* 1024, the first value of freePort
    Ports,          \* 2^16, where freePort wraps
    MaxSockets      \* bound: sockets that are created

ASSUME UdpAssumption ==
    /\ None \notin Remote
    /\ Ports \in Nat \ {0}
    /\ FirstPort \in 0 .. Ports - 1
    /\ ListenPorts \subseteq 0 .. Ports - 1
    /\ MaxSockets \in Nat

VARIABLES
    sockets,        \* sockets[0 .. numSockets - 1], in order
    freePort,       \* the next local port of Connect
    heard           \* history: per socket, the remotes it took datagrams of

vars == <<sockets, freePort, heard>>

Port == 0 .. Ports - 1

Socket == [localPort : Port, remote : Remote \cup {None},
           listening : BOOLEAN, handler : BOOLEAN]

(* A listening socket's remote fields are uninitialised, which matches no  *)
(* remote endpoint here.                                                   *)
NewSocket(port, remote, listening) ==
    [localPort |-> port, remote |-> remote, listening |-> listening, handler |-> FALSE]

Init ==
    /\ sockets = <<>> /\ freePort = FirstPort
    /\ heard = <<>>

Create(s) ==
    /\ Len(sockets) < MaxSockets
    /\ sockets' = Append(sockets, s)
    /\ heard' = Append(heard, {})

NextPort(p) == (p + 1) % Ports

Listen(port) ==
    /\ Create(NewSocket(port, None, TRUE))
    /\ UNCHANGED freePort

(* A wrong Connect for the mutation runs: the socket listens, too.          *)
ConnectListening(r) ==
    /\ Create(NewSocket(freePort, r, TRUE))
    /\ freePort' = NextPort(freePort)

Connect(r) ==
    /\ Create(NewSocket(freePort, r, FALSE))
    /\ freePort' = NextPort(freePort)

Bind(i) ==
    /\ ~sockets[i].handler
    /\ sockets' = [sockets EXCEPT ![i].handler = TRUE]
    /\ UNCHANGED <<freePort, heard>>

(* OnInternetProtocolReceived: the first socket of that port that listens  *)
(* or is in conversation with the sender.                                  *)
Matches(s, r, port) ==
    s.localPort = port /\ (s.listening \/ s.remote = r)

(* A wrong lookup for the mutation runs: a listener is preferred.           *)
IsFirstListener(i, r, port) ==
    /\ Matches(sockets[i], r, port)
    /\ \A j \in DOMAIN sockets \ {i} :
          Matches(sockets[j], r, port) =>
             (sockets[i].listening /\ ~sockets[j].listening) \/ i < j

IsFirst(i, r, port) ==
    /\ Matches(sockets[i], r, port)
    /\ \A j \in 1 .. i - 1 : ~Matches(sockets[j], r, port)

(* A wrong Latched for the mutation runs: the socket goes on listening.     *)
LatchedListening(s, r) == [s EXCEPT !.remote = r]

(* The sender becomes the partner of a socket that was listening.          *)
Latched(s, r) == [s EXCEPT !.listening = FALSE, !.remote = r]

Receive(r, port) ==
    /\ \E i \in DOMAIN sockets :
          /\ IsFirst(i, r, port)
          /\ sockets' = [sockets EXCEPT ![i] = Latched(@, r)]
          /\ heard' = [heard EXCEPT ![i] = @ \cup {r}]
    /\ UNCHANGED freePort

Next ==
    \/ \E port \in ListenPorts : Listen(port)
    \/ \E r \in Remote : Connect(r)
    \/ \E i \in DOMAIN sockets : Bind(i)
    \/ \E r \in Remote, port \in Port : Receive(r, port)

Spec == Init /\ [][Next]_vars

----------------------------------------------------------------------------
(* Type correctness: freePort, a uint16_t, wraps; every socket is whole.   *)
TypeOK ==
    /\ sockets \in Seq(Socket)
    /\ Len(sockets) <= MaxSockets
    /\ freePort \in Port
    /\ heard \in Seq(SUBSET Remote) /\ Len(heard) = Len(sockets)

(* A socket has one partner: whatever comes in which order and however     *)
(* often, all the datagrams it ever takes are from one remote endpoint,    *)
(* the one its Send answers.                                               *)
OnePartner == \A i \in DOMAIN sockets :
    heard[i] \subseteq {sockets[i].remote}

(* And the partner has one socket: two sockets on one port never share a   *)
(* sender between them, even if each listened when one of its datagrams    *)
(* came.                                                                   *)
OneSocket == \A i, j \in DOMAIN sockets :
    sockets[i].localPort = sockets[j].localPort /\ i # j =>
        heard[i] \cap heard[j] = {}

(* A socket that has a partner keeps it: nobody else can take it over.     *)
PartnerStays ==
    [][\A i \in DOMAIN sockets :
          sockets[i].remote # None => sockets'[i].remote = sockets[i].remote]_vars
=============================================================================
