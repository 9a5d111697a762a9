-------------------------------- MODULE Tcp --------------------------------
(***************************************************************************)
(* TCP between two hosts that both run class                               *)
(* TransmissionControlProtocolProvider (src/src/net/tcp.cpp).              *)
(*                                                                         *)
(* On each host one application thread calls Connect, Listen, Bind, Send   *)
(* and Disconnect; the network card's interrupt calls                      *)
(* OnInternetProtocolReceived, which can come between any two instructions *)
(* of the application and is itself not interrupted.  The calls are cut    *)
(* where such an interrupt finds something half done: in the spin of Send, *)
(* between the spin and the transmission, between the new state and the    *)
(* transmission of Disconnect, and between Listen or Connect and Bind.     *)
(*                                                                         *)
(* The link keeps segments in order and may lose some.  What it does to a  *)
(* payload is Arrivals, below.  Acknowledgement numbers are sent but no line   *)
(* of the receiver reads them, so segments do not carry them here.         *)
(***************************************************************************)
EXTENDS Integers, Sequences, SequencesExt, FiniteSets, FiniteSetsExt

CONSTANTS
    Host,           \* the two hosts
    Connectors,     \* hosts whose application calls Connect
    Listeners,      \* hosts whose application calls Listen
    Payload,        \* what Send may be given: sequences of bytes, 0 the zero byte
    ListenPort,     \* the port that Listen and Connect are given
    FirstPort,      \* 1024, the first value of freePort
    Ports,          \* 2^16, where freePort wraps
    Iss,            \* 0xbeefcafe, every socket's first sequence number
    SeqSpace,         \* 2^32
    HeaderBytes,    \* sizeof(TransmissionControlProtocolHeader) = 24
    IpHeader,       \* sizeof(InternetProtocolV4Message) = 20
    ByteValues,     \* 2^8, the base of totalLength
    MinPayload,     \* a frame with fewer data bytes is padded by the link
    Trailer,        \* bytes the card driver leaves behind a minimal frame
    Memory,         \* what may lie behind a frame in memory
    MaxSockets,     \* bound: sockets that a host creates
    MaxSends,       \* bound: calls of Send on a host
    Scenarios       \* bounds: what happens at most, one of these at a time

NoPort == -1        \* what a listening socket's remotePort matches: nothing
Nobody == <<>>     \* no peer: not a pair of a host and a number

ASSUME TcpAssumption ==
    /\ \E h, k \in Host : h # k /\ Host = {h, k}
    /\ Connectors \cup Listeners \subseteq Host
    /\ Ports \in Nat \ {0} /\ FirstPort \in 0 .. Ports - 1 /\ ListenPort \in Nat
    /\ SeqSpace \in Nat \ {0} /\ Iss \in 0 .. SeqSpace - 1
    /\ HeaderBytes \in Nat \ {0} /\ IpHeader \in Nat \ {0} /\ MinPayload \in Nat
    /\ ByteValues \in Nat /\ ByteValues > IpHeader + HeaderBytes
    /\ Payload \subseteq Seq(Nat) /\ Trailer \in Seq(Nat)
    /\ Memory \subseteq Seq(Nat) /\ Memory # {}
    /\ \A p \in Payload : Len(p) + IpHeader + HeaderBytes < IpHeader * ByteValues
    /\ MaxSockets \in Nat \ {0} /\ MaxSends \in Nat
    /\ Scenarios \subseteq [sockets : 1 .. MaxSockets, sends : 0 .. MaxSends,
                            loss : Nat, closers : SUBSET Host,
                            payloads : SUBSET Payload]

VARIABLES
    sockets,        \* host -> sockets[0 .. numSockets - 1], in order
    freePort,       \* host -> the next local port of Connect
    app,            \* host -> the call its application is in
    net,            \* host -> the segments on the way to it
    lost,           \* segments lost so far
    most            \* how many sockets and calls of Send a host may come to,
                    \* how many segments are lost, who calls Disconnect,
                    \* what Send is given

vars == <<sockets, freePort, app, net, lost, most>>

Other(h) == CHOOSE k \in Host : k # h

States == {"CLOSED", "LISTEN", "SYN_SENT", "SYN_RECEIVED", "ESTABLISHED",
           "FIN_WAIT1", "FIN_WAIT2", "CLOSE_WAIT"}

(* remotePort, sequenceNumber and acknowledgementNumber are not set by the *)
(* constructor; no code reads them before they are set.  `left', `peer',   *)
(* `sent', `got' and `refused' are history: whether Disconnect was called, *)
(* the socket at the other end, what the application sent and was given,   *)
(* and why the first segment that was refused was refused.                 *)
NewSocket(state, lport, rport) ==
    [state |-> state, lport |-> lport, rport |-> rport, seq |-> Iss, ack |-> 0,
     handler |-> FALSE, left |-> FALSE, peer |-> Nobody, sent |-> <<>>, got |-> <<>>,
     refused |-> "no"]

Idle == [call |-> "none"]

Init ==
    /\ sockets = [h \in Host |-> <<>>]
    /\ freePort = [h \in Host |-> FirstPort]
    /\ app = [h \in Host |-> Idle]
    /\ net = [h \in Host |-> <<>>]
    /\ lost = 0 /\ most \in Scenarios

Plus(n, k) == (n + k) % SeqSpace

----------------------------------------------------------------------------
(* The way of a payload.  A frame short of the Ethernet minimum is padded  *)
(* with zeros, and the driver takes the checksum off longer frames only    *)
(* (amd_am79c973.cpp:203).                                                 *)
Framed(p) == IF Len(p) <= MinPayload
             THEN p \o [k \in 1 .. MinPayload - Len(p) |-> 0] \o Trailer
             ELSE p

(* IPv4 takes the frame's size for the payload's, or totalLength if that   *)
(* is less -- with its two bytes still in network order (ipv4.cpp:63-65).  *)
Total(p) == IpHeader + HeaderBytes + Len(p)
Swapped(n) == (n % ByteValues) * ByteValues + n \div ByteValues

(* A total that the exchange of its bytes makes less.                      *)
IsCut(p) == Swapped(Total(p)) < Total(p)

(* Wrong Arrivals for the mutation runs: the driver leaves the checksum on, *)
(* and a header is taken off once too often.                                *)
ArrivalsWithTrailer(p) == {Framed(p) \o Trailer}
ArrivalsTooShort(p) == {SubSeq(Framed(p), 1, Len(Framed(p)) - HeaderBytes)}

(* What TCP is given for p.  A totalLength less than the IP header makes   *)
(* `length - 4*headerLength' huge (ipv4.cpp:70): the application is given  *)
(* what lies behind the frame as well and the counting runs through all of *)
(* memory (its `int i' overflows; where it ends is up to Memory).  Frames  *)
(* of 1500 bytes leave no totalLength between the two headers' lengths.    *)
Arrivals(p) ==
    LET length == Swapped(Total(p)) IN
    CASE length < IpHeader -> {Framed(p) \o m : m \in Memory}
      [] length >= IpHeader /\ length < IpHeader + HeaderBytes + Len(Framed(p)) ->
            {SubSeq(Framed(p), 1, length - IpHeader - HeaderBytes)}
      [] OTHER -> {Framed(p)}

Segment(h, i, s, flags, seq, data) ==
    [src |-> s.lport, dst |-> s.rport, flags |-> flags, seq |-> seq,
     data |-> data, by |-> <<h, i>>]

Sending(h, g) == net' = [net EXCEPT ![Other(h)] = Append(@, g)]

----------------------------------------------------------------------------
(* OnInternetProtocolReceived: what segment g does to socket s.  The       *)
(* result is the socket and the list of segments sent, each by its flags   *)
(* and sequence number.                                                    *)
Silently(s) == [sock |-> s, out |-> <<>>]

Replying(s, flags) == [sock |-> s, out |-> <<[flags |-> flags, seq |-> s.seq]>>]

Refuse(s, why) ==
    Replying([s EXCEPT !.refused = IF @ = "no" THEN why ELSE @], {"RST"})

OnSyn(s, g) ==
    IF s.state = "LISTEN"
    THEN [sock |-> [s EXCEPT !.state = "SYN_RECEIVED", !.rport = g.src,
                             !.ack = Plus(g.seq, 1), !.seq = Plus(Iss, 1),
                             !.peer = g.by],
          out |-> <<[flags |-> {"SYN", "ACK"}, seq |-> Iss]>>]
    ELSE Refuse(s, "state")

(* A wrong OnSynAck for the mutation runs: the SYN|ACK is not acknowledged. *)
OnSynAckSilent(s, g) ==
    IF s.state = "SYN_SENT"
    THEN Silently([s EXCEPT !.state = "ESTABLISHED", !.ack = Plus(g.seq, 1),
                            !.seq = Plus(@, 1), !.peer = g.by])
    ELSE Refuse(s, "state")

OnSynAck(s, g) ==
    IF s.state = "SYN_SENT"
    THEN Replying([s EXCEPT !.state = "ESTABLISHED", !.ack = Plus(g.seq, 1),
                            !.seq = Plus(@, 1), !.peer = g.by], {"ACK"})
    ELSE Refuse(s, "state")

(* A wrong OnFin for the mutation runs: the own FIN is not sent.            *)
OnFinHalf(s) ==
    CASE s.state = "ESTABLISHED" ->
            Replying([s EXCEPT !.state = "CLOSE_WAIT", !.ack = Plus(@, 1)], {"ACK"})
      [] s.state = "CLOSE_WAIT" -> Silently([s EXCEPT !.state = "CLOSED"])
      [] s.state \in {"FIN_WAIT1", "FIN_WAIT2"} ->
            Replying([s EXCEPT !.state = "CLOSED", !.ack = Plus(@, 1)], {"ACK"})
      [] OTHER -> Refuse(s, "state")

OnFin(s) ==
    CASE s.state = "ESTABLISHED" ->
            [sock |-> [s EXCEPT !.state = "CLOSE_WAIT", !.ack = Plus(@, 1)],
             out |-> <<[flags |-> {"ACK"}, seq |-> s.seq],
                       [flags |-> {"FIN", "ACK"}, seq |-> s.seq]>>]
      [] s.state = "CLOSE_WAIT" -> Silently([s EXCEPT !.state = "CLOSED"])
      [] s.state \in {"FIN_WAIT1", "FIN_WAIT2"} ->
            Replying([s EXCEPT !.state = "CLOSED", !.ack = Plus(@, 1)], {"ACK"})
      [] OTHER -> Refuse(s, "state")

(* A wrong Advance for the mutation runs: the index, not the length.        *)
AdvanceByIndex(data) ==
    LET full == {k \in DOMAIN data : data[k] # 0}
    IN  IF full = {} THEN 0 - HeaderBytes ELSE Max(full) - 1

(* How far data moves acknowledgementNumber: `x - headerSize32*4 + 1',     *)
(* where x is the index of the last byte that is not zero, or 0.           *)
Advance(data) ==
    LET full == {k \in DOMAIN data : data[k] # 0}
    IN  IF full = {} THEN 1 - HeaderBytes ELSE Max(full)

(* A wrong OnData for the mutation runs: no look at the sequence number.    *)
OnDataAnyOrder(s, g) ==
    IF s.handler
    THEN Replying([s EXCEPT !.got = Append(@, g.data),
                            !.ack = Plus(@, Advance(g.data))], {"ACK"})
    ELSE Refuse(s, "handler")

(* The data path.  The handler of the library takes everything.            *)
OnData(s, g) ==
    CASE g.seq # s.ack -> Refuse(s, "order")
      [] g.seq = s.ack /\ ~s.handler -> Refuse(s, "handler")
      [] OTHER -> Replying([s EXCEPT !.got = Append(@, g.data),
                                     !.ack = Plus(@, Advance(g.data))], {"ACK"})

(* A wrong OnAck for the mutation runs: piggybacked data is dropped.        *)
OnAckNoPiggyback(s, g) ==
    CASE s.state = "SYN_RECEIVED" -> Silently([s EXCEPT !.state = "ESTABLISHED"])
      [] s.state = "FIN_WAIT1"    -> Silently([s EXCEPT !.state = "FIN_WAIT2"])
      [] s.state = "CLOSE_WAIT"   -> Silently([s EXCEPT !.state = "CLOSED"])
      [] OTHER -> Silently(s)

OnAck(s, g) ==
    CASE s.state = "SYN_RECEIVED" -> Silently([s EXCEPT !.state = "ESTABLISHED"])
      [] s.state = "FIN_WAIT1"    -> Silently([s EXCEPT !.state = "FIN_WAIT2"])
      [] s.state = "CLOSE_WAIT"   -> Silently([s EXCEPT !.state = "CLOSED"])
      [] OTHER -> IF g.flags = {"ACK"} THEN Silently(s) ELSE OnData(s, g)

React(s, g) ==
    LET kind == g.flags \cap {"SYN", "ACK", "FIN"} IN
    IF "RST" \in g.flags \/ s.state = "CLOSED"
    THEN Silently([s EXCEPT !.state = "CLOSED"])
    ELSE CASE kind = {"SYN"}        -> OnSyn(s, g)
           [] kind = {"SYN", "ACK"} -> OnSynAck(s, g)
           [] kind \in {{"FIN"}, {"FIN", "ACK"}} -> OnFin(s)
           [] kind = {"ACK"}        -> OnAck(s, g)
           [] kind = {}             -> OnData(s, g)
           [] OTHER                 -> Refuse(s, "state")      \* SYN with FIN

----------------------------------------------------------------------------
(* The socket a segment is for: the first that matches, closed or not.     *)
Matches(s, g) ==
    /\ s.lport = g.dst
    /\ \/ s.state = "LISTEN" /\ g.flags \cap {"SYN", "ACK"} = {"SYN"}
       \/ s.rport = g.src

Lookup(h, g) ==
    {i \in DOMAIN sockets[h] :
        /\ Matches(sockets[h][i], g)
        /\ \A j \in 1 .. i - 1 : ~Matches(sockets[h][j], g)}

(* The interrupt, for a segment with a socket ...                          *)
Receive(h) ==
    /\ net[h] # <<>>
    /\ LET g == Head(net[h]) IN
       \E i \in Lookup(h, g) :
          LET r == React(sockets[h][i], g)
              answers == [k \in DOMAIN r.out |->
                            Segment(h, i, r.sock, r.out[k].flags, r.out[k].seq, <<>>)]
          IN  /\ sockets' = [sockets EXCEPT ![h][i] = r.sock]
              /\ net' = [net EXCEPT ![h] = Tail(@), ![Other(h)] = @ \o answers]
    /\ UNCHANGED <<freePort, app, lost, most>>

(* ... and without one: nothing at all, `reset' is false.                  *)
ReceiveUnknown(h) ==
    /\ net[h] # <<>>
    /\ Lookup(h, Head(net[h])) = {}
    /\ net' = [net EXCEPT ![h] = Tail(@)]
    /\ UNCHANGED <<sockets, freePort, app, lost, most>>

Lose(h) ==
    /\ lost < most.loss /\ net[h] # <<>>
    /\ net' = [net EXCEPT ![h] = Tail(@)]
    /\ lost' = lost + 1
    /\ UNCHANGED <<sockets, freePort, app, most>>

----------------------------------------------------------------------------
(* The calls of the application.                                           *)
CanCreate(h) == app[h] = Idle /\ Len(sockets[h]) < most.sockets

(* Wrong port counters for the mutation runs: too wide, and standing still. *)
WidePort(p) == p + 1
SamePort(p) == p

PortAfter(p) == (p + 1) % Ports

(* Connect.  An interrupt inside it finds nothing to disturb: no segment   *)
(* for the new port exists before the SYN is out.                          *)
Connect(h) ==
    /\ CanCreate(h)
    /\ LET s == NewSocket("SYN_SENT", freePort[h], ListenPort) IN
          /\ sockets' = [sockets EXCEPT ![h] = Append(@, s)]
          /\ Sending(h, Segment(h, Len(sockets[h]) + 1, s, {"SYN"}, Iss, <<>>))
    /\ freePort' = [freePort EXCEPT ![h] = PortAfter(@)]
    /\ UNCHANGED <<app, lost, most>>

Listen(h) ==
    /\ CanCreate(h)
    /\ sockets' = [sockets EXCEPT ![h] = Append(@, NewSocket("LISTEN", ListenPort, NoPort))]
    /\ UNCHANGED <<freePort, app, net, lost, most>>

Bind(h, i) ==
    /\ app[h] = Idle /\ ~sockets[h][i].handler
    /\ sockets' = [sockets EXCEPT ![h][i] = [@ EXCEPT !.handler = TRUE]]
    /\ UNCHANGED <<freePort, app, net, lost, most>>

(* TransmissionControlProtocolSocket::Send: the call, the spin, and the    *)
(* provider's Send.  A socket that was closed is not sent to.              *)
SendsOf(h) == Cardinality(UNION {{i} \X DOMAIN sockets[h][i].sent : i \in DOMAIN sockets[h]})

CallSend(h, i) ==
    /\ app[h] = Idle /\ ~sockets[h][i].left
    /\ SendsOf(h) < most.sends
    /\ app' = [app EXCEPT ![h] = [call |-> "spin", on |-> i]]
    /\ UNCHANGED <<sockets, freePort, net, lost, most>>

SpinEnds(h) ==
    /\ app[h].call = "spin"
    /\ sockets[h][app[h].on].state = "ESTABLISHED"
    /\ app' = [app EXCEPT ![h].call = "send"]
    /\ UNCHANGED <<sockets, freePort, net, lost, most>>

Transmit(h) ==
    /\ app[h].call = "send"
    /\ LET i == app[h].on
           s == sockets[h][i]
       IN  \E p \in most.payloads : \E w \in Arrivals(p) :
              /\ sockets' = [sockets EXCEPT ![h][i] =
                    [s EXCEPT !.seq = Plus(@, Len(p)), !.sent = Append(@, p)]]
              /\ Sending(h, Segment(h, i, s, {"PSH", "ACK"}, s.seq, w))
    /\ app' = [app EXCEPT ![h] = Idle]
    /\ UNCHANGED <<freePort, lost, most>>

(* Disconnect, once for a socket, and not of one that listens: that one    *)
(* has no remote to send to.  The application does not see the state, so   *)
(* any other state will do.                                                *)
CallDisconnect(h, i) ==
    /\ app[h] = Idle /\ ~sockets[h][i].left
    /\ sockets[h][i].state # "LISTEN"
    /\ sockets' = [sockets EXCEPT ![h][i] = [@ EXCEPT !.state = "FIN_WAIT1", !.left = TRUE]]
    /\ app' = [app EXCEPT ![h] = [call |-> "disconnect", on |-> i]]
    /\ UNCHANGED <<freePort, net, lost, most>>

SendFin(h) ==
    /\ app[h].call = "disconnect"
    /\ LET i == app[h].on
           s == sockets[h][i]
       IN  /\ Sending(h, Segment(h, i, s, {"FIN", "ACK"}, s.seq, <<>>))
           /\ sockets' = [sockets EXCEPT ![h][i] = [s EXCEPT !.seq = Plus(@, 1)]]
    /\ app' = [app EXCEPT ![h] = Idle]
    /\ UNCHANGED <<freePort, lost, most>>

Next == \E h \in Host :
    \/ Receive(h) \/ ReceiveUnknown(h) \/ Lose(h)
    \/ h \in Connectors /\ Connect(h)
    \/ h \in Listeners /\ Listen(h)
    \/ \E i \in DOMAIN sockets[h] : Bind(h, i) \/ CallSend(h, i)
    \/ SpinEnds(h) \/ Transmit(h) \/ SendFin(h)
    \/ h \in most.closers /\ \E i \in DOMAIN sockets[h] : CallDisconnect(h, i)

(* The card interrupts for every segment, and a call that can go on does.  *)
(* No application has to call anything.                                    *)
Fairness == \A h \in Host :
    /\ WF_vars(Receive(h) \/ ReceiveUnknown(h))
    /\ WF_vars(SpinEnds(h))
    /\ WF_vars(Transmit(h))
    /\ WF_vars(SendFin(h))

Spec == Init /\ [][Next]_vars /\ Fairness

----------------------------------------------------------------------------
Endpoint == Host \X (1 .. MaxSockets)

Exists(e) == e[2] \in DOMAIN sockets[e[1]]
Socket(e) == sockets[e[1]][e[2]]

TypeOK ==
    /\ freePort \in [Host -> 0 .. Ports - 1]
    /\ most \in Scenarios /\ lost \in 0 .. most.loss
    /\ \A h \in Host :
          /\ Len(sockets[h]) <= most.sockets
          /\ app[h].call \in {"none", "spin", "send", "disconnect"}
          /\ app[h] # Idle => app[h].on \in DOMAIN sockets[h]
          /\ \A i \in DOMAIN sockets[h] :
                /\ sockets[h][i].state \in States
                /\ {sockets[h][i].seq, sockets[h][i].ack} \subseteq 0 .. SeqSpace - 1
                /\ sockets[h][i].peer \in Endpoint \cup {Nobody}

(* Each socket stays with one other socket and its application is given    *)
(* that one's messages in order, each once, whatever is lost, refused,     *)
(* closed or connected again; each whole, but for those whose totalLength  *)
(* is less with its bytes exchanged (ipv4.cpp:63-65): Stream.tla.          *)
Field(f, none) == [e \in Endpoint |-> IF Exists(e) THEN Socket(e)[f] ELSE none]

S == INSTANCE Stream WITH
        peer <- Field("peer", Nobody),
        written <- Field("sent", <<>>),
        got <- Field("got", <<>>),
        Cut <- {p \in Payload : IsCut(p)}

ImplementsStream == S!Spec

Untouched == lost = 0

(* `// data in wrong order' (tcp.cpp:218): no socket ever takes a segment   *)
(* for one in the wrong order, on a link that loses none.                  *)
DataInOrder == Untouched =>
    \A e \in Endpoint : Exists(e) => Socket(e).refused # "order"

(* There are three exceptions, and no others: the peer has sent a message  *)
(* that ends in a zero byte, which is counted short; or one that IPv4 cut  *)
(* or overran, for the bytes of its totalLength are exchanged; or the      *)
(* socket was disconnected, and what it got in FIN_WAIT1 was dropped.      *)
SentZeroTail(e) ==
    Exists(e) /\ \E k \in DOMAIN Socket(e).sent : Last(Socket(e).sent[k]) = 0

SentCut(e) ==
    Exists(e) /\ \E k \in DOMAIN Socket(e).sent : IsCut(Socket(e).sent[k])

OrderKept == Untouched => \A e \in Endpoint :
    Exists(e) /\ Socket(e).refused = "order" =>
        SentZeroTail(Socket(e).peer) \/ SentCut(Socket(e).peer) \/ Socket(e).left

(* Connections are one to one: two sockets that have a peer have different *)
(* ones, and the peer of an established socket, if it has one itself, has  *)
(* that socket.                                                            *)
OneToOne ==
    /\ \A e, f \in Endpoint :
          Exists(e) /\ Exists(f) /\ e # f /\ Socket(e).peer = Socket(f).peer
             => Socket(e).peer = Nobody
    /\ \A e \in Endpoint :
          Exists(e) /\ Socket(e).peer # Nobody =>
             Socket(Socket(e).peer).peer \in {e, Nobody}

(* Types, and who is connected to whom.                                    *)
ConnectionInv == TypeOK /\ OneToOne

(* A FIN is taken whatever its sequence number is; still a socket goes to  *)
(* CLOSE_WAIT only when it has been given all that its peer sent, or has   *)
(* refused some of it, unless a segment was lost.                          *)
FinAfterData == Untouched => \A e \in Endpoint :
    Exists(e) /\ Socket(e).state = "CLOSE_WAIT" =>
        \/ Len(Socket(e).got) = Len(Socket(Socket(e).peer).sent)
        \/ Socket(e).refused # "no"

Taken(e, f) == Exists(f) /\ Socket(f).peer = e

TakenUp(e) == \E f \in Endpoint : Taken(e, f)

Closed(e) == Exists(e) /\ Socket(e).state = "CLOSED"

Refused(e) == Exists(e) /\ Socket(e).refused # "no"

Troubled(e) ==
    Refused(e) \/ (\E f \in Endpoint : Taken(e, f) /\ Refused(f)) \/ ~Untouched

(* The liveness properties say that again and again nothing is due.  As    *)
(* the calls are bounded, that is: what is due is done.                    *)

(* Send returns once the connection has been taken up at the other end,    *)
(* unless the connection is closed first, or a segment was refused at      *)
(* either end or lost: who refuses one closes the other end, but stays     *)
(* half open itself.                                                       *)
Spinning(e) == app[e[1]] = [call |-> "spin", on |-> e[2]]

SendReturns == []<>(\A e \in Endpoint :
    Spinning(e) /\ TakenUp(e) => Closed(e) \/ Troubled(e))

(* What was sent arrives, unless a segment was refused at either end or    *)
(* lost, or the receiver has called Disconnect.                            *)
AllArrived(e) == \E f \in Endpoint :
    Taken(e, f) /\ (Len(Socket(f).got) = Len(Socket(e).sent) \/ Socket(f).left)

DataArrives == []<>(\A e \in Endpoint :
    Exists(e) /\ Socket(e).sent # <<>> => AllArrived(e) \/ Troubled(e))

(* If one side disconnects a connection that the other has taken up, both  *)
(* sockets close, unless a segment is refused at either or lost.           *)
BothClosed(e) == Closed(e) /\ \E f \in Endpoint : Taken(e, f) /\ Closed(f)

BothClose == []<>(\A e \in Endpoint :
    Exists(e) /\ Socket(e).left /\ TakenUp(e) => BothClosed(e) \/ Troubled(e))
=============================================================================
