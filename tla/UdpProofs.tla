----------------------------- MODULE UdpProofs -----------------------------
(***************************************************************************)
(* Proofs about the UDP sockets of Udp.tla, for every set of remote        *)
(* endpoints, every port range and any number of sockets.                  *)
(***************************************************************************)
EXTENDS Udp, SequenceTheorems, TLAPS

(* What a socket's flag and its history have to do with its partner.       *)
Latching == \A i \in DOMAIN sockets :
    /\ sockets[i].listening => sockets[i].remote = None /\ heard[i] = {}
    /\ heard[i] \subseteq {sockets[i].remote}

(* A sender that a socket has heard is not one that an earlier socket of   *)
(* the same port would take.                                               *)
Precedence == \A i, j \in DOMAIN sockets :
    i < j /\ sockets[i].localPort = sockets[j].localPort =>
        \A r \in heard[j] : ~sockets[i].listening /\ sockets[i].remote # r

(* The inductive invariant.                                                *)
UdpInv == TypeOK /\ Latching /\ Precedence

----------------------------------------------------------------------------
(* What Create does to a well-typed table: the old sockets stay, the new   *)
(* one comes last and has heard nobody.                                    *)
LEMMA CreateFields ==
    ASSUME TypeOK, NEW s \in Socket, Create(s)
    PROVE  /\ sockets' \in Seq(Socket) /\ heard' \in Seq(SUBSET Remote)
           /\ Len(sockets') = Len(sockets) + 1 /\ Len(heard') = Len(sockets')
           /\ Len(sockets') <= MaxSockets
           /\ DOMAIN sockets = 1 .. Len(sockets)
           /\ DOMAIN sockets' = 1 .. Len(sockets) + 1
           /\ \A i \in 1 .. Len(sockets) :
                 sockets'[i] = sockets[i] /\ heard'[i] = heard[i]
           /\ sockets'[Len(sockets) + 1] = s
           /\ heard'[Len(sockets) + 1] = {}
<1>1. /\ Len(sockets) \in Nat /\ MaxSockets \in Nat
      /\ sockets \in Seq(Socket) /\ heard \in Seq(SUBSET Remote)
      /\ Len(heard) = Len(sockets)
  BY UdpAssumption DEF TypeOK
<1>2. /\ sockets' = Append(sockets, s) /\ heard' = Append(heard, {})
      /\ Len(sockets) < MaxSockets
  BY DEF Create
<1>3. {} \in SUBSET Remote
  OBVIOUS
<1>4. /\ Append(sockets, s) \in Seq(Socket)
      /\ Len(Append(sockets, s)) = Len(sockets) + 1
      /\ \A i \in 1 .. Len(sockets) : Append(sockets, s)[i] = sockets[i]
      /\ Append(sockets, s)[Len(sockets) + 1] = s
  BY <1>1, AppendProperties
<1>5. /\ Append(heard, {}) \in Seq(SUBSET Remote)
      /\ Len(Append(heard, {})) = Len(heard) + 1
      /\ \A i \in 1 .. Len(heard) : Append(heard, {})[i] = heard[i]
      /\ Append(heard, {})[Len(heard) + 1] = {}
  BY <1>1, <1>3, AppendProperties
<1>6. DOMAIN sockets = 1 .. Len(sockets) /\ DOMAIN sockets' = 1 .. Len(sockets')
  BY <1>1, <1>2, <1>4
<1>7. QED
  BY <1>1, <1>2, <1>4, <1>5, <1>6

(* A created socket that has a partner, or listens and has none, fits in   *)
(* with the others.                                                        *)
LEMMA CreateKeeps ==
    ASSUME UdpInv, NEW s \in Socket, Create(s),
           s.listening => s.remote = None, freePort' \in Port
    PROVE  UdpInv'
<1>1. TypeOK
  BY DEF UdpInv
<1> DEFINE n == Len(sockets) + 1
<1>2. /\ sockets' \in Seq(Socket) /\ heard' \in Seq(SUBSET Remote)
      /\ Len(heard') = Len(sockets') /\ Len(sockets') <= MaxSockets
      /\ DOMAIN sockets = 1 .. Len(sockets)
      /\ DOMAIN sockets' = 1 .. n
      /\ \A i \in 1 .. Len(sockets) :
            sockets'[i] = sockets[i] /\ heard'[i] = heard[i]
      /\ sockets'[n] = s
      /\ heard'[n] = {}
  BY <1>1, CreateFields
<1>3. Len(sockets) \in Nat
  BY <1>1 DEF TypeOK
<1>4. \A i \in 1 .. n : i = n \/ i \in 1 .. Len(sockets)
  BY <1>3
<1>5. TypeOK'
  BY <1>2 DEF TypeOK
<1> HIDE DEF n
<1>6. Latching'
  BY <1>2, <1>4 DEF UdpInv, Latching
<1>7. Precedence'
  <2> SUFFICES ASSUME NEW i \in 1 .. n, NEW j \in 1 .. n, i < j,
                      sockets'[i].localPort = sockets'[j].localPort,
                      NEW r \in heard'[j]
               PROVE  ~sockets'[i].listening /\ sockets'[i].remote # r
    BY <1>2 DEF Precedence
  <2>1. j \in 1 .. Len(sockets)
    BY <1>2, <1>4
  <2>2. i \in 1 .. Len(sockets)
    BY <2>1, <1>3, <1>4
  <2>3. QED
    BY <2>1, <2>2, <1>2 DEF UdpInv, Precedence
<1>8. QED
  BY <1>5, <1>6, <1>7 DEF UdpInv

(* Binding a handler touches nothing the invariant speaks of.              *)
LEMMA BindKeeps ==
    ASSUME UdpInv, NEW i \in DOMAIN sockets, Bind(i)
    PROVE  UdpInv'
<1>1. sockets \in Seq(Socket)
  BY DEF UdpInv, TypeOK
<1>2. /\ sockets' = [sockets EXCEPT ![i] = [sockets[i] EXCEPT !.handler = TRUE]]
      /\ UNCHANGED <<freePort, heard>>
  BY DEF Bind
<1>3. sockets[i] \in Socket
  BY <1>1
<1>4. [sockets[i] EXCEPT !.handler = TRUE] \in Socket
  BY <1>3 DEF Socket
<1>5. /\ sockets' \in Seq(Socket) /\ Len(sockets') = Len(sockets)
      /\ DOMAIN sockets' = DOMAIN sockets
  BY <1>1, <1>2, <1>4
<1>6. \A k \in DOMAIN sockets :
          /\ sockets'[k].localPort = sockets[k].localPort
          /\ sockets'[k].remote = sockets[k].remote
          /\ sockets'[k].listening = sockets[k].listening
  BY <1>1, <1>2, <1>3 DEF Socket
<1>7. TypeOK'
  BY <1>2, <1>5 DEF UdpInv, TypeOK
<1>8. Latching' /\ Precedence'
  BY <1>2, <1>5, <1>6 DEF UdpInv, Latching, Precedence
<1>9. QED
  BY <1>7, <1>8 DEF UdpInv

(* A datagram changes one socket, the first that takes it.                 *)
LEMMA ReceiveFields ==
    ASSUME TypeOK, NEW r \in Remote, NEW port \in Port, Receive(r, port)
    PROVE  \E i \in DOMAIN sockets :
              /\ IsFirst(i, r, port)
              /\ sockets' \in Seq(Socket) /\ heard' \in Seq(SUBSET Remote)
              /\ Len(sockets') = Len(sockets) /\ Len(heard') = Len(heard)
              /\ DOMAIN sockets' = DOMAIN sockets
              /\ sockets'[i].localPort = sockets[i].localPort
              /\ sockets'[i].remote = r
              /\ ~sockets'[i].listening
              /\ heard'[i] = heard[i] \cup {r}
              /\ \A k \in DOMAIN sockets \ {i} :
                    sockets'[k] = sockets[k] /\ heard'[k] = heard[k]
              /\ UNCHANGED freePort
<1>1. PICK i \in DOMAIN sockets :
          /\ IsFirst(i, r, port)
          /\ sockets' = [sockets EXCEPT ![i] = Latched(sockets[i], r)]
          /\ heard' = [heard EXCEPT ![i] = heard[i] \cup {r}]
  BY DEF Receive
<1>2. /\ sockets \in Seq(Socket) /\ heard \in Seq(SUBSET Remote)
      /\ Len(heard) = Len(sockets)
  BY DEF TypeOK
<1>3. i \in DOMAIN heard /\ DOMAIN heard = DOMAIN sockets
  BY <1>2
<1>4. sockets[i] \in Socket /\ heard[i] \in SUBSET Remote
  BY <1>2, <1>3
<1>5. /\ Latched(sockets[i], r) \in Socket
      /\ Latched(sockets[i], r).localPort = sockets[i].localPort
      /\ Latched(sockets[i], r).remote = r
      /\ Latched(sockets[i], r).listening = FALSE
  BY <1>4 DEF Latched, Socket
<1>6. heard[i] \cup {r} \in SUBSET Remote
  BY <1>4
<1>7. sockets' \in Seq(Socket) /\ Len(sockets') = Len(sockets)
      /\ DOMAIN sockets' = DOMAIN sockets /\ sockets'[i] = Latched(sockets[i], r)
      /\ \A k \in DOMAIN sockets \ {i} : sockets'[k] = sockets[k]
  BY <1>1, <1>2, <1>5
<1>8. heard' \in Seq(SUBSET Remote) /\ Len(heard') = Len(heard)
      /\ heard'[i] = heard[i] \cup {r}
      /\ \A k \in DOMAIN sockets \ {i} : heard'[k] = heard[k]
  BY <1>1, <1>2, <1>3, <1>6
<1>9. UNCHANGED freePort
  BY DEF Receive
<1>10. QED
  BY <1>1, <1>5, <1>7, <1>8, <1>9

(* A datagram keeps the invariant.                                         *)
LEMMA ReceiveKeeps ==
    ASSUME UdpInv, NEW r \in Remote, NEW port \in Port, Receive(r, port)
    PROVE  UdpInv'
<1>1. TypeOK
  BY DEF UdpInv
<1>2. PICK i \in DOMAIN sockets :
          /\ IsFirst(i, r, port)
          /\ sockets' \in Seq(Socket) /\ heard' \in Seq(SUBSET Remote)
          /\ Len(sockets') = Len(sockets) /\ Len(heard') = Len(heard)
          /\ DOMAIN sockets' = DOMAIN sockets
          /\ sockets'[i].localPort = sockets[i].localPort
          /\ sockets'[i].remote = r
          /\ ~sockets'[i].listening
          /\ heard'[i] = heard[i] \cup {r}
          /\ \A k \in DOMAIN sockets \ {i} :
                sockets'[k] = sockets[k] /\ heard'[k] = heard[k]
          /\ UNCHANGED freePort
  BY <1>1, ReceiveFields
<1>3. /\ sockets[i].localPort = port
      /\ sockets[i].listening \/ sockets[i].remote = r
      /\ \A k \in 1 .. i - 1 :
            sockets[k].localPort = port =>
                ~sockets[k].listening /\ sockets[k].remote # r
  BY <1>2 DEF IsFirst, Matches
<1>4. /\ DOMAIN sockets = 1 .. Len(sockets) /\ Len(sockets) \in Nat
      /\ r # None
  BY <1>1, UdpAssumption DEF TypeOK
<1>5. TypeOK'
  BY <1>1, <1>2 DEF TypeOK
<1>6. heard'[i] \subseteq {r}
  BY <1>2, <1>3 DEF UdpInv, Latching
<1>7. Latching'
  BY <1>2, <1>6 DEF UdpInv, Latching
<1>8. Precedence'
  <2> SUFFICES ASSUME NEW a \in DOMAIN sockets, NEW b \in DOMAIN sockets, a < b,
                      sockets'[a].localPort = sockets'[b].localPort,
                      NEW q \in heard'[b]
               PROVE  ~sockets'[a].listening /\ sockets'[a].remote # q
    BY <1>2 DEF Precedence
  <2>1. sockets[a].localPort = sockets[b].localPort
    BY <1>2
  <2>2. CASE b = i
    <3>1. q = r
      BY <2>2, <1>6
    <3>2. a \in 1 .. i - 1 /\ a # i
      BY <2>2, <1>4
    <3>3. sockets'[a] = sockets[a]
      BY <3>2, <1>2
    <3>4. QED
      BY <3>1, <3>2, <3>3, <2>1, <2>2, <1>3
  <2>3. CASE b # i /\ a = i
    <3>1. q \in heard[b]
      BY <2>3, <1>2
    <3>2. ~sockets[i].listening /\ sockets[i].remote # q
      BY <2>1, <2>3, <3>1 DEF UdpInv, Precedence
    <3>3. QED
      BY <3>2, <2>3, <1>2, <1>3
  <2>4. CASE b # i /\ a # i
    BY <2>1, <2>4, <1>2 DEF UdpInv, Precedence
  <2>5. QED
    BY <2>2, <2>3, <2>4
<1>9. QED
  BY <1>5, <1>7, <1>8 DEF UdpInv

(* Ports stay ports.                                                       *)
LEMMA PortsStay == ASSUME NEW p \in Port PROVE NextPort(p) \in Port
<1>1. Ports \in Nat /\ Ports > 0
  BY UdpAssumption
<1>2. p \in Nat
  BY <1>1 DEF Port
<1>3. (p + 1) % Ports \in 0 .. Ports - 1
  BY <1>1, <1>2
<1>4. QED
  BY <1>3 DEF NextPort, Port

(* Every step keeps the invariant.                                         *)
LEMMA StepKeeps == UdpInv /\ [Next]_vars => UdpInv'
<1> SUFFICES ASSUME UdpInv, [Next]_vars PROVE UdpInv'
  OBVIOUS
<1>1. freePort \in Port /\ ListenPorts \subseteq Port
  BY UdpAssumption DEF UdpInv, TypeOK, Port
<1>2. ASSUME NEW port \in ListenPorts, Listen(port) PROVE UdpInv'
  <2>1. NewSocket(port, None, TRUE) \in Socket
        /\ NewSocket(port, None, TRUE).remote = None
    BY <1>1, <1>2 DEF NewSocket, Socket
  <2>2. Create(NewSocket(port, None, TRUE)) /\ freePort' \in Port
    BY <1>1, <1>2 DEF Listen
  <2>3. QED
    BY <2>1, <2>2, CreateKeeps
<1>3. ASSUME NEW r \in Remote, Connect(r) PROVE UdpInv'
  <2>1. NewSocket(freePort, r, FALSE) \in Socket
        /\ ~NewSocket(freePort, r, FALSE).listening
    BY <1>1, <1>3 DEF NewSocket, Socket
  <2>2. Create(NewSocket(freePort, r, FALSE)) /\ freePort' \in Port
    BY <1>1, <1>3, PortsStay DEF Connect
  <2>3. QED
    BY <2>1, <2>2, CreateKeeps
<1>4. ASSUME NEW i \in DOMAIN sockets, Bind(i) PROVE UdpInv'
  BY <1>4, BindKeeps
<1>5. ASSUME NEW r \in Remote, NEW port \in Port, Receive(r, port) PROVE UdpInv'
  BY <1>5, ReceiveKeeps
<1>6. CASE UNCHANGED vars
  BY <1>6 DEF vars, UdpInv, TypeOK, Latching, Precedence
<1>7. QED
  BY <1>2, <1>3, <1>4, <1>5, <1>6 DEF Next

(* At first there is no socket.                                            *)
LEMMA InitOK == Init => UdpInv
<1> SUFFICES ASSUME Init PROVE UdpInv
  OBVIOUS
<1>1. sockets = <<>> /\ heard = <<>> /\ freePort = FirstPort
  BY DEF Init
<1>2. DOMAIN sockets = {} /\ Len(sockets) = 0 /\ Len(heard) = 0
  BY <1>1
<1>3. TypeOK
  BY <1>1, <1>2, UdpAssumption DEF TypeOK, Port
<1>4. QED
  BY <1>2, <1>3 DEF UdpInv, Latching, Precedence

(* The invariant holds for ever.                                           *)
LEMMA Invariance == Spec => []UdpInv
<1>1. QED
  BY InitOK, StepKeeps, PTL DEF Spec

----------------------------------------------------------------------------
(* The table is always well typed.                                         *)
THEOREM TypeCorrect == Spec => []TypeOK
<1>1. UdpInv => TypeOK
  BY DEF UdpInv
<1>2. QED
  BY <1>1, Invariance, PTL

(* All the datagrams a socket ever takes are from one remote endpoint.     *)
THEOREM SocketHasOnePartner == Spec => []OnePartner
<1>1. UdpInv => OnePartner
  BY DEF UdpInv, Latching, OnePartner
<1>2. QED
  BY <1>1, Invariance, PTL

(* Two sockets on one port never share a sender.                           *)
THEOREM PartnerHasOneSocket == Spec => []OneSocket
<1>1. UdpInv => OneSocket
  <2> SUFFICES ASSUME UdpInv, NEW i \in DOMAIN sockets, NEW j \in DOMAIN sockets,
                      sockets[i].localPort = sockets[j].localPort, i # j,
                      NEW r \in heard[i], r \in heard[j]
               PROVE  FALSE
    BY DEF OneSocket
  <2>1. r = sockets[i].remote /\ r = sockets[j].remote
    BY DEF UdpInv, Latching
  <2>2. i \in Int /\ j \in Int
    BY DEF UdpInv, TypeOK
  <2>3. i < j \/ j < i
    BY <2>2
  <2>4. QED
    BY <2>1, <2>3 DEF UdpInv, Precedence
<1>2. QED
  BY <1>1, Invariance, PTL

(* A socket that has a partner keeps it.                                   *)
THEOREM PartnerIsKept == Spec => PartnerStays
<1> DEFINE Keep == \A i \in DOMAIN sockets :
               sockets[i].remote # None => sockets'[i].remote = sockets[i].remote
<1>1. UdpInv /\ [Next]_vars => [Keep]_vars
  <2> SUFFICES ASSUME UdpInv, Next, NEW i \in DOMAIN sockets, sockets[i].remote # None
               PROVE  sockets'[i].remote = sockets[i].remote
    OBVIOUS
  <2>1. TypeOK /\ DOMAIN sockets = 1 .. Len(sockets)
    BY DEF UdpInv, TypeOK
  <2>2. ASSUME NEW s \in Socket, Create(s) PROVE sockets'[i] = sockets[i]
    BY <2>1, <2>2, CreateFields
  <2>3. freePort \in Port /\ ListenPorts \subseteq Port
    BY <2>1, UdpAssumption DEF TypeOK, Port
  <2>4. ASSUME NEW port \in ListenPorts, Listen(port)
        PROVE  sockets'[i].remote = sockets[i].remote
    <3>1. NewSocket(port, None, TRUE) \in Socket
      BY <2>3, <2>4 DEF NewSocket, Socket
    <3>2. QED
      BY <3>1, <2>2, <2>4 DEF Listen
  <2>5. ASSUME NEW r \in Remote, Connect(r)
        PROVE  sockets'[i].remote = sockets[i].remote
    <3>1. NewSocket(freePort, r, FALSE) \in Socket
      BY <2>3, <2>5 DEF NewSocket, Socket
    <3>2. QED
      BY <3>1, <2>2, <2>5 DEF Connect
  <2>6. ASSUME NEW k \in DOMAIN sockets, Bind(k)
        PROVE  sockets'[i].remote = sockets[i].remote
    <3>1. sockets' = [sockets EXCEPT ![k] = [sockets[k] EXCEPT !.handler = TRUE]]
      BY <2>6 DEF Bind
    <3>2. sockets[k] \in Socket /\ sockets \in Seq(Socket)
      BY <2>1, <2>6 DEF TypeOK
    <3>3. [sockets[k] EXCEPT !.handler = TRUE].remote = sockets[k].remote
      BY <3>2 DEF Socket
    <3>4. QED
      BY <3>1, <3>2, <3>3
  <2>7. ASSUME NEW r \in Remote, NEW port \in Port, Receive(r, port)
        PROVE  sockets'[i].remote = sockets[i].remote
    <3>1. PICK k \in DOMAIN sockets :
              /\ IsFirst(k, r, port)
              /\ sockets'[k].remote = r
              /\ \A m \in DOMAIN sockets \ {k} : sockets'[m] = sockets[m]
      BY <2>1, <2>7, ReceiveFields
    <3>2. CASE i = k
      <4>1. sockets[i].listening \/ sockets[i].remote = r
        BY <3>1, <3>2 DEF IsFirst, Matches
      <4>2. ~sockets[i].listening
        BY DEF UdpInv, Latching
      <4>3. QED
        BY <4>1, <4>2, <3>1, <3>2
    <3>3. CASE i # k
      BY <3>1, <3>3
    <3>4. QED
      BY <3>2, <3>3
  <2>8. QED
    BY <2>4, <2>5, <2>6, <2>7 DEF Next
<1>2. QED
  BY <1>1, Invariance, PTL DEF Spec, PartnerStays
=============================================================================
