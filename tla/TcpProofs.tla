----------------------------- MODULE TcpProofs -----------------------------
(***************************************************************************)
(* Proofs about TCP between two hosts, Tcp.tla, for every pair of hosts,   *)
(* every set of payloads and any number of sockets, sends and losses.      *)
(***************************************************************************)
EXTENDS Tcp, FiniteSetTheorems, WellFoundedInduction, TLAPS

Numbers == 0 .. SeqSpace - 1

FlagSets == {{"SYN"}, {"SYN", "ACK"}, {"ACK"}, {"FIN", "ACK"}, {"PSH", "ACK"}, {"RST"}}

Bytes == Seq(Nat)
Flag == BOOLEAN
Peers == Endpoint \cup {Nobody}
Sent == Seq(Payload)
Got == Seq(Bytes)
Reasons == {"no", "state", "order", "handler"}

SocketType ==
    [state : States, lport : Nat, rport : Int, seq : Numbers, ack : Numbers,
     handler : Flag, left : Flag, peer : Peers, sent : Sent, got : Got,
     refused : Reasons]

SegmentType ==
    [src : Int, dst : Int, flags : FlagSets, seq : Numbers, data : Bytes, by : Endpoint]

CallType == [call : {"spin", "send", "disconnect"}, on : 1 .. MaxSockets]

(* Everything has its type.                                                *)
Types ==
    /\ sockets \in [Host -> Seq(SocketType)]
    /\ net \in [Host -> Seq(SegmentType)]
    /\ freePort \in [Host -> 0 .. Ports - 1]
    /\ app \in [Host -> {Idle} \cup CallType]
    /\ most \in Scenarios /\ lost \in 0 .. most.loss
    /\ \A h \in Host :
          /\ Len(sockets[h]) <= most.sockets
          /\ app[h] # Idle => app[h].on \in DOMAIN sockets[h]

----------------------------------------------------------------------------
(* There are two hosts, each the other of the other.                       *)
LEMMA Hosts ==
    \A h \in Host : /\ Other(h) \in Host /\ Other(h) # h /\ Other(Other(h)) = h
                    /\ \A k \in Host : k = h \/ k = Other(h)
<1> SUFFICES ASSUME NEW h \in Host
             PROVE  /\ Other(h) \in Host /\ Other(h) # h /\ Other(Other(h)) = h
                    /\ \A k \in Host : k = h \/ k = Other(h)
  OBVIOUS
<1>1. PICK a \in Host, b \in Host : a # b /\ Host = {a, b}
  BY TcpAssumption
<1>2. ASSUME NEW k \in Host PROVE Other(k) \in Host /\ Other(k) # k
  <2>1. \E c \in Host : c # k
    BY <1>1
  <2> QED
    BY <2>1 DEF Other
<1> QED
  BY <1>1, <1>2

(* Sequence numbers stay in their range.                                   *)
LEMMA PlusNumbers == ASSUME NEW n \in Numbers, NEW k \in Int PROVE Plus(n, k) \in Numbers
<1>1. SeqSpace \in Nat \ {0}
  BY TcpAssumption
<1>2. n + k \in Int
  BY <1>1 DEF Numbers
<1> QED
  BY <1>1, <1>2, SMTT(30) DEF Plus, Numbers

(* Which of SYN, ACK and FIN a segment has.                                *)
LEMMA Kinds ==
    /\ {"SYN"} \cap {"SYN", "ACK", "FIN"} = {"SYN"}
    /\ {"SYN", "ACK"} \cap {"SYN", "ACK", "FIN"} = {"SYN", "ACK"}
    /\ {"ACK"} \cap {"SYN", "ACK", "FIN"} = {"ACK"}
    /\ {"FIN", "ACK"} \cap {"SYN", "ACK", "FIN"} = {"FIN", "ACK"}
    /\ {"PSH", "ACK"} \cap {"SYN", "ACK", "FIN"} = {"ACK"}
    /\ {"SYN"} # {"SYN", "ACK"} /\ {"SYN"} # {"FIN"} /\ {"SYN"} # {"FIN", "ACK"}
    /\ {"SYN"} # {"ACK"} /\ {"SYN", "ACK"} # {"FIN"} /\ {"SYN", "ACK"} # {"FIN", "ACK"}
    /\ {"SYN", "ACK"} # {"ACK"} /\ {"FIN", "ACK"} # {"ACK"} /\ {"ACK"} # {"FIN"}
    /\ {"PSH", "ACK"} # {"ACK"} /\ {"PSH", "ACK"} # {"FIN", "ACK"}
    /\ {"PSH", "ACK"} # {"SYN", "ACK"} /\ {"PSH", "ACK"} # {"SYN"}
    /\ {"RST"} # {"SYN"} /\ {"RST"} # {"SYN", "ACK"} /\ {"RST"} # {"ACK"}
    /\ {"RST"} # {"FIN", "ACK"} /\ {"RST"} # {"PSH", "ACK"}
    /\ "RST" \notin {"SYN"} /\ "RST" \notin {"SYN", "ACK"} /\ "RST" \notin {"ACK"}
    /\ "RST" \notin {"FIN", "ACK"} /\ "RST" \notin {"PSH", "ACK"} /\ "RST" \in {"RST"}
<1>1. /\ "SYN" \in {"SYN"} /\ "ACK" \notin {"SYN"} /\ "FIN" \notin {"SYN"}
      /\ "SYN" \notin {"ACK"} /\ "FIN" \notin {"ACK"} /\ "FIN" \notin {"SYN", "ACK"}
      /\ "SYN" \notin {"FIN"} /\ "ACK" \notin {"FIN"} /\ "SYN" \notin {"FIN", "ACK"}
      /\ "SYN" \notin {"PSH", "ACK"} /\ "FIN" \notin {"PSH", "ACK"}
      /\ "SYN" \notin {"RST"} /\ "ACK" \notin {"RST"} /\ "FIN" \notin {"RST"}
      /\ "PSH" \notin {"ACK"} /\ "PSH" \notin {"RST"}
  OBVIOUS
<1>2. {"SYN"} \cap {"SYN", "ACK", "FIN"} = {"SYN"}
  OBVIOUS
<1>3. {"SYN", "ACK"} \cap {"SYN", "ACK", "FIN"} = {"SYN", "ACK"}
  OBVIOUS
<1>4. {"ACK"} \cap {"SYN", "ACK", "FIN"} = {"ACK"}
  OBVIOUS
<1>5. {"FIN", "ACK"} \cap {"SYN", "ACK", "FIN"} = {"FIN", "ACK"}
  OBVIOUS
<1>6. {"PSH", "ACK"} \cap {"SYN", "ACK", "FIN"} = {"ACK"}
  OBVIOUS
<1>7. /\ {"SYN"} # {"SYN", "ACK"} /\ {"SYN"} # {"FIN"} /\ {"SYN"} # {"FIN", "ACK"}
      /\ {"SYN"} # {"ACK"} /\ {"SYN", "ACK"} # {"FIN"} /\ {"SYN", "ACK"} # {"FIN", "ACK"}
      /\ {"SYN", "ACK"} # {"ACK"} /\ {"FIN", "ACK"} # {"ACK"} /\ {"ACK"} # {"FIN"}
  BY <1>1
<1>8. /\ {"PSH", "ACK"} # {"ACK"} /\ {"PSH", "ACK"} # {"FIN", "ACK"}
      /\ {"PSH", "ACK"} # {"SYN", "ACK"} /\ {"PSH", "ACK"} # {"SYN"}
      /\ {"RST"} # {"SYN"} /\ {"RST"} # {"SYN", "ACK"} /\ {"RST"} # {"ACK"}
      /\ {"RST"} # {"FIN", "ACK"} /\ {"RST"} # {"PSH", "ACK"}
  BY <1>1
<1>9. /\ "RST" \notin {"SYN"} /\ "RST" \notin {"SYN", "ACK"} /\ "RST" \notin {"ACK"}
      /\ "RST" \notin {"FIN", "ACK"} /\ "RST" \notin {"PSH", "ACK"} /\ "RST" \in {"RST"}
  OBVIOUS
<1> QED
  BY <1>2, <1>3, <1>4, <1>5, <1>6, <1>7, <1>8, <1>9

(* Nobody is not a socket.                                                 *)
LEMMA NobodyIsNone == Nobody \notin Endpoint
BY DEF Nobody, Endpoint

----------------------------------------------------------------------------
(* What React comes to: one of these, for a socket s and a segment g.      *)
Accepts(s, g) ==
    /\ s.state = "LISTEN" /\ g.flags = {"SYN"}
    /\ React(s, g) =
          [sock |-> [s EXCEPT !.state = "SYN_RECEIVED", !.rport = g.src,
                              !.ack = Plus(g.seq, 1), !.seq = Plus(Iss, 1),
                              !.peer = g.by],
           out |-> <<[flags |-> {"SYN", "ACK"}, seq |-> Iss]>>]

Connects(s, g) ==
    /\ s.state = "SYN_SENT" /\ g.flags = {"SYN", "ACK"}
    /\ React(s, g) =
          Replying([s EXCEPT !.state = "ESTABLISHED", !.ack = Plus(g.seq, 1),
                             !.seq = Plus(@, 1), !.peer = g.by], {"ACK"})

Talking == {"LISTEN", "SYN_SENT", "ESTABLISHED", "FIN_WAIT2"}

(* What the handler is given.                                              *)
TakesData(s, g) ==
    /\ s.state \in Talking /\ g.flags = {"PSH", "ACK"} /\ g.seq = s.ack
    /\ React(s, g) = Replying([s EXCEPT !.got = Append(@, g.data),
                                        !.ack = Plus(@, Advance(g.data))], {"ACK"})

Rejects(s, g, why) ==
    /\ s.state # "CLOSED" /\ g.flags \notin {{"ACK"}, {"RST"}}
    /\ why = "order" => s.state \in Talking /\ g.flags = {"PSH", "ACK"} /\ g.seq # s.ack
    /\ React(s, g) = Refuse(s, why)

Opens(s, g) ==
    /\ s.state = "SYN_RECEIVED" /\ g.flags \in {{"ACK"}, {"PSH", "ACK"}}
    /\ React(s, g) = Silently([s EXCEPT !.state = "ESTABLISHED"])

HalfCloses(s, g) ==
    /\ s.state = "FIN_WAIT1" /\ g.flags \in {{"ACK"}, {"PSH", "ACK"}}
    /\ React(s, g) = Silently([s EXCEPT !.state = "FIN_WAIT2"])

Ignores(s, g) ==
    /\ s.state \in Talking /\ g.flags = {"ACK"}
    /\ React(s, g) = Silently(s)

Closes(s, g) ==
    /\ g.flags \in {{"SYN"}, {"SYN", "ACK"}} => s.state = "CLOSED"
    /\ React(s, g) = Silently([s EXCEPT !.state = "CLOSED"])

FollowsFin(s, g) ==
    /\ s.state = "ESTABLISHED" /\ g.flags = {"FIN", "ACK"}
    /\ React(s, g) =
          [sock |-> [s EXCEPT !.state = "CLOSE_WAIT", !.ack = Plus(@, 1)],
           out |-> <<[flags |-> {"ACK"}, seq |-> s.seq],
                     [flags |-> {"FIN", "ACK"}, seq |-> s.seq]>>]

EndsByFin(s, g) ==
    /\ s.state \in {"FIN_WAIT1", "FIN_WAIT2"} /\ g.flags = {"FIN", "ACK"}
    /\ React(s, g) = Replying([s EXCEPT !.state = "CLOSED", !.ack = Plus(@, 1)], {"ACK"})

(* React has no outcome but these: each is one path through                *)
(* HandleTransmissionControlProtocolMessage (tcp.cpp:125-282).             *)
LEMMA Outcomes ==
    ASSUME NEW s \in SocketType, NEW g \in SegmentType
    PROVE  \/ Accepts(s, g) \/ Connects(s, g) \/ TakesData(s, g)
           \/ Rejects(s, g, "state") \/ Rejects(s, g, "order") \/ Rejects(s, g, "handler")
           \/ Opens(s, g) \/ HalfCloses(s, g) \/ Ignores(s, g) \/ Closes(s, g)
           \/ FollowsFin(s, g) \/ EndsByFin(s, g)
<1>1. s.state \in States /\ g.flags \in FlagSets
  BY DEF SocketType, SegmentType
<1>2. CASE s.state = "CLOSED" \/ g.flags = {"RST"}
  BY <1>1, <1>2, Kinds DEF Closes, React
<1>3. CASE s.state # "CLOSED" /\ g.flags = {"SYN"}
  BY <1>3, Kinds DEF React, OnSyn, Accepts, Rejects
<1>4. CASE s.state # "CLOSED" /\ g.flags = {"SYN", "ACK"}
  BY <1>4, Kinds DEF React, OnSynAck, Connects, Rejects
<1>5. CASE s.state # "CLOSED" /\ g.flags = {"FIN", "ACK"}
  <2>1. React(s, g) = OnFin(s)
    BY <1>5, Kinds DEF React
  <2>2. CASE s.state = "ESTABLISHED"
    BY <1>5, <2>1, <2>2 DEF OnFin, FollowsFin
  <2>3. CASE s.state = "CLOSE_WAIT"
    BY <1>5, <2>1, <2>3, Kinds DEF OnFin, Closes
  <2>4. CASE s.state \in {"FIN_WAIT1", "FIN_WAIT2"}
    BY <1>5, <2>1, <2>4 DEF OnFin, EndsByFin
  <2>5. CASE s.state \notin {"ESTABLISHED", "CLOSE_WAIT", "FIN_WAIT1", "FIN_WAIT2"}
    BY <1>5, <2>1, <2>5, Kinds DEF OnFin, Rejects
  <2> QED
    BY <2>2, <2>3, <2>4, <2>5
<1>6. CASE s.state # "CLOSED" /\ g.flags \in {{"ACK"}, {"PSH", "ACK"}}
  <2>1. React(s, g) = OnAck(s, g)
    BY <1>6, Kinds DEF React
  <2>2. CASE s.state = "SYN_RECEIVED"
    BY <1>6, <2>1, <2>2 DEF OnAck, Opens
  <2>3. CASE s.state = "FIN_WAIT1"
    BY <1>6, <2>1, <2>3 DEF OnAck, HalfCloses
  <2>4. CASE s.state = "CLOSE_WAIT"
    BY <1>6, <2>1, <2>4, Kinds DEF OnAck, Closes
  <2>5. CASE s.state \in Talking
    <3>1. React(s, g) = IF g.flags = {"ACK"} THEN Silently(s) ELSE OnData(s, g)
      BY <2>1, <2>5 DEF OnAck, Talking
    <3>2. CASE g.flags = {"ACK"}
      BY <2>5, <3>1, <3>2 DEF Ignores
    <3>3. CASE g.flags = {"PSH", "ACK"}
      BY <1>6, <2>5, <3>1, <3>3, Kinds DEF OnData, TakesData, Rejects
    <3> QED
      BY <1>6, <3>2, <3>3
  <2> QED
    BY <1>1, <1>6, <2>2, <2>3, <2>4, <2>5 DEF States, Talking
<1> QED
  BY <1>1, <1>2, <1>3, <1>4, <1>5, <1>6 DEF FlagSets

----------------------------------------------------------------------------
(* A set of positions in a sequence has a last one.                        *)
LEMMA LastOne ==
    ASSUME NEW n \in Nat, NEW full \in SUBSET (1 .. n), full # {}
    PROVE  Max(full) \in full /\ \A k \in full : k <= Max(full)
<1> DEFINE T == {n - k : k \in full}
<1>1. T \subseteq Nat /\ T # {}
  <2>1. \A k \in full : n - k \in Nat
    OBVIOUS
  <2> QED
    BY <2>1
<1> DEFINE R == OpToRel(<, Nat)
<1>2. \A x, y \in Nat : <<y, x>> \in R <=> y < x
  BY DEF OpToRel
<1>3. IsWellFoundedOn(R, Nat)
  BY NatLessThanWellFounded
<1> HIDE DEF R
<1>4. PICK x \in T : \A y \in T : ~(<<y, x>> \in R)
  <2> HIDE DEF T
  <2> QED
    BY <1>1, <1>3, WFMin
<1>5. \A y \in T : ~(y < x)
  BY <1>1, <1>2, <1>4
<1>6. PICK m \in full : x = n - m
  OBVIOUS
<1>7. ASSUME NEW k \in full PROVE m >= k
  <2>1. n - k \in T /\ n \in Int /\ k \in Int /\ m \in Int
    OBVIOUS
  <2>2. ~(n - k < n - m)
    BY <1>5, <1>6, <2>1
  <2> HIDE DEF T
  <2> QED
    BY <2>1, <2>2
<1> QED
  BY <1>7 DEF Max

(* How far data moves acknowledgementNumber: by its length, when it does   *)
(* not end in a zero byte, otherwise by less.                              *)
LEMMA AdvanceIs ==
    ASSUME NEW data \in Bytes
    PROVE  /\ Advance(data) = 1 - HeaderBytes \/ Advance(data) \in 1 .. Len(data)
           /\ Advance(data) \in Int
           /\ Len(data) > 0 /\ data[Len(data)] # 0 => Advance(data) = Len(data)
<1> DEFINE full == {k \in DOMAIN data : data[k] # 0}
<1>1. full \in SUBSET (1 .. Len(data)) /\ Len(data) \in Nat
  BY DEF Bytes
<1>2. Advance(data) = IF full = {} THEN 1 - HeaderBytes ELSE Max(full)
  BY DEF Advance
<1>3. full # {} => Max(full) \in full /\ \A k \in full : k <= Max(full)
  BY <1>1, LastOne
<1>4. Len(data) > 0 /\ data[Len(data)] # 0 => Len(data) \in full
  BY <1>1
<1> HIDE DEF full
<1>5. HeaderBytes \in Nat
  BY TcpAssumption
<1>6. CASE full = {}
  BY <1>1, <1>2, <1>4, <1>5, <1>6
<1>7. CASE full # {}
  <2>1. PICK m \in 1 .. Len(data) : m = Max(full) /\ \A k \in full : k <= m
    BY <1>1, <1>3, <1>7
  <2>2. Len(data) > 0 /\ data[Len(data)] # 0 => Len(data) = m
    BY <1>1, <1>4, <2>1
  <2>3. Advance(data) = m
    BY <1>2, <1>7, <2>1
  <2> QED
    BY <1>1, <2>2, <2>3
<1> QED
  BY <1>6, <1>7

(* What React says of a segment to be sent.                                *)
OutType == [flags : FlagSets, seq : Numbers]

(* A socket with one field changed is a socket.                            *)
LEMMA Edited ==
    ASSUME NEW s \in SocketType
    PROVE  /\ \A x \in States : [s EXCEPT !.state = x] \in SocketType
           /\ \A x \in Int : [s EXCEPT !.rport = x] \in SocketType
           /\ \A x \in Numbers : [s EXCEPT !.seq = x] \in SocketType
           /\ \A x \in Numbers : [s EXCEPT !.ack = x] \in SocketType
           /\ \A x \in Flag : [s EXCEPT !.handler = x] \in SocketType
           /\ \A x \in Flag : [s EXCEPT !.left = x] \in SocketType
           /\ \A x \in Peers : [s EXCEPT !.peer = x] \in SocketType
           /\ \A x \in Sent : [s EXCEPT !.sent = x] \in SocketType
           /\ \A x \in Got : [s EXCEPT !.got = x] \in SocketType
           /\ \A x \in Reasons : [s EXCEPT !.refused = x] \in SocketType
BY DEF SocketType

(* A reply, and no reply.                                                  *)
LEMMA Replies ==
    ASSUME NEW s \in SocketType
    PROVE  /\ Silently(s).sock = s /\ Silently(s).out \in Seq(OutType)
           /\ \A f \in FlagSets : Replying(s, f).sock = s /\ Replying(s, f).out \in Seq(OutType)
<1>1. s.seq \in Numbers
  BY DEF SocketType
<1>2. <<>> \in Seq(OutType)
  OBVIOUS
<1>3. ASSUME NEW f \in FlagSets PROVE <<[flags |-> f, seq |-> s.seq]>> \in Seq(OutType)
  <2>1. [flags |-> f, seq |-> s.seq] \in OutType
    BY <1>1 DEF OutType
  <2> QED
    BY <2>1
<1> QED
  BY <1>2, <1>3 DEF Silently, Replying

(* What React makes is a socket again, and what it sends are segments.     *)
LEMMA ReactTyped ==
    ASSUME NEW s \in SocketType, NEW g \in SegmentType
    PROVE  /\ React(s, g).sock \in SocketType
           /\ React(s, g).out \in Seq(OutType)
<1>1. /\ {"SYN", "ACK"} \in FlagSets /\ {"ACK"} \in FlagSets /\ {"FIN", "ACK"} \in FlagSets
      /\ {"RST"} \in FlagSets
  BY DEF FlagSets
<1>2. /\ Plus(g.seq, 1) \in Numbers /\ Plus(Iss, 1) \in Numbers /\ Iss \in Numbers
      /\ Plus(s.seq, 1) \in Numbers /\ Plus(s.ack, 1) \in Numbers
      /\ s.seq \in Numbers
      /\ Plus(s.ack, Advance(g.data)) \in Numbers
  <2>1. g.data \in Bytes /\ g.seq \in Numbers /\ s.seq \in Numbers /\ s.ack \in Numbers
    BY DEF SocketType, SegmentType
  <2>2. Iss \in Numbers /\ 1 \in Int
    BY TcpAssumption DEF Numbers
  <2> QED
    BY <2>1, <2>2, PlusNumbers, AdvanceIs
<1>3. Append(s.got, g.data) \in Got /\ g.by \in Peers /\ g.src \in Int
  BY DEF SocketType, SegmentType, Got, Peers
<1>4. /\ {"SYN_RECEIVED", "ESTABLISHED", "FIN_WAIT2", "CLOSED", "CLOSE_WAIT"} \subseteq States
      /\ {"state", "order", "handler"} \subseteq Reasons /\ s.refused \in Reasons
  BY DEF States, Reasons, SocketType
<1>5. /\ <<>> \in Seq(OutType)
      /\ \A f \in FlagSets, n \in Numbers : <<[flags |-> f, seq |-> n]>> \in Seq(OutType)
      /\ \A f, e \in FlagSets, n \in Numbers :
            <<[flags |-> f, seq |-> n], [flags |-> e, seq |-> n]>> \in Seq(OutType)
  BY DEF OutType
<1>6. CASE Accepts(s, g)
  <2> DEFINE a == [s EXCEPT !.state = "SYN_RECEIVED"]
             b == [a EXCEPT !.rport = g.src]
             c == [b EXCEPT !.ack = Plus(g.seq, 1)]
             d == [c EXCEPT !.seq = Plus(Iss, 1)]
  <2>1. a \in SocketType
    BY <1>4, Edited
  <2>2. b \in SocketType
    BY <1>3, <2>1, Edited
  <2>3. c \in SocketType
    BY <1>2, <2>2, Edited
  <2>4. d \in SocketType
    BY <1>2, <2>3, Edited
  <2>5. [d EXCEPT !.peer = g.by] \in SocketType
    BY <1>3, <2>4, Edited
  <2> QED
    BY <1>1, <1>2, <1>5, <1>6, <2>5 DEF Accepts
<1>7. CASE Connects(s, g)
  <2> DEFINE a == [s EXCEPT !.state = "ESTABLISHED"]
             b == [a EXCEPT !.ack = Plus(g.seq, 1)]
             c == [b EXCEPT !.seq = Plus(s.seq, 1)]
             d == [c EXCEPT !.peer = g.by]
  <2>1. a \in SocketType
    BY <1>4, Edited
  <2>2. b \in SocketType
    BY <1>2, <2>1, Edited
  <2>3. c \in SocketType
    BY <1>2, <2>2, Edited
  <2>4. d \in SocketType
    BY <1>3, <2>3, Edited
  <2>5. React(s, g) = Replying(d, {"ACK"})
    BY <1>7 DEF Connects
  <2> HIDE DEF d
  <2> QED
    BY <1>1, <2>4, <2>5, Replies
<1>8. CASE TakesData(s, g)
  <2> DEFINE a == [s EXCEPT !.got = Append(s.got, g.data)]
             b == [a EXCEPT !.ack = Plus(s.ack, Advance(g.data))]
  <2>1. a \in SocketType
    BY <1>3, Edited
  <2>2. b \in SocketType
    BY <1>2, <2>1, Edited
  <2>3. React(s, g) = Replying(b, {"ACK"})
    BY <1>8 DEF TakesData
  <2> HIDE DEF b
  <2> QED
    BY <1>1, <2>2, <2>3, Replies
<1>9. ASSUME NEW why \in {"state", "order", "handler"}, Rejects(s, g, why)
      PROVE  React(s, g).sock \in SocketType /\ React(s, g).out \in Seq(OutType)
  <2> DEFINE a == [s EXCEPT !.refused = IF s.refused = "no" THEN why ELSE s.refused]
  <2>1. a \in SocketType
    BY <1>4, Edited
  <2>2. React(s, g) = Replying(a, {"RST"})
    BY <1>9 DEF Rejects, Refuse
  <2> HIDE DEF a
  <2> QED
    BY <1>1, <2>1, <2>2, Replies
<1>10. CASE Opens(s, g) \/ HalfCloses(s, g) \/ Closes(s, g) \/ Ignores(s, g)
  <2>1. \E t \in SocketType : React(s, g) = Silently(t)
    <3>1. ASSUME NEW x \in States PROVE [s EXCEPT !.state = x] \in SocketType
      BY Edited
    <3> QED
      BY <1>4, <1>10, <3>1 DEF Opens, HalfCloses, Closes, Ignores
  <2> QED
    BY <2>1, Replies
<1>11. CASE FollowsFin(s, g)
  <2> DEFINE a == [s EXCEPT !.state = "CLOSE_WAIT"]
             b == [a EXCEPT !.ack = Plus(s.ack, 1)]
  <2>1. a \in SocketType
    BY <1>4, Edited
  <2>2. b \in SocketType
    BY <1>2, <2>1, Edited
  <2>3. /\ React(s, g).sock = b
        /\ React(s, g).out = <<[flags |-> {"ACK"}, seq |-> s.seq],
                               [flags |-> {"FIN", "ACK"}, seq |-> s.seq]>>
    BY SMTT(30), <1>11 DEF FollowsFin
  <2> QED
    BY SMTT(30), <1>1, <1>2, <1>5, <2>2, <2>3
<1>12. CASE EndsByFin(s, g)
  <2> DEFINE a == [s EXCEPT !.state = "CLOSED"]
             b == [a EXCEPT !.ack = Plus(s.ack, 1)]
  <2>1. a \in SocketType
    BY <1>4, Edited
  <2>2. b \in SocketType
    BY <1>2, <2>1, Edited
  <2>3. React(s, g) = Replying(b, {"ACK"})
    BY <1>12 DEF EndsByFin
  <2> HIDE DEF b
  <2> QED
    BY <1>1, <2>2, <2>3, Replies
<1> QED
  BY <1>6, <1>7, <1>8, <1>9, <1>10, <1>11, <1>12, Outcomes

----------------------------------------------------------------------------
(* What a step does to the sockets and to the queues, place by place.  Of  *)
(* the socket i of host h nothing but the value changes ...                *)
Changed(h, i, t) ==
    /\ sockets' \in [Host -> Seq(SocketType)]
    /\ \A k \in Host : /\ Len(sockets'[k]) = Len(sockets[k])
                       /\ DOMAIN sockets'[k] = DOMAIN sockets[k]
    /\ \A k \in Host : \A j \in DOMAIN sockets[k] :
          sockets'[k][j] = IF k = h /\ j = i THEN t ELSE sockets[k][j]

(* ... and h takes d segments and sends those of out.                      *)
Queued(h, d, out) ==
    /\ net' \in [Host -> Seq(SegmentType)]
    /\ Len(net'[h]) = Len(net[h]) - d
    /\ \A n \in DOMAIN net'[h] : n + d \in DOMAIN net[h] /\ net'[h][n] = net[h][n + d]
    /\ Len(net'[Other(h)]) = Len(net[Other(h)]) + Len(out)
    /\ \A n \in DOMAIN net'[Other(h)] :
          IF n <= Len(net[Other(h)])
          THEN n \in DOMAIN net[Other(h)] /\ net'[Other(h)][n] = net[Other(h)][n]
          ELSE /\ n - Len(net[Other(h)]) \in DOMAIN out
               /\ net'[Other(h)][n] = out[n - Len(net[Other(h)])]

(* A queue without its head.                                               *)
LEMMA Shorter ==
    ASSUME NEW A, NEW q \in Seq(A), q # <<>>
    PROVE  /\ Tail(q) \in Seq(A) /\ Len(Tail(q)) = Len(q) - 1
           /\ \A n \in DOMAIN Tail(q) : n + 1 \in DOMAIN q /\ Tail(q)[n] = q[n + 1]
<1>1. Tail(q) \in Seq(A) /\ Len(Tail(q)) = Len(q) - 1 /\ Len(q) \in Nat
  OBVIOUS
<1>2. ASSUME NEW n \in DOMAIN Tail(q) PROVE n + 1 \in DOMAIN q /\ Tail(q)[n] = q[n + 1]
  <2>1. n \in 1 .. Len(q) - 1
    BY <1>1
  <2> QED
    BY <1>1, <2>1
<1> QED
  BY <1>1, <1>2

(* Two queues one after the other.                                         *)
LEMMA Longer ==
    ASSUME NEW A, NEW q \in Seq(A), NEW r \in Seq(A)
    PROVE  /\ q \o r \in Seq(A) /\ Len(q \o r) = Len(q) + Len(r)
           /\ \A n \in DOMAIN (q \o r) :
                 IF n <= Len(q)
                 THEN n \in DOMAIN q /\ (q \o r)[n] = q[n]
                 ELSE n - Len(q) \in DOMAIN r /\ (q \o r)[n] = r[n - Len(q)]
<1>1. /\ q \o r \in Seq(A) /\ Len(q \o r) = Len(q) + Len(r)
      /\ Len(q) \in Nat /\ Len(r) \in Nat
  OBVIOUS
<1>2. ASSUME NEW n \in DOMAIN (q \o r)
      PROVE  IF n <= Len(q)
             THEN n \in DOMAIN q /\ (q \o r)[n] = q[n]
             ELSE n - Len(q) \in DOMAIN r /\ (q \o r)[n] = r[n - Len(q)]
  <2>1. n \in 1 .. Len(q) + Len(r)
    BY <1>1
  <2> QED
    BY <1>1, <2>1
<1> QED
  BY <1>1, <1>2

(* A step that changes one socket.                                         *)
LEMMA ChangedIs ==
    ASSUME Types, NEW h \in Host, NEW i \in DOMAIN sockets[h], NEW t \in SocketType,
           sockets' = [sockets EXCEPT ![h][i] = t]
    PROVE  Changed(h, i, t)
<1>1. sockets \in [Host -> Seq(SocketType)]
  BY DEF Types
<1> QED
  BY <1>1 DEF Changed

(* A step that takes the head of a queue, or not, and answers.             *)
LEMMA QueuedIs ==
    ASSUME Types, NEW h \in Host, NEW d \in {0, 1}, NEW out \in Seq(SegmentType),
           d = 1 => net[h] # <<>>,
           net' = [net EXCEPT ![h] = IF d = 1 THEN Tail(@) ELSE @, ![Other(h)] = @ \o out]
    PROVE  Queued(h, d, out)
<1>1. net \in [Host -> Seq(SegmentType)] /\ Other(h) \in Host /\ Other(h) # h
  BY Hosts DEF Types
<1>2. PICK q \in Seq(SegmentType), r \in Seq(SegmentType) : q = net[h] /\ r = net[Other(h)]
  BY <1>1
<1>3. /\ net'[h] = IF d = 1 THEN Tail(q) ELSE q
      /\ net'[Other(h)] = r \o out
  BY <1>1, <1>2
<1>4. net' \in [Host -> Seq(SegmentType)]
  <2>1. (IF d = 1 THEN Tail(q) ELSE q) \in Seq(SegmentType)
    BY <1>2
  <2>2. r \o out \in Seq(SegmentType)
    BY <1>2
  <2> QED
    BY <1>1, <1>2, <2>1, <2>2
<1>5. /\ Len(net'[h]) = Len(q) - d
      /\ \A n \in DOMAIN net'[h] : n + d \in DOMAIN q /\ net'[h][n] = q[n + d]
  <2>1. CASE d = 1
    <3>1. /\ Len(Tail(q)) = Len(q) - 1
          /\ \A n \in DOMAIN Tail(q) : n + 1 \in DOMAIN q /\ Tail(q)[n] = q[n + 1]
      BY <1>2, <2>1, Shorter
    <3>2. net'[h] = Tail(q)
      BY Zenon, <1>3, <2>1
    <3> QED
      BY <2>1, <3>1, <3>2
  <2>2. CASE d = 0
    <3>1. Len(q) \in Nat /\ DOMAIN q = 1 .. Len(q)
      OBVIOUS
    <3>2. net'[h] = q
      BY <1>3, <2>2
    <3>3. Len(q) = Len(q) - 0 /\ \A n \in DOMAIN q : n + 0 \in DOMAIN q /\ q[n] = q[n + 0]
      BY <3>1
    <3> QED
      BY Zenon, <2>2, <3>2, <3>3
  <2> QED
    BY <2>1, <2>2
<1>6. /\ Len(r \o out) = Len(r) + Len(out)
      /\ \A n \in DOMAIN (r \o out) :
            IF n <= Len(r)
            THEN n \in DOMAIN r /\ (r \o out)[n] = r[n]
            ELSE n - Len(r) \in DOMAIN out /\ (r \o out)[n] = out[n - Len(r)]
  BY Longer
<1> QED
  BY ZenonT(60), <1>2, <1>3, <1>4, <1>5, <1>6 DEF Queued

(* A queue that only grows by one segment, only loses one, or stays.       *)
LEMMA QueuedToo ==
    ASSUME Types, NEW h \in Host
    PROVE  /\ \A g \in SegmentType : Sending(h, g) => Queued(h, 0, <<g>>)
           /\ net' = [net EXCEPT ![h] = Tail(@)] /\ net[h] # <<>> => Queued(h, 1, <<>>)
           /\ net' = net => Queued(h, 0, <<>>)
<1>1. net \in [Host -> Seq(SegmentType)] /\ Other(h) \in Host /\ Other(h) # h
  BY Hosts DEF Types
<1>2. net[h] \in Seq(SegmentType) /\ net[Other(h)] \in Seq(SegmentType)
  BY <1>1
<1>3. ASSUME NEW g \in SegmentType, Sending(h, g) PROVE Queued(h, 0, <<g>>)
  <2>1. net' = [net EXCEPT ![Other(h)] = Append(net[Other(h)], g)]
    BY <1>3 DEF Sending
  <2>2. net'[h] = net[h] /\ net'[Other(h)] = Append(net[Other(h)], g)
    BY <1>1, <2>1
  <2>3. net' \in [Host -> Seq(SegmentType)]
    BY <1>1, <1>2, <2>1
  <2>4. Len(<<g>>) = 1 /\ DOMAIN <<g>> = 1 .. 1 /\ <<g>>[1] = g
    OBVIOUS
  <2> QED
    BY <1>2, <2>2, <2>3, <2>4 DEF Queued
<1>4. ASSUME net' = [net EXCEPT ![h] = Tail(net[h])], net[h] # <<>> PROVE Queued(h, 1, <<>>)
  <2>1. net'[h] = Tail(net[h]) /\ net'[Other(h)] = net[Other(h)]
    BY <1>1, <1>4
  <2>2. net' \in [Host -> Seq(SegmentType)]
    BY <1>1, <1>2, <1>4
  <2>3. Len(<<>>) = 0
    OBVIOUS
  <2>4. PICK q \in Seq(SegmentType) : q = net[h]
    BY <1>2
  <2>5. /\ Len(Tail(q)) = Len(q) - 1
        /\ \A n \in DOMAIN Tail(q) : n + 1 \in DOMAIN q /\ Tail(q)[n] = q[n + 1]
    BY <1>4, <2>4, Shorter
  <2> QED
    BY <1>2, <2>1, <2>2, <2>3, <2>4, <2>5 DEF Queued
<1>5. ASSUME net' = net PROVE Queued(h, 0, <<>>)
  BY <1>1, <1>2, <1>5 DEF Queued
<1> QED
  BY <1>3, <1>4, <1>5

----------------------------------------------------------------------------
(* What the sockets send are segments.                                     *)
LEMMA SegmentTyped ==
    ASSUME NEW h \in Host, NEW i \in 1 .. MaxSockets, NEW s \in SocketType,
           NEW f \in FlagSets, NEW n \in Numbers, NEW data \in Bytes
    PROVE  Segment(h, i, s, f, n, data) \in SegmentType
BY DEF Segment, SegmentType, SocketType, Endpoint

(* Of an exchanged total only the lower byte is left if it is less than the *)
(* IP header, and otherwise it leaves room for both headers.               *)
LEMMA LengthIs ==
    ASSUME NEW p \in Payload
    PROVE  /\ Swapped(Total(p)) \in Nat
           /\ Swapped(Total(p)) < IpHeader \/ Swapped(Total(p)) >= IpHeader + HeaderBytes
<1>1. PICK b \in Nat \ {0}, i \in Nat \ {0}, c \in Nat \ {0}, n \in Nat :
         /\ b = ByteValues /\ i = IpHeader /\ c = HeaderBytes /\ n = Total(p)
         /\ b > i + c /\ n < i * b
  <2>1. /\ IpHeader \in Nat \ {0} /\ HeaderBytes \in Nat \ {0} /\ ByteValues \in Nat
        /\ ByteValues > IpHeader + HeaderBytes
    BY TcpAssumption
  <2>2. ByteValues \in Nat \ {0}
    BY <2>1
  <2>3. p \in Seq(Nat) /\ Len(p) + IpHeader + HeaderBytes < IpHeader * ByteValues
    BY TcpAssumption
  <2>4. PICK x \in Int : x = IpHeader * ByteValues
    BY <2>1
  <2>5. Total(p) \in Nat /\ Total(p) < x
    BY <2>1, <2>3, <2>4 DEF Total
  <2> QED
    BY <2>1, <2>2, <2>4, <2>5
<1>2. PICK l \in 0 .. b - 1, m \in Nat : l = n % b /\ m = n \div b /\ n = b * m + l
  <2>1. n = (n \div b) * b + (n % b)
    OBVIOUS
  <2>2. n \div b \in Nat /\ n % b \in 0 .. b - 1
    OBVIOUS
  <2>3. (n \div b) * b = b * (n \div b)
    BY <2>2
  <2> QED
    BY <2>1, <2>2, <2>3
<1>3. m < i
  <2> SUFFICES ASSUME m >= i PROVE FALSE
    BY <1>1, <1>2
  <2>1. PICK k \in Nat : m = i + k
    <3>1. m - i \in Nat /\ m = i + (m - i)
      OBVIOUS
    <3> QED
      BY <3>1
  <2>2. b * m = i * b + k * b /\ k * b >= 0
    BY <2>1
  <2>3. \A x, y, z \in Int : x = y + z /\ z >= 0 => x >= y
    OBVIOUS
  <2>4. i * b \in Int /\ k * b \in Int /\ b * m \in Int
    OBVIOUS
  <2>5. b * m >= i * b
    BY <2>2, <2>3, <2>4
  <2>6. n >= b * m /\ n < i * b
    BY <1>1, <1>2, <2>4
  <2> QED
    BY <2>4, <2>5, <2>6
<1>4. Swapped(Total(p)) = l * b + m
  BY <1>1, <1>2 DEF Swapped
<1>5. l = 0 \/ (l * b >= b /\ l * b \in Nat)
  <2> SUFFICES ASSUME l # 0 PROVE l * b >= b /\ l * b \in Nat
    OBVIOUS
  <2>1. PICK k \in Nat : l = k + 1
    <3>1. l - 1 \in Nat /\ l = (l - 1) + 1
      OBVIOUS
    <3> QED
      BY <3>1
  <2>2. l * b = k * b + b /\ k * b \in Nat
    BY <2>1
  <2> QED
    BY <2>2
<1>6. PICK y \in Int : y = l * b /\ Swapped(Total(p)) = y + m
  BY <1>4
<1>7. y = 0 \/ y >= b
  <2>1. l = 0 => y = 0
    BY <1>6
  <2> QED
    BY <1>5, <1>6, <2>1
<1> QED
  BY <1>1, <1>3, <1>6, <1>7

(* What the link appends to a payload.                                     *)
LEMMA FramedIs ==
    ASSUME NEW p \in Payload
    PROVE  \E z \in Bytes : Framed(p) = p \o z
<1>1. p \in Seq(Nat) /\ Trailer \in Seq(Nat) /\ MinPayload \in Nat
  BY TcpAssumption
<1>2. CASE Len(p) <= MinPayload
  <2>1. PICK z : z = [k \in 1 .. MinPayload - Len(p) |-> 0]
    OBVIOUS
  <2>2. z \in Seq(Nat)
    BY <1>1, <1>2, <2>1
  <2>3. z \o Trailer \in Seq(Nat) /\ (p \o z) \o Trailer = p \o (z \o Trailer)
    BY <1>1, <2>2
  <2>4. Framed(p) = p \o (z \o Trailer)
    BY <1>2, <2>1, <2>3 DEF Framed
  <2> QED
    BY <2>3, <2>4 DEF Bytes
<1>3. CASE ~(Len(p) <= MinPayload)
  <2>1. Framed(p) = p /\ p = p \o <<>> /\ <<>> \in Bytes
    BY <1>1, <1>3 DEF Framed, Bytes
  <2> QED
    BY <2>1
<1> QED
  BY <1>2, <1>3

(* What TCP is given: the message with something behind it at most, or, of *)
(* one that is cut, a piece of its beginning.                              *)
LEMMA ArrivalsAre ==
    ASSUME NEW p \in Payload, NEW w \in Arrivals(p)
    PROVE  \/ \E z \in Bytes : w = p \o z
           \/ IsCut(p) /\ \E n \in 0 .. Len(p) : w = SubSeq(p, 1, n)
<1>1. p \in Seq(Nat) /\ Len(p) \in Nat
  BY TcpAssumption
<1>2. PICK x \in Bytes : Framed(p) = p \o x
  BY FramedIs
<1>3. PICK f \in Bytes :
         /\ f = Framed(p) /\ f = p \o x /\ Len(f) = Len(p) + Len(x)
         /\ \A n \in 1 .. Len(f) : f[n] = IF n <= Len(p) THEN p[n] ELSE x[n - Len(p)]
  <2>1. p \o x \in Seq(Nat) /\ Len(p \o x) = Len(p) + Len(x)
    BY <1>1 DEF Bytes
  <2>2. \A n \in 1 .. Len(p \o x) :
           (p \o x)[n] = IF n <= Len(p) THEN p[n] ELSE x[n - Len(p)]
    BY <1>1 DEF Bytes
  <2> QED
    BY <1>2, <2>1, <2>2 DEF Bytes
<1>4. PICK l \in Nat, c \in Nat :
         /\ l = Swapped(Total(p)) /\ c = IpHeader + HeaderBytes
         /\ Total(p) = c + Len(p) /\ IpHeader <= c
         /\ l < IpHeader \/ l >= c
  <2>1. IpHeader \in Nat /\ HeaderBytes \in Nat
    BY TcpAssumption
  <2> QED
    BY <1>1, <2>1, LengthIs DEF Total
<1>5. CASE l < IpHeader
  <2>1. PICK m \in Memory : w = f \o m
    <3>1. ~(l >= IpHeader)
      BY <1>4, <1>5, TcpAssumption
    <3>2. Arrivals(p) = {f \o m : m \in Memory}
      BY Zenon, <1>3, <1>4, <1>5, <3>1 DEF Arrivals
    <3> QED
      BY <3>2
  <2>2. m \in Bytes /\ x \o m \in Bytes /\ (p \o x) \o m = p \o (x \o m)
    <3>1. m \in Seq(Nat)
      BY TcpAssumption
    <3> QED
      BY <1>1, <3>1 DEF Bytes
  <2> QED
    BY <1>3, <2>1, <2>2
<1>6. CASE l >= c /\ l < c + Len(f)
  <2>1. IpHeader \in Nat
    BY TcpAssumption
  <2>2. w = SubSeq(f, 1, l - c) /\ l - c \in 0 .. Len(f)
    <3>1. Len(f) \in Nat
      BY <1>3 DEF Bytes
    <3>2. HeaderBytes \in Nat /\ l - IpHeader - HeaderBytes = l - c
      BY <1>4, <2>1, TcpAssumption
    <3>3. ~(l < IpHeader) /\ l >= IpHeader
      BY <1>4, <1>6, <2>1
    <3>4. w \in {SubSeq(f, 1, l - IpHeader - HeaderBytes)}
      <4>1. l < IpHeader + HeaderBytes + Len(f)
        BY <1>4, <1>6
      <4> QED
        BY Zenon, <1>3, <1>4, <3>3, <4>1 DEF Arrivals
    <3> QED
      BY <1>4, <1>6, <3>1, <3>2, <3>4
  <2>3. CASE l - c <= Len(p)
    <3>1. w = SubSeq(p, 1, l - c)
      BY <1>1, <1>3, <2>2, <2>3 DEF Bytes
    <3>2. l - c \in 0 .. Len(p)
      BY <1>1, <2>2, <2>3
    <3>3. CASE l - c = Len(p)
      <4>1. w = p \o <<>> /\ <<>> \in Bytes
        BY <1>1, <3>1, <3>3 DEF Bytes
      <4> QED
        BY <4>1
    <3>4. CASE l - c # Len(p)
      <4>1. l < Total(p)
        BY <1>1, <1>4, <2>3, <3>4
      <4> QED
        BY <1>4, <3>1, <3>2, <4>1 DEF IsCut
    <3> QED
      BY <3>3, <3>4
  <2>4. CASE l - c > Len(p)
    <3>1. PICK v \in Nat : v = l - c /\ v \in 0 .. Len(f) /\ w = SubSeq(f, 1, v)
      BY <2>2
    <3>2. Len(x) \in Nat /\ Len(f) = Len(p) + Len(x) /\ v > Len(p)
      BY <1>3, <2>4, <3>1 DEF Bytes
    <3>3. PICK n \in Nat : n = v - Len(p) /\ n <= Len(x) /\ v = Len(p) + n
      <4>1. PICK a \in Nat, b \in Nat : a = Len(p) /\ b = Len(x) /\ v > a /\ v <= a + b
        BY <1>1, <3>1, <3>2
      <4>2. v - a \in Nat /\ v - a <= b /\ v = a + (v - a)
        BY <4>1
      <4> QED
        BY <4>1, <4>2
    <3>4. PICK z \in Seq(Nat) : /\ z = SubSeq(x, 1, n) /\ Len(z) = n
                               /\ \A k \in 1 .. n : z[k] = x[k]
      <4>1. x \in Seq(Nat)
        BY DEF Bytes
      <4>2. SubSeq(x, 1, n) \in Seq(Nat) /\ Len(SubSeq(x, 1, n)) = n
        BY <3>2, <3>3, <4>1
      <4>3. \A k \in 1 .. n : SubSeq(x, 1, n)[k] = x[k]
        BY <3>2, <3>3, <4>1
      <4> QED
        BY <4>2, <4>3
    <3>5. /\ w \in Seq(Nat) /\ Len(w) = v
          /\ \A k \in 1 .. v : w[k] = f[k]
      BY <3>1 DEF Bytes
    <3>6. PICK y \in Seq(Nat) :
             /\ y = p \o z /\ Len(y) = v
             /\ \A k \in 1 .. v : y[k] = IF k <= Len(p) THEN p[k] ELSE z[k - Len(p)]
      <4>1. PICK a \in Nat : a = Len(p) /\ v = a + n
        BY <1>1, <3>3
      <4>2. p \o z \in Seq(Nat) /\ Len(p \o z) = a + n
        BY <1>1, <3>4, <4>1
      <4>3. \A k \in 1 .. a + n : (p \o z)[k] = IF k <= a THEN p[k] ELSE z[k - a]
        BY <1>1, <3>4, <4>1
      <4> QED
        BY <4>1, <4>2, <4>3
    <3>7. ASSUME NEW k \in 1 .. v PROVE w[k] = y[k]
      <4>1. k \in 1 .. Len(f)
        BY <1>3, <3>1
      <4>2. CASE k <= Len(p)
        BY <1>3, <3>5, <3>6, <4>1, <4>2
      <4>3. CASE ~(k <= Len(p))
        <5>1. k - Len(p) \in 1 .. n
          BY <1>1, <3>3, <4>3
        <5> QED
          BY <1>3, <3>4, <3>5, <3>6, <4>1, <4>3, <5>1
      <4> QED
        BY <4>2, <4>3
    <3>8. w = y
      BY <3>5, <3>6, <3>7
    <3> QED
      BY <3>4, <3>6, <3>8 DEF Bytes
  <2>5. l - c \in Int /\ Len(p) \in Int
    BY <1>1, <2>2
  <2> QED
    BY <2>3, <2>4, <2>5
<1>7. CASE ~(l < IpHeader) /\ ~(l >= c /\ l < c + Len(f))
  <2>1. ~(l >= IpHeader /\ l < IpHeader + HeaderBytes + Len(f))
    BY <1>4, <1>7
  <2>2. w = f
    BY Zenon, <1>3, <1>4, <1>7, <2>1 DEF Arrivals
  <2> QED
    BY <1>3, <2>2
<1> QED
  BY <1>5, <1>6, <1>7

(* All of it is bytes.                                                     *)
LEMMA WireTyped ==
    ASSUME NEW p \in Payload
    PROVE  Arrivals(p) \subseteq Bytes /\ Len(p) \in Nat
<1>1. p \in Seq(Nat) /\ Len(p) \in Nat
  BY TcpAssumption
<1>2. ASSUME NEW w \in Arrivals(p) PROVE w \in Bytes
  <2>1. CASE \E z \in Bytes : w = p \o z
    BY <1>1, <2>1 DEF Bytes
  <2>2. CASE \E n \in 0 .. Len(p) : w = SubSeq(p, 1, n)
    BY <1>1, <2>2 DEF Bytes
  <2> QED
    BY <2>1, <2>2, ArrivalsAre
<1> QED
  BY <1>1, <1>2

(* What a state with types has.                                            *)
LEMMA Places ==
    ASSUME Types, NEW h \in Host
    PROVE  /\ sockets[h] \in Seq(SocketType) /\ net[h] \in Seq(SegmentType)
           /\ Len(sockets[h]) \in Nat /\ Len(sockets[h]) <= most.sockets
           /\ DOMAIN sockets[h] = 1 .. Len(sockets[h])
           /\ Len(net[h]) \in Nat /\ DOMAIN net[h] = 1 .. Len(net[h])
           /\ \A i \in DOMAIN sockets[h] : sockets[h][i] \in SocketType /\ i \in 1 .. MaxSockets
           /\ \A n \in DOMAIN net[h] : net[h][n] \in SegmentType
           /\ most.sockets \in 1 .. MaxSockets /\ most.sockets <= MaxSockets
           /\ MaxSockets \in Nat
<1>1. sockets[h] \in Seq(SocketType) /\ net[h] \in Seq(SegmentType)
  BY DEF Types
<1>2. most.sockets \in 1 .. MaxSockets /\ MaxSockets \in Nat
  BY TcpAssumption DEF Types
<1>3. Len(sockets[h]) <= most.sockets
  BY DEF Types
<1>4. /\ Len(sockets[h]) \in Nat /\ DOMAIN sockets[h] = 1 .. Len(sockets[h])
      /\ Len(net[h]) \in Nat /\ DOMAIN net[h] = 1 .. Len(net[h])
      /\ \A i \in DOMAIN sockets[h] : sockets[h][i] \in SocketType
      /\ \A n \in DOMAIN net[h] : net[h][n] \in SegmentType
  BY <1>1
<1> QED
  BY <1>1, <1>2, <1>3, <1>4

----------------------------------------------------------------------------
(* The steps, one by one.  An interrupt with a segment that has a socket.  *)
Answers(h, i, r, out) ==
    /\ out \in Seq(SegmentType) /\ DOMAIN out = DOMAIN r.out
    /\ \A n \in DOMAIN out :
          out[n] = Segment(h, i, r.sock, r.out[n].flags, r.out[n].seq, <<>>)

Handled(h, i, g, out) ==
    /\ net[h] # <<>> /\ g = net[h][1]
    /\ Matches(sockets[h][i], g)
    /\ Changed(h, i, React(sockets[h][i], g).sock)
    /\ Answers(h, i, React(sockets[h][i], g), out)
    /\ Queued(h, 1, out)

(* A segment that arrives goes to one socket, whose reaction is queued.    *)
LEMMA ReceiveIs ==
    ASSUME Types, NEW h \in Host, Receive(h)
    PROVE  \E i \in DOMAIN sockets[h], g \in SegmentType, out \in Seq(SegmentType) :
              Handled(h, i, g, out)
<1>1. net[h] # <<>>
  BY DEF Receive
<1> DEFINE g == net[h][1]
<1>2. g \in SegmentType /\ Head(net[h]) = g
  BY SMTT(30), <1>1, Places
<1> DEFINE answers(i) ==
      LET r == React(sockets[h][i], g)
      IN  [k \in DOMAIN r.out |->
             Segment(h, i, r.sock, r.out[k].flags, r.out[k].seq, <<>>)]
<1>3. PICK i \in DOMAIN sockets[h] :
         /\ Matches(sockets[h][i], g)
         /\ sockets' = [sockets EXCEPT ![h][i] = React(sockets[h][i], g).sock]
         /\ net' = [net EXCEPT ![h] = Tail(@), ![Other(h)] = @ \o answers(i)]
  BY ZenonT(60), <1>2 DEF Receive, Lookup
<1>4. sockets[h][i] \in SocketType /\ i \in 1 .. MaxSockets
  BY Places
<1> HIDE DEF g
<1>5. PICK r : r = React(sockets[h][i], g)
  OBVIOUS
<1>6. r.sock \in SocketType /\ r.out \in Seq(OutType)
  BY <1>2, <1>4, <1>5, ReactTyped
<1>7. Changed(h, i, r.sock)
  BY <1>3, <1>5, <1>6, ChangedIs
<1>8. PICK out : out = answers(i)
  OBVIOUS
<1>9. /\ out = [k \in DOMAIN r.out |->
                  Segment(h, i, r.sock, r.out[k].flags, r.out[k].seq, <<>>)]
      /\ net' = [net EXCEPT ![h] = Tail(@), ![Other(h)] = @ \o out]
  BY <1>3, <1>5, <1>8
<1>10. \A k \in DOMAIN r.out :
          Segment(h, i, r.sock, r.out[k].flags, r.out[k].seq, <<>>) \in SegmentType
  <2> SUFFICES ASSUME NEW k \in DOMAIN r.out
               PROVE  Segment(h, i, r.sock, r.out[k].flags, r.out[k].seq, <<>>) \in SegmentType
    OBVIOUS
  <2>1. r.out[k] \in OutType
    BY <1>6
  <2>2. r.out[k].flags \in FlagSets /\ r.out[k].seq \in Numbers /\ <<>> \in Bytes
    BY <2>1 DEF OutType, Bytes
  <2> QED
    BY <1>4, <1>6, <2>2, SegmentTyped
<1>11. Answers(h, i, r, out)
  <2>1. DOMAIN r.out = 1 .. Len(r.out) /\ Len(r.out) \in Nat
    BY <1>6
  <2>2. out \in Seq(SegmentType)
    BY <1>9, <1>10, <2>1
  <2> QED
    BY <1>9, <2>2 DEF Answers
<1>12. Queued(h, 1, out)
  <2>1. out \in Seq(SegmentType)
    BY <1>11 DEF Answers
  <2>2. net' = [net EXCEPT ![h] = IF 1 = 1 THEN Tail(@) ELSE @, ![Other(h)] = @ \o out]
    BY <1>9
  <2> QED
    BY <1>1, <2>1, <2>2, QueuedIs
<1>13. out \in Seq(SegmentType)
  BY <1>11 DEF Answers
<1>14. Handled(h, i, g, out)
  BY Zenon, <1>1, <1>3, <1>5, <1>7, <1>11, <1>12 DEF Handled, g
<1> QED
  BY SMTT(30), <1>2, <1>13, <1>14

(* The calls of the application that change a socket: i of host h becomes  *)
(* t and sends out.                                                        *)
Made(h, i, t, out) ==
    /\ t \in SocketType /\ out \in Seq(SegmentType)
    /\ Changed(h, i, t)
    /\ Queued(h, 0, out)

(* Binding a handler touches one field of one socket.                      *)
LEMMA BindIs ==
    ASSUME Types, NEW h \in Host, NEW i \in DOMAIN sockets[h], Bind(h, i)
    PROVE  Made(h, i, [sockets[h][i] EXCEPT !.handler = TRUE], <<>>)
<1>1. PICK s \in SocketType : s = sockets[h][i]
  BY Places
<1> DEFINE t == [s EXCEPT !.handler = TRUE]
<1>2. t \in SocketType
  <2>1. TRUE \in Flag
    BY DEF Flag
  <2> QED
    BY <2>1, Edited
<1>3. sockets' = [sockets EXCEPT ![h][i] = [@ EXCEPT !.handler = TRUE]]
  BY DEF Bind
<1>4. sockets' = [sockets EXCEPT ![h][i] = t]
  BY <1>1, <1>3
<1>5. net' = net
  BY DEF Bind
<1> HIDE DEF t
<1>6. Changed(h, i, t)
  BY <1>2, <1>4, ChangedIs
<1>7. Queued(h, 0, <<>>)
  BY <1>5, QueuedToo
<1>8. <<>> \in Seq(SegmentType)
  OBVIOUS
<1> QED
  BY <1>1, <1>2, <1>6, <1>7, <1>8 DEF Made, t

(* Disconnect changes the state of one socket and queues nothing yet.      *)
LEMMA DisconnectIs ==
    ASSUME Types, NEW h \in Host, NEW i \in DOMAIN sockets[h], CallDisconnect(h, i)
    PROVE  Made(h, i, [sockets[h][i] EXCEPT !.state = "FIN_WAIT1", !.left = TRUE], <<>>)
<1>1. PICK s \in SocketType : s = sockets[h][i]
  BY Places
<1> DEFINE r == [s EXCEPT !.state = "FIN_WAIT1"]
           t == [r EXCEPT !.left = TRUE]
<1>2. t \in SocketType
  <2>1. TRUE \in Flag /\ "FIN_WAIT1" \in States
    BY DEF Flag, States
  <2>2. r \in SocketType
    BY <2>1, Edited
  <2> QED
    BY <2>1, <2>2, Edited
<1>3. sockets' = [sockets EXCEPT ![h][i] = [@ EXCEPT !.state = "FIN_WAIT1", !.left = TRUE]]
  BY DEF CallDisconnect
<1>4. sockets' = [sockets EXCEPT ![h][i] = t]
  BY <1>1, <1>3
<1>5. net' = net
  BY DEF CallDisconnect
<1>6. t = [sockets[h][i] EXCEPT !.state = "FIN_WAIT1", !.left = TRUE]
  BY SMTT(30), <1>1
<1> HIDE DEF t, r
<1>7. Changed(h, i, t)
  BY <1>2, <1>4, ChangedIs
<1>8. Queued(h, 0, <<>>)
  BY <1>5, QueuedToo
<1>9. <<>> \in Seq(SegmentType)
  OBVIOUS
<1> QED
  BY <1>2, <1>6, <1>7, <1>8, <1>9 DEF Made

(* Send queues one data segment with the number the socket had.            *)
LEMMA TransmitIs ==
    ASSUME Types, NEW h \in Host, Transmit(h)
    PROVE  \E i \in DOMAIN sockets[h], p \in Payload, w \in Bytes :
              /\ app[h].on = i /\ w \in Arrivals(p)
              /\ Made(h, i, [sockets[h][i] EXCEPT !.seq = Plus(@, Len(p)), !.sent = Append(@, p)],
                      <<Segment(h, i, sockets[h][i], {"PSH", "ACK"}, sockets[h][i].seq, w)>>)
<1>1. app[h].call = "send"
  BY DEF Transmit
<1>2. app[h] # Idle
  BY <1>1 DEF Idle
<1>3. PICK i \in DOMAIN sockets[h] : i = app[h].on
  BY <1>2 DEF Types
<1>4. PICK s \in SocketType : s = sockets[h][i]
  BY SMTT(30), Places
<1>5. PICK p \in Payload, w \in Bytes :
         /\ w \in Arrivals(p)
         /\ sockets' = [sockets EXCEPT ![h][i] =
               [s EXCEPT !.seq = Plus(@, Len(p)), !.sent = Append(@, p)]]
         /\ Sending(h, Segment(h, i, s, {"PSH", "ACK"}, s.seq, w))
  <2>1. \E p \in most.payloads : \E w \in Arrivals(p) :
           /\ sockets' = [sockets EXCEPT ![h][i] =
                 [s EXCEPT !.seq = Plus(@, Len(p)), !.sent = Append(@, p)]]
           /\ Sending(h, Segment(h, i, s, {"PSH", "ACK"}, s.seq, w))
    BY Zenon, <1>3, <1>4 DEF Transmit
  <2>2. most.payloads \subseteq Payload
    BY TcpAssumption DEF Types
  <2> QED
    BY Zenon, <2>1, <2>2, WireTyped
<1> DEFINE r == [s EXCEPT !.seq = Plus(s.seq, Len(p))]
           t == [r EXCEPT !.sent = Append(s.sent, p)]
           g == Segment(h, i, s, {"PSH", "ACK"}, s.seq, w)
<1>6. s.seq \in Numbers /\ s.sent \in Sent
  BY DEF SocketType
<1>7. t \in SocketType
  <2>1. Plus(s.seq, Len(p)) \in Numbers
    BY <1>6, WireTyped, PlusNumbers
  <2>2. Append(s.sent, p) \in Sent
    BY <1>6 DEF Sent
  <2>3. r \in SocketType
    BY <2>1, Edited
  <2> QED
    BY <2>2, <2>3, Edited
<1>8. sockets' = [sockets EXCEPT ![h][i] = t]
  BY <1>4, <1>5
<1>9. t = [sockets[h][i] EXCEPT !.seq = Plus(@, Len(p)), !.sent = Append(@, p)]
  BY <1>4
<1>10. g \in SegmentType
  <2>1. i \in 1 .. MaxSockets /\ {"PSH", "ACK"} \in FlagSets /\ w \in Bytes
    BY Places DEF FlagSets
  <2> QED
    BY <1>6, <2>1, SegmentTyped
<1> HIDE DEF t, r
<1>11. Changed(h, i, t)
  BY <1>7, <1>8, ChangedIs
<1>12. Queued(h, 0, <<g>>) /\ <<g>> \in Seq(SegmentType)
  BY <1>5, <1>10, QueuedToo
<1>13. Made(h, i, t, <<g>>)
  BY <1>7, <1>11, <1>12 DEF Made
<1>14. PICK made : made = <<g>>
  OBVIOUS
<1>15. Made(h, i, t, made) /\ w \in Arrivals(p)
  BY <1>5, <1>13, <1>14
<1>16. made = <<Segment(h, i, sockets[h][i], {"PSH", "ACK"}, sockets[h][i].seq, w)>>
  BY <1>4, <1>14
<1> QED
  BY Zenon, <1>3, <1>9, <1>15, <1>16

(* Disconnect's FIN takes one number and leaves the rest of the socket alone. *)
LEMMA SendFinIs ==
    ASSUME Types, NEW h \in Host, SendFin(h)
    PROVE  \E i \in DOMAIN sockets[h] :
              /\ app[h].on = i
              /\ Made(h, i, [sockets[h][i] EXCEPT !.seq = Plus(@, 1)],
                      <<Segment(h, i, sockets[h][i], {"FIN", "ACK"}, sockets[h][i].seq, <<>>)>>)
<1>1. app[h].call = "disconnect"
  BY DEF SendFin
<1>2. app[h] # Idle
  BY <1>1 DEF Idle
<1>3. PICK i \in DOMAIN sockets[h] : i = app[h].on
  BY <1>2 DEF Types
<1>4. PICK s \in SocketType : s = sockets[h][i]
  BY SMTT(30), Places
<1>5. /\ sockets' = [sockets EXCEPT ![h][i] = [s EXCEPT !.seq = Plus(@, 1)]]
      /\ Sending(h, Segment(h, i, s, {"FIN", "ACK"}, s.seq, <<>>))
  BY <1>3, <1>4 DEF SendFin
<1> DEFINE t == [s EXCEPT !.seq = Plus(s.seq, 1)]
           g == Segment(h, i, s, {"FIN", "ACK"}, s.seq, <<>>)
<1>6. s.seq \in Numbers
  BY DEF SocketType
<1>7. t \in SocketType
  BY <1>6, PlusNumbers, Edited
<1>8. sockets' = [sockets EXCEPT ![h][i] = t]
  BY <1>4, <1>5
<1>9. t = [sockets[h][i] EXCEPT !.seq = Plus(@, 1)]
  BY <1>4
<1>10. g \in SegmentType
  <2>1. i \in 1 .. MaxSockets /\ {"FIN", "ACK"} \in FlagSets /\ <<>> \in Bytes
    BY Places DEF FlagSets, Bytes
  <2> QED
    BY <1>6, <2>1, SegmentTyped
<1> HIDE DEF t
<1>11. Changed(h, i, t)
  BY <1>7, <1>8, ChangedIs
<1>12. Queued(h, 0, <<g>>) /\ <<g>> \in Seq(SegmentType)
  BY <1>5, <1>10, QueuedToo
<1>13. Made(h, i, t, <<g>>)
  BY <1>7, <1>11, <1>12 DEF Made
<1> QED
  BY <1>3, <1>4, <1>9, <1>13

(* The calls that make a socket.                                           *)
Grown(h, t) ==
    /\ t \in SocketType /\ Len(sockets[h]) < most.sockets
    /\ sockets' \in [Host -> Seq(SocketType)]
    /\ Len(sockets'[h]) = Len(sockets[h]) + 1
    /\ DOMAIN sockets'[h] = 1 .. Len(sockets[h]) + 1
    /\ sockets'[h][Len(sockets[h]) + 1] = t
    /\ \A i \in DOMAIN sockets[h] : sockets'[h][i] = sockets[h][i]
    /\ sockets'[Other(h)] = sockets[Other(h)]

(* A host that creates a socket keeps the ones it had, at their places.    *)
LEMMA GrownIs ==
    ASSUME Types, NEW h \in Host, NEW t \in SocketType, CanCreate(h),
           sockets' = [sockets EXCEPT ![h] = Append(@, t)]
    PROVE  Grown(h, t)
<1>1. /\ sockets \in [Host -> Seq(SocketType)] /\ Other(h) \in Host /\ Other(h) # h
      /\ Len(sockets[h]) < most.sockets
  BY Hosts DEF Types, CanCreate
<1>2. PICK q \in Seq(SocketType) : q = sockets[h]
  BY <1>1
<1>3. /\ Append(q, t) \in Seq(SocketType) /\ Len(Append(q, t)) = Len(q) + 1
      /\ DOMAIN Append(q, t) = 1 .. Len(q) + 1 /\ Append(q, t)[Len(q) + 1] = t
      /\ \A i \in DOMAIN q : Append(q, t)[i] = q[i]
  OBVIOUS
<1>4. sockets'[h] = Append(q, t) /\ sockets'[Other(h)] = sockets[Other(h)]
  BY <1>1, <1>2
<1>5. sockets' \in [Host -> Seq(SocketType)]
  BY <1>1, <1>2, <1>3
<1> QED
  BY <1>1, <1>2, <1>3, <1>4, <1>5 DEF Grown

(* Listen creates one waiting socket and queues nothing.                   *)
LEMMA ListenIs ==
    ASSUME Types, NEW h \in Host, Listen(h)
    PROVE  Grown(h, NewSocket("LISTEN", ListenPort, NoPort)) /\ Queued(h, 0, <<>>)
<1> DEFINE t == NewSocket("LISTEN", ListenPort, NoPort)
<1>1. t \in SocketType
  BY TcpAssumption DEF NewSocket, SocketType, States, NoPort, Numbers, Flag, Peers, Sent, Got, Reasons
<1>2. CanCreate(h) /\ sockets' = [sockets EXCEPT ![h] = Append(@, t)] /\ net' = net
  BY DEF Listen
<1> HIDE DEF t
<1>3. Grown(h, t)
  BY <1>1, <1>2, GrownIs
<1> QED
  BY <1>2, <1>3, QueuedToo DEF t

(* Connect creates one socket on the free port and queues its SYN.         *)
LEMMA ConnectIs ==
    ASSUME Types, NEW h \in Host, Connect(h)
    PROVE  LET s == NewSocket("SYN_SENT", freePort[h], ListenPort)
               g == Segment(h, Len(sockets[h]) + 1, s, {"SYN"}, Iss, <<>>)
           IN  /\ g \in SegmentType
               /\ Grown(h, s) /\ Queued(h, 0, <<g>>)
               /\ freePort' = [freePort EXCEPT ![h] = PortAfter(@)]
<1> DEFINE s == NewSocket("SYN_SENT", freePort[h], ListenPort)
           g == Segment(h, Len(sockets[h]) + 1, s, {"SYN"}, Iss, <<>>)
<1>1. freePort[h] \in Nat /\ Iss \in Numbers
  <2>1. freePort[h] \in 0 .. Ports - 1
    BY DEF Types
  <2>2. Ports \in Nat /\ Iss \in 0 .. SeqSpace - 1
    BY TcpAssumption
  <2> QED
    BY <2>1, <2>2 DEF Numbers
<1>2. s \in SocketType
  BY TcpAssumption, <1>1 DEF NewSocket, SocketType, States, Numbers, Flag, Peers, Sent, Got, Reasons
<1>3. /\ CanCreate(h) /\ sockets' = [sockets EXCEPT ![h] = Append(@, s)]
      /\ Sending(h, g) /\ freePort' = [freePort EXCEPT ![h] = PortAfter(@)]
  BY DEF Connect
<1>4. g \in SegmentType
  <2>1. Len(sockets[h]) + 1 \in 1 .. MaxSockets
    <3>1. Len(sockets[h]) < most.sockets
      BY <1>3 DEF CanCreate
    <3> QED
      BY <3>1, Places
  <2>2. {"SYN"} \in FlagSets /\ <<>> \in Bytes
    BY DEF FlagSets, Bytes
  <2> HIDE DEF s
  <2> QED
    BY <1>1, <1>2, <2>1, <2>2, SegmentTyped
<1> HIDE DEF s, g
<1>5. Grown(h, s) /\ Queued(h, 0, <<g>>)
  BY <1>2, <1>3, <1>4, GrownIs, QueuedToo
<1> QED
  BY <1>3, <1>4, <1>5 DEF s, g

----------------------------------------------------------------------------
(* No step takes a socket away, so that a call keeps its socket.           *)
LEMMA TypesKept ==
    ASSUME Types,
           sockets' \in [Host -> Seq(SocketType)], net' \in [Host -> Seq(SegmentType)],
           \A h \in Host : /\ DOMAIN sockets[h] \subseteq DOMAIN sockets'[h]
                           /\ Len(sockets'[h]) <= most.sockets,
           freePort' \in [Host -> 0 .. Ports - 1],
           app' \in [Host -> {Idle} \cup CallType],
           \A h \in Host : app'[h] # Idle => app'[h].on \in DOMAIN sockets[h],
           UNCHANGED most, lost' \in 0 .. most.loss
    PROVE  Types'
<1>1. ASSUME NEW h \in Host
      PROVE  /\ Len(sockets'[h]) <= most'.sockets
             /\ app'[h] # Idle => app'[h].on \in DOMAIN sockets'[h]
  BY <1>1
<1>2. most' \in Scenarios /\ lost' \in 0 .. most'.loss
  BY DEF Types
<1> QED
  BY <1>1, <1>2 DEF Types

(* A call that begins, and one that ends.                                  *)
LEMMA CallTyped ==
    ASSUME Types, NEW h \in Host
    PROVE  /\ \A c \in {"spin", "send", "disconnect"}, i \in DOMAIN sockets[h] :
                 app' = [app EXCEPT ![h] = [call |-> c, on |-> i]] =>
                    /\ app' \in [Host -> {Idle} \cup CallType]
                    /\ \A k \in Host : app'[k] # Idle => app'[k].on \in DOMAIN sockets[k]
           /\ app' = [app EXCEPT ![h] = Idle] =>
                 /\ app' \in [Host -> {Idle} \cup CallType]
                 /\ \A k \in Host : app'[k] # Idle => app'[k].on \in DOMAIN sockets[k]
<1>1. /\ app \in [Host -> {Idle} \cup CallType]
      /\ \A k \in Host : app[k] # Idle => app[k].on \in DOMAIN sockets[k]
  BY DEF Types
<1>2. ASSUME NEW c \in {"spin", "send", "disconnect"}, NEW i \in DOMAIN sockets[h],
             app' = [app EXCEPT ![h] = [call |-> c, on |-> i]]
      PROVE  /\ app' \in [Host -> {Idle} \cup CallType]
             /\ \A k \in Host : app'[k] # Idle => app'[k].on \in DOMAIN sockets[k]
  <2>1. [call |-> c, on |-> i] \in CallType
    BY Places DEF CallType
  <2> QED
    BY <1>1, <1>2, <2>1
<1>3. ASSUME app' = [app EXCEPT ![h] = Idle]
      PROVE  /\ app' \in [Host -> {Idle} \cup CallType]
             /\ \A k \in Host : app'[k] # Idle => app'[k].on \in DOMAIN sockets[k]
  BY <1>1, <1>3
<1> QED
  BY <1>2, <1>3

(* The types are kept by every step.                                       *)
LEMMA TypesStep == Types /\ [Next]_vars => Types'
<1> SUFFICES ASSUME Types, [Next]_vars PROVE Types'
  OBVIOUS
<1>1. /\ sockets \in [Host -> Seq(SocketType)] /\ net \in [Host -> Seq(SegmentType)]
      /\ freePort \in [Host -> 0 .. Ports - 1] /\ app \in [Host -> {Idle} \cup CallType]
      /\ \A h \in Host : /\ Len(sockets[h]) <= most.sockets
                         /\ app[h] # Idle => app[h].on \in DOMAIN sockets[h]
      /\ lost \in 0 .. most.loss
  BY DEF Types
<1>2. ASSUME NEW h \in Host, NEW i \in DOMAIN sockets[h], NEW t \in SocketType, NEW d,
             NEW out, Changed(h, i, t), Queued(h, d, out), UNCHANGED <<freePort, lost, most>>,
             app' \in [Host -> {Idle} \cup CallType],
             \A k \in Host : app'[k] # Idle => app'[k].on \in DOMAIN sockets[k]
      PROVE  Types'
  <2>1. sockets' \in [Host -> Seq(SocketType)] /\ net' \in [Host -> Seq(SegmentType)]
    BY <1>2 DEF Changed, Queued
  <2>2. \A k \in Host : Len(sockets'[k]) = Len(sockets[k]) /\ DOMAIN sockets'[k] = DOMAIN sockets[k]
    BY <1>2 DEF Changed
  <2> QED
    BY <1>1, <1>2, <2>1, <2>2, TypesKept
<1>3. ASSUME NEW h \in Host, Receive(h) PROVE Types'
  <2>1. PICK i \in DOMAIN sockets[h], g \in SegmentType, out \in Seq(SegmentType) :
           Handled(h, i, g, out)
    BY <1>3, ReceiveIs
  <2>2. React(sockets[h][i], g).sock \in SocketType
    BY Places, ReactTyped
  <2>3. UNCHANGED <<freePort, app, lost, most>>
    BY Zenon, <1>3 DEF Receive
  <2>4. /\ Changed(h, i, React(sockets[h][i], g).sock)
        /\ Queued(h, 1, out)
    BY <2>1 DEF Handled
  <2> QED
    BY <1>1, <1>2, <2>2, <2>3, <2>4
<1>4. ASSUME NEW h \in Host, ReceiveUnknown(h) \/ Lose(h) PROVE Types'
  <2>1. /\ net[h] # <<>> /\ net' = [net EXCEPT ![h] = Tail(@)]
        /\ UNCHANGED <<sockets, freePort, app, most>>
    BY <1>4 DEF ReceiveUnknown, Lose
  <2>2. net' \in [Host -> Seq(SegmentType)]
    BY <2>1, QueuedToo DEF Queued
  <2>3. lost' \in 0 .. most.loss
    <3>1. most.loss \in Nat
      BY TcpAssumption DEF Types
    <3>2. lost' = lost \/ (lost < most.loss /\ lost' = lost + 1)
      BY <1>4 DEF ReceiveUnknown, Lose
    <3> QED
      BY <1>1, <3>1, <3>2
  <2> QED
    BY <1>1, <2>1, <2>2, <2>3, TypesKept
<1>5. ASSUME NEW h \in Host, NEW t, NEW out, Grown(h, t), Queued(h, 0, out),
             freePort' \in [Host -> 0 .. Ports - 1], UNCHANGED <<app, lost, most>>
      PROVE  Types'
  <2>1. sockets' \in [Host -> Seq(SocketType)] /\ net' \in [Host -> Seq(SegmentType)]
    BY <1>5 DEF Grown, Queued
  <2>2. ASSUME NEW k \in Host
        PROVE  DOMAIN sockets[k] \subseteq DOMAIN sockets'[k] /\ Len(sockets'[k]) <= most.sockets
    <3>1. /\ Len(sockets[h]) \in Nat /\ DOMAIN sockets[h] = 1 .. Len(sockets[h])
          /\ most.sockets \in 1 .. MaxSockets /\ MaxSockets \in Nat
      BY Places
    <3>2. k = h \/ k = Other(h)
      BY Hosts
    <3> QED
      BY SMTT(30), <1>1, <1>5, <3>1, <3>2 DEF Grown
  <2> QED
    BY <1>1, <1>5, <2>1, <2>2, TypesKept
<1>6. ASSUME NEW h \in Host, Connect(h) PROVE Types'
  <2>1. freePort' = [freePort EXCEPT ![h] = PortAfter(@)] /\ UNCHANGED <<app, lost, most>>
    BY <1>6 DEF Connect
  <2>2. PortAfter(freePort[h]) \in 0 .. Ports - 1
    <3>1. Ports \in Nat \ {0} /\ freePort[h] \in 0 .. Ports - 1
      BY <1>1, TcpAssumption
    <3> QED
      BY <3>1 DEF PortAfter
  <2>3. freePort' \in [Host -> 0 .. Ports - 1]
    BY <1>1, <2>1, <2>2
  <2> QED
    BY <1>5, <1>6, <2>1, <2>3, ConnectIs
<1>7. ASSUME NEW h \in Host, Listen(h) PROVE Types'
  BY <1>1, <1>5, <1>7, ListenIs DEF Listen
<1>8. ASSUME NEW h \in Host, NEW i \in DOMAIN sockets[h], Bind(h, i) PROVE Types'
  <2>1. UNCHANGED <<freePort, app, lost, most>>
    BY <1>8 DEF Bind
  <2> QED
    BY <1>1, <1>2, <1>8, <2>1, BindIs DEF Made
<1>9. ASSUME NEW h \in Host, NEW i \in DOMAIN sockets[h], CallSend(h, i) PROVE Types'
  <2>1. app' = [app EXCEPT ![h] = [call |-> "spin", on |-> i]]
    BY <1>9 DEF CallSend
  <2>2. UNCHANGED <<sockets, freePort, net, lost, most>>
    BY <1>9 DEF CallSend
  <2> QED
    BY <1>1, <2>1, <2>2, CallTyped, TypesKept
<1>10. ASSUME NEW h \in Host, SpinEnds(h) PROVE Types'
  <2>1. /\ app[h].call = "spin" /\ app' = [app EXCEPT ![h].call = "send"]
        /\ UNCHANGED <<sockets, freePort, net, lost, most>>
    BY <1>10 DEF SpinEnds
  <2>2. app[h] # Idle
    BY <2>1 DEF Idle
  <2>3. PICK i \in DOMAIN sockets[h] : i = app[h].on
    BY <1>1, <2>2
  <2>4. app[h] \in CallType
    BY <1>1, <2>2
  <2>5. app[h] = [call |-> "spin", on |-> i]
    BY <2>1, <2>3, <2>4 DEF CallType
  <2>6. app' = [app EXCEPT ![h] = [call |-> "send", on |-> i]]
    <3>1. app' = [app EXCEPT ![h] = [app[h] EXCEPT !.call = "send"]]
      BY <2>1
    <3>2. [app[h] EXCEPT !.call = "send"] = [call |-> "send", on |-> i]
      BY <2>5
    <3> QED
      BY <3>1, <3>2
  <2> QED
    BY <1>1, <2>1, <2>6, CallTyped, TypesKept
<1>11. ASSUME NEW h \in Host, Transmit(h) PROVE Types'
  <2>1. app' = [app EXCEPT ![h] = Idle] /\ UNCHANGED <<freePort, lost, most>>
    BY <1>11 DEF Transmit
  <2>2. PICK i \in DOMAIN sockets[h], t \in SocketType, out \in Seq(SegmentType) :
           Changed(h, i, t) /\ Queued(h, 0, out)
    BY <1>11, TransmitIs DEF Made
  <2> QED
    BY <1>2, <2>1, <2>2, CallTyped
<1>12. ASSUME NEW h \in Host, SendFin(h) PROVE Types'
  <2>1. app' = [app EXCEPT ![h] = Idle] /\ UNCHANGED <<freePort, lost, most>>
    BY <1>12 DEF SendFin
  <2>2. PICK i \in DOMAIN sockets[h], t \in SocketType, out \in Seq(SegmentType) :
           Changed(h, i, t) /\ Queued(h, 0, out)
    BY <1>12, SendFinIs DEF Made
  <2> QED
    BY <1>2, <2>1, <2>2, CallTyped
<1>13. ASSUME NEW h \in Host, NEW i \in DOMAIN sockets[h], CallDisconnect(h, i) PROVE Types'
  <2>1. app' = [app EXCEPT ![h] = [call |-> "disconnect", on |-> i]]
    BY <1>13 DEF CallDisconnect
  <2>2. UNCHANGED <<freePort, lost, most>>
    BY <1>13 DEF CallDisconnect
  <2>3. PICK t \in SocketType, out \in Seq(SegmentType) : Changed(h, i, t) /\ Queued(h, 0, out)
    BY <1>13, DisconnectIs DEF Made
  <2> QED
    BY <1>2, <2>1, <2>2, <2>3, CallTyped
<1>14. CASE UNCHANGED vars
  BY <1>1, <1>14, TypesKept DEF vars
<1> QED
  BY <1>3, <1>4, <1>6, <1>7, <1>8, <1>9, <1>10, <1>11, <1>12, <1>13, <1>14 DEF Next

----------------------------------------------------------------------------
(* The ports.  Connect takes them in turn; on a host that creates no more  *)
(* sockets than there are ports above FirstPort, and none with the port    *)
(* that is listened on, no two sockets of a host have the same one.        *)
Ephemeral == FirstPort .. FirstPort + MaxSockets - 1

DistinctPorts == FirstPort + MaxSockets <= Ports /\ ListenPort \notin Ephemeral

(* The three kinds of sockets: made by Connect; made by Listen, and no SYN *)
(* yet; made by Listen, and given a SYN.                                   *)
Opener(s) ==
    /\ s.lport \in Ephemeral /\ s.rport = ListenPort
    /\ s.state \notin {"LISTEN", "SYN_RECEIVED"}

Waiter(s) ==
    s.lport = ListenPort /\ s.rport = NoPort /\ s.state = "LISTEN" /\ s.peer = Nobody

Accepter(s) ==
    /\ s.lport = ListenPort /\ s.rport \in Ephemeral
    /\ s.state \notin {"LISTEN", "SYN_SENT"}

(* An opener has no peer, or an accepter whose peer is that opener ...     *)
Answered(h, i) ==
    /\ sockets[h][i].state # "SYN_SENT"
    /\ \E j \in DOMAIN sockets[Other(h)] :
          /\ sockets[h][i].peer = <<Other(h), j>>
          /\ Accepter(sockets[Other(h)][j])
          /\ sockets[Other(h)][j].peer = <<h, i>>

(* ... and the peer of an accepter is the opener it has the port of.       *)
Calling(h, i) ==
    \E j \in DOMAIN sockets[Other(h)] :
       /\ sockets[h][i].peer = <<Other(h), j>>
       /\ Opener(sockets[Other(h)][j])
       /\ sockets[h][i].rport = sockets[Other(h)][j].lport

Linked(h, i) ==
    \/ Waiter(sockets[h][i])
    \/ Opener(sockets[h][i]) /\ (sockets[h][i].peer = Nobody \/ Answered(h, i))
    \/ Accepter(sockets[h][i]) /\ Calling(h, i)

(* No two openers of a host have the same port, no two of its accepters    *)
(* the same opener.                                                        *)
Distinct(h, i, j) ==
    /\ sockets[h][i].lport = sockets[h][j].lport => sockets[h][i].lport = ListenPort
    /\ sockets[h][i].peer = sockets[h][j].peer => sockets[h][i].peer = Nobody

(* A segment is from the socket it says it is from, and for that socket's  *)
(* remote port.  A SYN is from an opener that nobody has accepted yet, a   *)
(* SYN|ACK from an accepter.                                               *)
From(h, g, j) ==
    LET s == sockets[Other(h)][j] IN
    /\ g.by = <<Other(h), j>> /\ g.src = s.lport /\ g.dst = s.rport
    /\ s.state # "LISTEN"
    /\ g.flags = {"SYN"} =>
          Opener(s) /\ \A i \in DOMAIN sockets[h] : sockets[h][i].peer # g.by
    /\ g.flags = {"SYN", "ACK"} => Accepter(s)

Genuine(h, n) == \E j \in DOMAIN sockets[Other(h)] : From(h, net[h][n], j)

(* There is one SYN of a socket at most.                                   *)
OneSyn(h, m, n) ==
    net[h][m].flags = {"SYN"} /\ net[h][n].flags = {"SYN"} => net[h][m].by # net[h][n].by

(* The ports from freePort on are free.                                    *)
PortsFree(h) ==
    Len(sockets[h]) < MaxSockets =>
       /\ freePort[h] \in FirstPort .. FirstPort + Len(sockets[h])
       /\ \A i \in DOMAIN sockets[h] :
             sockets[h][i].lport # ListenPort => sockets[h][i].lport < freePort[h]

(* What sends is not listening.                                            *)
Caller(h) ==
    app[h].call \in {"send", "disconnect"} => sockets[h][app[h].on].state # "LISTEN"

Wires ==
    \A h \in Host :
       /\ \A i \in DOMAIN sockets[h] : Linked(h, i)
       /\ \A i, j \in DOMAIN sockets[h] : i # j => Distinct(h, i, j)
       /\ \A n \in DOMAIN net[h] : Genuine(h, n)
       /\ \A m, n \in DOMAIN net[h] : m # n => OneSyn(h, m, n)
       /\ PortsFree(h)

Callers == \A h \in Host : Caller(h)

----------------------------------------------------------------------------
(* An opener is not an accepter.                                           *)
LEMMA Apart ==
    ASSUME DistinctPorts, NEW s
    PROVE  Opener(s) => s.lport # ListenPort /\ ~Accepter(s) /\ ~Waiter(s)
BY DEF DistinctPorts, Opener, Accepter, Waiter

(* What most steps do to the sockets: the kind and the peer stay ...       *)
SameWires(s, t) ==
    /\ t.lport = s.lport /\ t.rport = s.rport /\ t.peer = s.peer
    /\ t.state = "LISTEN" <=> s.state = "LISTEN"
    /\ t.state \in {"SYN_SENT", "SYN_RECEIVED"} => t.state = s.state

SocketsKept ==
    \A a \in Host :
       /\ Len(sockets'[a]) = Len(sockets[a])
       /\ DOMAIN sockets'[a] = DOMAIN sockets[a]
       /\ \A j \in DOMAIN sockets[a] : SameWires(sockets[a][j], sockets'[a][j])

(* ... and what they send is neither SYN nor SYN|ACK.                      *)
PlainFrom(h, i, g) ==
    /\ g.by = <<h, i>>
    /\ g.src = sockets[h][i].lport /\ g.dst = sockets[h][i].rport
    /\ sockets[h][i].state # "LISTEN"
    /\ g.flags \notin {{"SYN"}, {"SYN", "ACK"}}

(* A socket keeps its kind as long as nothing but numbers changes.         *)
LEMMA SameKind ==
    ASSUME NEW s \in SocketType, NEW t \in SocketType, SameWires(s, t)
    PROVE  /\ Waiter(s) => Waiter(t)
           /\ Opener(s) => Opener(t)
           /\ Accepter(s) => Accepter(t)
BY DEF SameWires, Waiter, Opener, Accepter

(* What stays in the queues stays true of them, and so does what is added, *)
(* if each segment does: the d-th of h is taken away.                      *)
StaysFrom(h, d) ==
    \A a \in Host : \A n \in DOMAIN net[a], j \in DOMAIN sockets[Other(a)], g \in SegmentType :
       (a # h \/ n # d) /\ g = net[a][n] /\ From(a, g, j) => From(a, g, j)'

AddedFrom(h, out) ==
    \A n \in DOMAIN out : \E j \in DOMAIN sockets'[h] : From(Other(h), out[n], j)'

NewSyn(h, out) ==
    \A n \in DOMAIN out : out[n].flags = {"SYN"} =>
       /\ DOMAIN out = {n}
       /\ \A m \in DOMAIN net[Other(h)] : net[Other(h)][m].by # out[n].by

(* What the queues promise survives a step that takes at most one segment  *)
(* and adds genuine ones.                                                  *)
LEMMA QueueStep ==
    ASSUME Types, Types', Wires, NEW h \in Host, NEW d \in {0, 1}, NEW out, Queued(h, d, out),
           \A a \in Host : DOMAIN sockets[a] \subseteq DOMAIN sockets'[a],
           StaysFrom(h, d), AddedFrom(h, out), NewSyn(h, out)
    PROVE  \A a \in Host :
              /\ \A n \in DOMAIN net'[a] : Genuine(a, n)'
              /\ \A m, n \in DOMAIN net'[a] : m # n => OneSyn(a, m, n)'
<1> DEFINE k == Other(h)
<1>1. /\ k \in Host /\ k # h /\ Other(k) = h /\ Other(h) = k
      /\ \A a \in Host : a = h \/ a = k
  BY Hosts
<1> HIDE DEF k
<1>2. \A a \in Host : net'[a] \in Seq(SegmentType) /\ net[a] \in Seq(SegmentType)
  BY DEF Types
<1>3. \A n \in DOMAIN net'[h] : n + d \in DOMAIN net[h] /\ net'[h][n] = net[h][n + d]
  BY DEF Queued
<1>4. ASSUME NEW n \in DOMAIN net'[h], NEW m \in DOMAIN net'[h]
      PROVE  n + d # d /\ (m # n => m + d # n + d)
  <2>1. n \in Nat /\ n # 0 /\ m \in Nat /\ d \in Nat
    BY <1>2
  <2> QED
    BY <2>1
<1>5. ASSUME NEW n \in DOMAIN net'[k]
      PROVE  IF n <= Len(net[k])
             THEN n \in DOMAIN net[k] /\ net'[k][n] = net[k][n]
             ELSE n - Len(net[k]) \in DOMAIN out /\ net'[k][n] = out[n - Len(net[k])]
  BY <1>1 DEF Queued
<1>6. ASSUME NEW a \in Host, NEW n \in DOMAIN net'[a] PROVE Genuine(a, n)'
  <2>1. PICK g \in SegmentType : g = net'[a][n]
    BY <1>2
  <2>2. DOMAIN sockets[Other(a)] \subseteq DOMAIN sockets'[Other(a)]
    BY Hosts
  <2>3. SUFFICES ASSUME TRUE PROVE \E j \in DOMAIN sockets'[Other(a)] : From(a, g, j)'
    BY <2>1 DEF Genuine
  <2>4. CASE a = h
    <3>1. n + d \in DOMAIN net[h] /\ g = net[h][n + d] /\ n + d # d
      BY <1>3, <1>4, <2>1, <2>4
    <3>2. PICK j \in DOMAIN sockets[Other(h)] : From(h, g, j)
      BY <3>1 DEF Wires, Genuine
    <3>3. From(h, g, j)'
      BY <3>1, <3>2 DEF StaysFrom
    <3> QED
      BY <2>2, <2>4, <3>2, <3>3
  <2>5. CASE a = k /\ n <= Len(net[k])
    <3>1. n \in DOMAIN net[k] /\ g = net[k][n]
      BY <1>5, <2>1, <2>5
    <3>2. PICK j \in DOMAIN sockets[Other(k)] : From(k, g, j)
      BY <1>1, <3>1 DEF Wires, Genuine
    <3>3. From(k, g, j)'
      BY <1>1, <3>1, <3>2 DEF StaysFrom
    <3> QED
      BY <2>2, <2>5, <3>2, <3>3
  <2>6. CASE a = k /\ ~(n <= Len(net[k]))
    <3>1. PICK m \in DOMAIN out : g = out[m]
      BY <1>5, <2>1, <2>6
    <3> QED
      BY <1>1, <2>6, <3>1 DEF AddedFrom
  <2> QED
    BY <1>1, <2>4, <2>5, <2>6
<1>7. ASSUME NEW a \in Host, NEW m \in DOMAIN net'[a], NEW n \in DOMAIN net'[a], m # n
      PROVE  OneSyn(a, m, n)'
  <2>1. CASE a = h
    <3>1. OneSyn(h, m + d, n + d)
      BY <1>3, <1>4, <1>7, <2>1 DEF Wires
    <3> QED
      BY <1>3, <2>1, <3>1 DEF OneSyn
  <2>2. CASE a = k
    <3>1. /\ m \in Nat /\ n \in Nat /\ Len(net[k]) \in Nat
          /\ m <= Len(net[k]) => m \in DOMAIN net[k] /\ net'[k][m] = net[k][m]
          /\ n <= Len(net[k]) => n \in DOMAIN net[k] /\ net'[k][n] = net[k][n]
      BY <1>1, <1>2, <1>5, <2>2
    <3>2. CASE m <= Len(net[k]) /\ n <= Len(net[k])
      BY <1>1, <1>7, <2>2, <3>1, <3>2 DEF OneSyn, Wires
    <3>3. \A x \in DOMAIN out : out[x].flags = {"SYN"} =>
             /\ DOMAIN out = {x}
             /\ \A l \in DOMAIN net[k] : net[k][l].by # out[x].by
      BY <1>1 DEF NewSyn
    <3>4. PICK x, y : x = m - Len(net[k]) /\ y = n - Len(net[k])
      OBVIOUS
    <3>5. x # y
      BY <1>7, <3>1, <3>4
    <3>6. /\ ~(m <= Len(net[k])) => x \in DOMAIN out /\ net'[k][m] = out[x]
          /\ ~(n <= Len(net[k])) => y \in DOMAIN out /\ net'[k][n] = out[y]
      BY <1>5, <2>2, <3>4
    <3>7. CASE m <= Len(net[k]) /\ ~(n <= Len(net[k]))
      <4>1. out[y].flags = {"SYN"} => net[k][m].by # out[y].by
        BY <3>1, <3>3, <3>6, <3>7
      <4> QED
        BY <2>2, <3>1, <3>6, <3>7, <4>1 DEF OneSyn
    <3>8. CASE ~(m <= Len(net[k])) /\ n <= Len(net[k])
      <4>1. out[x].flags = {"SYN"} => net[k][n].by # out[x].by
        BY <3>1, <3>3, <3>6, <3>8
      <4> QED
        BY <2>2, <3>1, <3>6, <3>8, <4>1 DEF OneSyn
    <3>9. CASE ~(m <= Len(net[k])) /\ ~(n <= Len(net[k]))
      <4>1. out[x].flags # {"SYN"}
        BY <3>3, <3>5, <3>6, <3>9
      <4> QED
        BY <2>2, <3>6, <3>9, <4>1 DEF OneSyn
    <3> QED
      BY <3>2, <3>7, <3>8, <3>9
  <2> QED
    BY <1>1, <2>1, <2>2
<1> QED
  BY <1>6, <1>7

(* A step that keeps the kinds and the peers and sends no SYN.             *)
LEMMA QuietStep ==
    ASSUME DistinctPorts, Types, Types', Wires, NEW h \in Host, NEW d \in {0, 1},
           NEW out, SocketsKept, Queued(h, d, out), UNCHANGED freePort,
           \A n \in DOMAIN out : \E i \in DOMAIN sockets[h] : PlainFrom(h, i, out[n])
    PROVE  Wires'
<1> DEFINE k == Other(h)
<1>1. /\ k \in Host /\ k # h /\ Other(k) = h /\ Other(h) = k
      /\ \A a \in Host : a = h \/ a = k
  BY Hosts
<1> HIDE DEF k
<1>2. \A a \in Host : /\ Len(sockets'[a]) = Len(sockets[a])
                      /\ DOMAIN sockets'[a] = DOMAIN sockets[a]
  BY DEF SocketsKept
<1>3. ASSUME NEW a \in Host, NEW j \in DOMAIN sockets[a]
      PROVE  /\ sockets'[a][j].lport = sockets[a][j].lport
             /\ sockets'[a][j].rport = sockets[a][j].rport
             /\ sockets'[a][j].peer = sockets[a][j].peer
             /\ sockets'[a][j].state = "LISTEN" <=> sockets[a][j].state = "LISTEN"
             /\ sockets'[a][j].state = "SYN_SENT" => sockets[a][j].state = "SYN_SENT"
  BY DEF SocketsKept, SameWires
<1>4. ASSUME NEW a \in Host, NEW j \in DOMAIN sockets[a]
      PROVE  /\ Waiter(sockets[a][j]) => Waiter(sockets'[a][j])
             /\ Opener(sockets[a][j]) => Opener(sockets'[a][j])
             /\ Accepter(sockets[a][j]) => Accepter(sockets'[a][j])
  <2>1. SameWires(sockets[a][j], sockets'[a][j])
    BY DEF SocketsKept
  <2>2. sockets[a][j] \in SocketType
    BY Places
  <2>3. sockets'[a][j] \in SocketType
    <3>1. sockets'[a] \in Seq(SocketType)
      BY DEF Types
    <3> QED
      BY <1>2, <3>1
  <2> QED
    BY <2>1, <2>2, <2>3, SameKind
<1>5. ASSUME NEW a \in Host, NEW j \in DOMAIN sockets'[a] PROVE Linked(a, j)'
  <2>1. j \in DOMAIN sockets[a] /\ Linked(a, j) /\ Other(a) \in Host
    BY <1>1, <1>2 DEF Wires
  <2>2. Answered(a, j) => Answered(a, j)'
    BY <1>2, <1>3, <1>4, <2>1 DEF Answered
  <2>3. Calling(a, j) => Calling(a, j)'
    BY <1>2, <1>3, <1>4, <2>1 DEF Calling
  <2> QED
    BY <1>3, <1>4, <2>1, <2>2, <2>3 DEF Linked
<1>6. ASSUME NEW a \in Host, NEW i \in DOMAIN sockets'[a], NEW j \in DOMAIN sockets'[a], i # j
      PROVE  Distinct(a, i, j)'
  <2>1. i \in DOMAIN sockets[a] /\ j \in DOMAIN sockets[a] /\ Distinct(a, i, j)
    BY <1>2, <1>6 DEF Wires
  <2> QED
    BY <1>3, <2>1 DEF Distinct
<1>7. ASSUME NEW a \in Host, NEW g, NEW j \in DOMAIN sockets[Other(a)], From(a, g, j)
      PROVE  From(a, g, j)'
  <2>1. Other(a) \in Host
    BY Hosts
  <2> QED
    BY SMTT(30), <1>2, <1>3, <1>4, <1>7, <2>1 DEF From
<1>8. \A a \in Host :
         /\ \A n \in DOMAIN net'[a] : Genuine(a, n)'
         /\ \A m, n \in DOMAIN net'[a] : m # n => OneSyn(a, m, n)'
  <2>1. AddedFrom(h, out)
    <3> SUFFICES ASSUME NEW n \in DOMAIN out
                 PROVE  \E j \in DOMAIN sockets'[h] : From(Other(h), out[n], j)'
      BY DEF AddedFrom
    <3>1. PICK i \in DOMAIN sockets[h] : PlainFrom(h, i, out[n])
      OBVIOUS
    <3>2. From(k, out[n], i)'
      BY <1>1, <1>3, <3>1 DEF From, PlainFrom
    <3> QED
      BY <1>1, <1>2, <3>2
  <2>2. NewSyn(h, out)
    BY DEF NewSyn, PlainFrom
  <2>3. \A a \in Host : DOMAIN sockets[a] \subseteq DOMAIN sockets'[a]
    BY <1>2
  <2>4. StaysFrom(h, d)
    BY <1>7 DEF StaysFrom
  <2> QED
    BY <2>1, <2>2, <2>3, <2>4, QueueStep
<1>9. ASSUME NEW a \in Host PROVE PortsFree(a)'
  <2>1. PortsFree(a)
    BY DEF Wires
  <2> QED
    BY <1>2, <1>3, <2>1 DEF PortsFree
<1> QED
  BY <1>5, <1>6, <1>8, <1>9 DEF Wires

(* A listening socket takes a SYN.                                         *)
LEMMA AcceptStep ==
    ASSUME DistinctPorts, Types, Types', Wires, NEW h \in Host, NEW i \in DOMAIN sockets[h],
           NEW g \in SegmentType, NEW out \in Seq(SegmentType), Handled(h, i, g, out),
           Accepts(sockets[h][i], g), UNCHANGED freePort
    PROVE  Wires'
<1> DEFINE k == Other(h)
<1>1. /\ k \in Host /\ k # h /\ Other(k) = h /\ Other(h) = k
      /\ \A a \in Host : a = h \/ a = k
  BY Hosts
<1> HIDE DEF k
<1>2. PICK s \in SocketType : s = sockets[h][i]
  BY Places
<1>3. PICK t : t = React(s, g).sock
  OBVIOUS
<1>4. /\ t.lport = s.lport /\ t.rport = g.src /\ t.peer = g.by /\ t.state = "SYN_RECEIVED"
      /\ React(s, g).out = <<[flags |-> {"SYN", "ACK"}, seq |-> Iss]>>
      /\ s.state = "LISTEN" /\ g.flags = {"SYN"}
  <2>1. Accepts(s, g)
    BY <1>2
  <2>2. /\ t = [s EXCEPT !.state = "SYN_RECEIVED", !.rport = g.src, !.ack = Plus(g.seq, 1),
                       !.seq = Plus(Iss, 1), !.peer = g.by]
        /\ React(s, g).out = <<[flags |-> {"SYN", "ACK"}, seq |-> Iss]>>
    <3> DEFINE e == [s EXCEPT !.state = "SYN_RECEIVED", !.rport = g.src,
                              !.ack = Plus(g.seq, 1), !.seq = Plus(Iss, 1), !.peer = g.by]
               o == <<[flags |-> {"SYN", "ACK"}, seq |-> Iss]>>
    <3>1. React(s, g) = [sock |-> e, out |-> o]
      BY <2>1 DEF Accepts
    <3> HIDE DEF e, o
    <3>2. React(s, g).sock = e /\ React(s, g).out = o
      BY <3>1
    <3> QED
      BY <1>3, <3>2 DEF e, o
  <2>3. t.lport = s.lport /\ t.rport = g.src /\ t.peer = g.by /\ t.state = "SYN_RECEIVED"
    BY <2>2 DEF SocketType
  <2> QED
    BY <2>1, <2>2, <2>3 DEF Accepts
<1>5. /\ Changed(h, i, t) /\ Queued(h, 1, out) /\ Answers(h, i, React(s, g), out)
      /\ net[h] # <<>> /\ g = net[h][1]
  BY <1>2, <1>3 DEF Handled
<1>6. /\ \A a \in Host : Len(sockets'[a]) = Len(sockets[a]) /\ DOMAIN sockets'[a] = DOMAIN sockets[a]
      /\ sockets'[h][i] = t
      /\ \A a \in Host : \A b \in DOMAIN sockets[a] :
            a # h \/ b # i => sockets'[a][b] = sockets[a][b]
  BY <1>5 DEF Changed
<1>7. Waiter(s)
  BY <1>2, <1>4 DEF Wires, Linked, Opener, Accepter
<1>8. 1 \in DOMAIN net[h]
  BY <1>5, Places
<1>9. PICK j \in DOMAIN sockets[k] : From(h, g, j)
  BY <1>1, <1>5, <1>8 DEF Wires, Genuine
<1>10. PICK u : u = sockets[k][j]
  OBVIOUS
<1>11. /\ Opener(u) /\ g.by = <<k, j>> /\ g.src = u.lport
       /\ \A b \in DOMAIN sockets[h] : sockets[h][b].peer # g.by
  BY <1>1, <1>4, <1>9, <1>10 DEF From
<1>12. u.peer = Nobody
  <2>1. Linked(k, j) /\ ~Waiter(u) /\ ~Accepter(u)
    BY <1>1, <1>10, <1>11, Apart DEF Wires
  <2>2. ~Answered(k, j)
    BY <1>1, <1>10, <1>11 DEF Answered
  <2> QED
    BY <1>10, <2>1, <2>2 DEF Linked
<1>13. Accepter(t)
  BY <1>4, <1>7, <1>11 DEF Accepter, Waiter, Opener
<1>14. ASSUME NEW a \in Host, NEW b \in DOMAIN sockets'[a] PROVE Linked(a, b)'
  <2>1. CASE a = h /\ b = i
    <3>1. Calling(h, i)'
      BY <1>1, <1>4, <1>6, <1>10, <1>11 DEF Calling
    <3> QED
      BY <1>6, <1>13, <2>1, <3>1 DEF Linked
  <2>2. CASE a # h \/ b # i
    <3>1. b \in DOMAIN sockets[a] /\ Linked(a, b) /\ Other(a) \in Host
      BY <1>1, <1>6 DEF Wires
    <3>2. sockets'[a][b] = sockets[a][b]
      BY <1>6, <2>2, <3>1
    <3>3. ~Accepter(s) /\ ~Opener(s)
      BY <1>4 DEF Accepter, Opener
    <3>4. Answered(a, b) => Answered(a, b)'
      BY <1>2, <1>6, <3>1, <3>2, <3>3 DEF Answered
    <3>5. Calling(a, b) => Calling(a, b)'
      BY <1>2, <1>6, <3>1, <3>2, <3>3 DEF Calling
    <3> QED
      BY <3>1, <3>2, <3>4, <3>5 DEF Linked
  <2> QED
    BY <2>1, <2>2
<1>15. ASSUME NEW a \in Host, NEW b \in DOMAIN sockets'[a], NEW c \in DOMAIN sockets'[a], b # c
       PROVE  Distinct(a, b, c)'
  <2>1. b \in DOMAIN sockets[a] /\ c \in DOMAIN sockets[a] /\ Distinct(a, b, c)
    BY <1>6, <1>15 DEF Wires
  <2>2. t.lport = ListenPort
    BY <1>13 DEF Accepter
  <2>3. CASE a = h /\ b = i
    BY <1>4, <1>6, <1>11, <1>15, <2>1, <2>2, <2>3 DEF Distinct
  <2>4. CASE a = h /\ c = i
    BY SMTT(30), <1>4, <1>6, <1>11, <1>15, <2>1, <2>2, <2>4 DEF Distinct
  <2>5. CASE a # h \/ (b # i /\ c # i)
    BY <1>6, <2>1, <2>5 DEF Distinct
  <2> QED
    BY <2>3, <2>4, <2>5
<1>16. StaysFrom(h, 1)
  <2> SUFFICES ASSUME NEW a \in Host, NEW n \in DOMAIN net[a], NEW b \in DOMAIN sockets[Other(a)],
                      NEW f \in SegmentType, a # h \/ n # 1, f = net[a][n], From(a, f, b)
               PROVE  From(a, f, b)'
    BY DEF StaysFrom
  <2>1. Other(a) \in Host
    BY Hosts
  <2>2. Other(a) # h \/ b # i
    BY <1>2, <1>4 DEF From
  <2>3. sockets'[Other(a)][b] = sockets[Other(a)][b]
    BY <1>6, <2>1, <2>2
  <2>4. ASSUME f.flags = {"SYN"}, a = h PROVE f.by # g.by
    BY <1>4, <1>5, <1>8, <2>4 DEF Wires, OneSyn
  <2>5. f.flags = {"SYN"} => \A c \in DOMAIN sockets'[a] : sockets'[a][c].peer # f.by
    BY <1>4, <1>6, <2>4 DEF From
  <2> QED
    BY <2>3, <2>5 DEF From
<1>17. DOMAIN out = {1} /\ out[1] = Segment(h, i, t, {"SYN", "ACK"}, Iss, <<>>)
  <2>1. PICK r : r = React(s, g)
    OBVIOUS
  <2>2. /\ DOMAIN r.out = {1} /\ r.out[1].flags = {"SYN", "ACK"} /\ r.out[1].seq = Iss
    BY <1>4, <2>1
  <2>3. Answers(h, i, r, out) /\ r.sock = t
    BY <1>3, <1>5, <2>1
  <2> QED
    BY <2>2, <2>3 DEF Answers
<1>18. AddedFrom(h, out) /\ NewSyn(h, out)
  <2>1. /\ out[1].by = <<h, i>> /\ out[1].src = t.lport /\ out[1].dst = t.rport
        /\ out[1].flags = {"SYN", "ACK"} /\ out[1].flags # {"SYN"}
    BY <1>17, Kinds DEF Segment
  <2>2. PICK o : o = out[1]
    OBVIOUS
  <2>3. From(k, o, i)'
    BY <1>1, <1>4, <1>6, <1>13, <2>1, <2>2 DEF From
  <2>4. \A n \in DOMAIN out : out[n] = o
    BY <1>17, <2>2
  <2> QED
    BY <1>1, <1>6, <2>1, <2>2, <2>3, <2>4 DEF AddedFrom, NewSyn
<1>19. \A a \in Host : DOMAIN sockets[a] \subseteq DOMAIN sockets'[a]
  BY <1>6
<1>20. \A a \in Host : /\ \A n \in DOMAIN net'[a] : Genuine(a, n)'
                       /\ \A m, n \in DOMAIN net'[a] : m # n => OneSyn(a, m, n)'
  BY <1>5, <1>16, <1>18, <1>19, QueueStep
<1>21. ASSUME NEW a \in Host PROVE PortsFree(a)'
  <2>1. PortsFree(a)
    BY DEF Wires
  <2>2. \A b \in DOMAIN sockets[a] : sockets'[a][b].lport = sockets[a][b].lport
    BY <1>2, <1>4, <1>6
  <2> QED
    BY <1>6, <2>1, <2>2 DEF PortsFree
<1> QED
  BY <1>14, <1>15, <1>20, <1>21 DEF Wires

(* A connecting socket takes the SYN|ACK.                                  *)
LEMMA ConnectedStep ==
    ASSUME DistinctPorts, Types, Types', Wires, NEW h \in Host, NEW i \in DOMAIN sockets[h],
           NEW g \in SegmentType, NEW out \in Seq(SegmentType), Handled(h, i, g, out),
           Connects(sockets[h][i], g), UNCHANGED freePort
    PROVE  Wires'
<1> DEFINE k == Other(h)
<1>1. /\ k \in Host /\ k # h /\ Other(k) = h /\ Other(h) = k
      /\ \A a \in Host : a = h \/ a = k
  BY Hosts
<1> HIDE DEF k
<1>2. PICK s \in SocketType : s = sockets[h][i]
  BY Places
<1>3. PICK t : t = React(s, g).sock
  OBVIOUS
<1>4. /\ t.lport = s.lport /\ t.rport = s.rport /\ t.peer = g.by /\ t.state = "ESTABLISHED"
      /\ React(s, g).out = <<[flags |-> {"ACK"}, seq |-> t.seq]>>
      /\ s.state = "SYN_SENT" /\ g.flags = {"SYN", "ACK"}
  <2>1. Connects(s, g)
    BY <1>2
  <2>2. /\ t = [s EXCEPT !.state = "ESTABLISHED", !.ack = Plus(g.seq, 1),
                       !.seq = Plus(s.seq, 1), !.peer = g.by]
        /\ React(s, g).out = <<[flags |-> {"ACK"}, seq |-> t.seq]>>
    <3> DEFINE e == [s EXCEPT !.state = "ESTABLISHED", !.ack = Plus(g.seq, 1),
                              !.seq = Plus(s.seq, 1), !.peer = g.by]
               o == <<[flags |-> {"ACK"}, seq |-> e.seq]>>
    <3>1. React(s, g) = Replying(e, {"ACK"})
      BY <2>1 DEF Connects
    <3>2. Replying(e, {"ACK"}) = [sock |-> e, out |-> o]
      BY DEF Replying
    <3> HIDE DEF e, o
    <3>3. React(s, g).sock = e /\ React(s, g).out = o
      BY <3>1, <3>2
    <3> QED
      BY <1>3, <3>3 DEF e, o
  <2>3. t.lport = s.lport /\ t.rport = s.rport /\ t.peer = g.by /\ t.state = "ESTABLISHED"
    BY <2>2 DEF SocketType
  <2> QED
    BY <2>1, <2>2, <2>3 DEF Connects, Replying
<1>5. /\ Changed(h, i, t) /\ Queued(h, 1, out) /\ Answers(h, i, React(s, g), out)
      /\ net[h] # <<>> /\ g = net[h][1] /\ Matches(s, g)
  BY <1>2, <1>3 DEF Handled
<1>6. /\ \A a \in Host : Len(sockets'[a]) = Len(sockets[a]) /\ DOMAIN sockets'[a] = DOMAIN sockets[a]
      /\ sockets'[h][i] = t
      /\ \A a \in Host : \A b \in DOMAIN sockets[a] :
            a # h \/ b # i => sockets'[a][b] = sockets[a][b]
  BY <1>5 DEF Changed
<1>7. Opener(s) /\ s.peer = Nobody
  BY <1>2, <1>4 DEF Wires, Linked, Waiter, Accepter, Answered
<1>8. 1 \in DOMAIN net[h]
  BY <1>5, Places
<1>9. PICK j \in DOMAIN sockets[k] : From(h, g, j)
  BY <1>1, <1>5, <1>8 DEF Wires, Genuine
<1>10. PICK u : u = sockets[k][j]
  OBVIOUS
<1>11. Accepter(u) /\ g.by = <<k, j>> /\ g.dst = u.rport /\ s.lport = u.rport
  BY <1>1, <1>4, <1>5, <1>9, <1>10 DEF From, Matches
<1>12. u.peer = <<h, i>>
  <2>1. ~Waiter(u) /\ ~Opener(u)
    BY <1>11, Apart DEF Waiter, Accepter
  <2>2. Calling(k, j)
    BY <1>1, <1>10, <2>1 DEF Wires, Linked
  <2>3. PICK b \in DOMAIN sockets[h] :
           u.peer = <<h, b>> /\ u.rport = sockets[h][b].lport
    BY <1>1, <1>10, <2>2 DEF Calling
  <2>4. s.lport # ListenPort
    BY <1>7, Apart
  <2>5. b = i
    BY <1>2, <1>11, <2>3, <2>4 DEF Wires, Distinct
  <2> QED
    BY <2>3, <2>5
<1>13. Opener(t) /\ ~Accepter(t) /\ ~Opener(u)
  BY <1>4, <1>7, <1>11, Apart DEF Opener
<1>14. ASSUME NEW b \in DOMAIN sockets[h], b # i PROVE sockets[h][b].peer # g.by
  <2> SUFFICES ASSUME sockets[h][b].peer = g.by PROVE FALSE
    OBVIOUS
  <2>1. sockets[h][b].peer = <<k, j>> /\ <<k, j>> # Nobody
    BY <1>11 DEF Nobody
  <2>2. Answered(h, b) \/ Calling(h, b)
    BY <2>1 DEF Wires, Linked, Waiter
  <2>3. CASE Answered(h, b)
    BY <1>1, <1>10, <1>12, <1>14, <2>1, <2>3 DEF Answered
  <2>4. CASE Calling(h, b)
    BY <1>1, <1>10, <1>13, <2>1, <2>4 DEF Calling
  <2> QED
    BY <2>2, <2>3, <2>4
<1>15. ASSUME NEW a \in Host, NEW b \in DOMAIN sockets'[a] PROVE Linked(a, b)'
  <2>1. CASE a = h /\ b = i
    <3>1. Answered(h, i)'
      BY <1>1, <1>4, <1>6, <1>10, <1>11, <1>12 DEF Answered
    <3> QED
      BY <1>6, <1>13, <2>1, <3>1 DEF Linked
  <2>2. CASE a # h \/ b # i
    <3>1. b \in DOMAIN sockets[a] /\ Linked(a, b) /\ Other(a) \in Host
      BY <1>1, <1>6 DEF Wires
    <3>2. sockets'[a][b] = sockets[a][b]
      BY <1>6, <2>2, <3>1
    <3>3. ~Accepter(s)
      BY <1>7, Apart
    <3>4. Answered(a, b) => Answered(a, b)'
      BY <1>2, <1>6, <3>1, <3>2, <3>3 DEF Answered
    <3>5. Calling(a, b) => Calling(a, b)'
      BY <1>2, <1>4, <1>6, <1>13, <3>1, <3>2 DEF Calling
    <3> QED
      BY <3>1, <3>2, <3>4, <3>5 DEF Linked
  <2> QED
    BY <2>1, <2>2
<1>16. ASSUME NEW a \in Host, NEW b \in DOMAIN sockets'[a], NEW c \in DOMAIN sockets'[a], b # c
       PROVE  Distinct(a, b, c)'
  <2>1. b \in DOMAIN sockets[a] /\ c \in DOMAIN sockets[a] /\ Distinct(a, b, c)
    BY <1>6, <1>16 DEF Wires
  <2>2. CASE a = h /\ b = i
    BY <1>2, <1>4, <1>6, <1>14, <1>16, <2>1, <2>2 DEF Distinct
  <2>3. CASE a = h /\ c = i
    BY <1>2, <1>4, <1>6, <1>14, <1>16, <2>1, <2>3 DEF Distinct
  <2>4. CASE a # h \/ (b # i /\ c # i)
    BY <1>6, <2>1, <2>4 DEF Distinct
  <2> QED
    BY <2>2, <2>3, <2>4
<1>17. StaysFrom(h, 1)
  <2> SUFFICES ASSUME NEW a \in Host, NEW n \in DOMAIN net[a], NEW b \in DOMAIN sockets[Other(a)],
                      NEW f \in SegmentType, f = net[a][n], From(a, f, b)
               PROVE  From(a, f, b)'
    BY DEF StaysFrom
  <2>1. Other(a) \in Host
    BY Hosts
  <2>2. CASE Other(a) = h /\ b = i
    <3>1. a = k
      BY <1>1, <2>2
    <3>2. \A c \in DOMAIN sockets[k] : sockets'[k][c] = sockets[k][c]
      BY <1>1, <1>6
    <3>3. ~Accepter(s)
      BY <1>7, Apart
    <3> QED
      BY SMTT(30), <1>1, <1>2, <1>4, <1>6, <1>13, <2>2, <3>1, <3>2, <3>3 DEF From
  <2>3. CASE Other(a) # h \/ b # i
    <3>1. sockets'[Other(a)][b] = sockets[Other(a)][b]
      BY <1>6, <2>1, <2>3
    <3>2. ASSUME f.flags = {"SYN"}, a = h PROVE f.by # g.by
      <4>1. Opener(sockets[k][b]) /\ f.by = <<k, b>>
        BY <1>1, <3>2 DEF From
      <4>2. b # j
        BY <1>10, <1>13, <4>1
      <4> QED
        BY <1>11, <4>1, <4>2
    <3>3. ASSUME f.flags = {"SYN"}, NEW c \in DOMAIN sockets'[a] PROVE sockets'[a][c].peer # f.by
      <4>1. c \in DOMAIN sockets[a] /\ sockets[a][c].peer # f.by
        BY <1>6, <3>3 DEF From
      <4>2. CASE a = h /\ c = i
        BY <1>4, <1>6, <3>2, <3>3, <4>2
      <4>3. CASE a # h \/ c # i
        BY <1>6, <4>1, <4>3
      <4> QED
        BY <4>2, <4>3
    <3> QED
      BY <3>1, <3>3 DEF From
  <2> QED
    BY <2>2, <2>3
<1>18. DOMAIN out = {1} /\ out[1] = Segment(h, i, t, {"ACK"}, t.seq, <<>>)
  <2>1. PICK r : r = React(s, g)
    OBVIOUS
  <2>2. /\ DOMAIN r.out = {1} /\ r.out[1].flags = {"ACK"} /\ r.out[1].seq = t.seq
    BY <1>4, <2>1
  <2>3. Answers(h, i, r, out) /\ r.sock = t
    BY <1>3, <1>5, <2>1
  <2> QED
    BY <2>2, <2>3 DEF Answers
<1>19. AddedFrom(h, out) /\ NewSyn(h, out)
  <2>1. /\ out[1].by = <<h, i>> /\ out[1].src = t.lport /\ out[1].dst = t.rport
        /\ out[1].flags = {"ACK"} /\ {"ACK"} # {"SYN"} /\ {"ACK"} # {"SYN", "ACK"}
    BY <1>18, Kinds DEF Segment
  <2>2. PICK o : o = out[1]
    OBVIOUS
  <2>3. From(k, o, i)'
    BY <1>1, <1>4, <1>6, <2>1, <2>2 DEF From
  <2>4. \A n \in DOMAIN out : out[n] = o
    BY <1>18, <2>2
  <2> QED
    BY <1>1, <1>6, <2>1, <2>2, <2>3, <2>4 DEF AddedFrom, NewSyn
<1>20. \A a \in Host : DOMAIN sockets[a] \subseteq DOMAIN sockets'[a]
  BY <1>6
<1>21. \A a \in Host : /\ \A n \in DOMAIN net'[a] : Genuine(a, n)'
                       /\ \A m, n \in DOMAIN net'[a] : m # n => OneSyn(a, m, n)'
  BY <1>5, <1>17, <1>19, <1>20, QueueStep
<1>22. ASSUME NEW a \in Host PROVE PortsFree(a)'
  <2>1. PortsFree(a)
    BY DEF Wires
  <2>2. \A b \in DOMAIN sockets[a] : sockets'[a][b].lport = sockets[a][b].lport
    BY <1>2, <1>4, <1>6
  <2> QED
    BY <1>6, <2>1, <2>2 DEF PortsFree
<1> QED
  BY <1>15, <1>16, <1>21, <1>22 DEF Wires

(* A new socket.                                                           *)
LEMMA GrownStep ==
    ASSUME DistinctPorts, Types, Types', Wires, NEW h \in Host, NEW t, NEW out,
           Grown(h, t), Queued(h, 0, out), t.peer = Nobody, Waiter(t) \/ Opener(t),
           t.lport # ListenPort => \A b \in DOMAIN sockets[h] : sockets[h][b].lport # t.lport,
           AddedFrom(h, out), NewSyn(h, out), \A a \in Host : PortsFree(a)'
    PROVE  Wires'
<1> DEFINE k == Other(h)
           m == Len(sockets[h]) + 1
<1>1. /\ k \in Host /\ k # h /\ Other(k) = h /\ Other(h) = k
      /\ \A a \in Host : a = h \/ a = k
  BY Hosts
<1>2. /\ DOMAIN sockets[h] = 1 .. Len(sockets[h]) /\ Len(sockets[h]) \in Nat
  BY Places
<1>3. /\ DOMAIN sockets'[h] = DOMAIN sockets[h] \cup {m} /\ m \notin DOMAIN sockets[h]
      /\ sockets'[h][m] = t
      /\ \A b \in DOMAIN sockets[h] : sockets'[h][b] = sockets[h][b]
  BY <1>2 DEF Grown
<1> HIDE DEF k, m
<1>4. sockets'[k] = sockets[k]
  BY <1>1 DEF Grown
<1>5. ASSUME NEW a \in Host
      PROVE  /\ DOMAIN sockets[a] \subseteq DOMAIN sockets'[a]
             /\ \A b \in DOMAIN sockets[a] : sockets'[a][b] = sockets[a][b]
             /\ \A b \in DOMAIN sockets'[a] : b \in DOMAIN sockets[a] \/ (a = h /\ b = m)
  BY <1>1, <1>3, <1>4
<1>6. ASSUME NEW a \in Host, NEW b \in DOMAIN sockets'[a] PROVE Linked(a, b)'
  <2>1. CASE b \in DOMAIN sockets[a]
    <3>1. Linked(a, b) /\ sockets'[a][b] = sockets[a][b] /\ Other(a) \in Host
      BY <1>1, <1>5, <2>1 DEF Wires
    <3>2. Answered(a, b) => Answered(a, b)'
      BY <1>5, <3>1 DEF Answered
    <3>3. Calling(a, b) => Calling(a, b)'
      BY <1>5, <3>1 DEF Calling
    <3> QED
      BY <3>1, <3>2, <3>3 DEF Linked
  <2>2. CASE a = h /\ b = m
    BY <1>3, <2>2 DEF Linked
  <2> QED
    BY <1>5, <2>1, <2>2
<1>7. ASSUME NEW a \in Host, NEW b \in DOMAIN sockets'[a], NEW c \in DOMAIN sockets'[a], b # c
      PROVE  Distinct(a, b, c)'
  <2>1. CASE b \in DOMAIN sockets[a] /\ c \in DOMAIN sockets[a]
    BY <1>5, <1>7, <2>1 DEF Wires, Distinct
  <2>2. CASE a = h /\ b = m /\ c \in DOMAIN sockets[h]
    BY <1>3, <2>2 DEF Distinct
  <2>3. CASE a = h /\ c = m /\ b \in DOMAIN sockets[h]
    BY <1>3, <2>3 DEF Distinct
  <2> QED
    BY <1>5, <1>7, <2>1, <2>2, <2>3
<1>8. StaysFrom(h, 0)
  <2> SUFFICES ASSUME NEW a \in Host, NEW b \in DOMAIN sockets[Other(a)],
                      NEW f \in SegmentType, From(a, f, b)
               PROVE  From(a, f, b)'
    BY DEF StaysFrom
  <2>1. sockets'[Other(a)][b] = sockets[Other(a)][b]
    BY <1>1, <1>5
  <2>2. f.by # Nobody
    BY DEF From, Nobody
  <2>3. f.flags = {"SYN"} => \A c \in DOMAIN sockets'[a] : sockets'[a][c].peer # f.by
    BY <1>3, <1>5, <2>2 DEF From
  <2> QED
    BY <2>1, <2>3 DEF From
<1>9. \A a \in Host : /\ \A n \in DOMAIN net'[a] : Genuine(a, n)'
                      /\ \A n, x \in DOMAIN net'[a] : n # x => OneSyn(a, n, x)'
  <2>1. 0 \in {0, 1}
    OBVIOUS
  <2> QED
    BY <1>5, <1>8, <2>1, QueueStep
<1> QED
  BY <1>6, <1>7, <1>9 DEF Wires

(* The wires survive Listen: the port it takes was not in use.             *)
LEMMA ListenStep ==
    ASSUME DistinctPorts, Types, Types', Wires, NEW h \in Host, Listen(h)
    PROVE  Wires'
<1> DEFINE t == NewSocket("LISTEN", ListenPort, NoPort)
<1>1. Grown(h, t) /\ Queued(h, 0, <<>>) /\ freePort' = freePort
  BY ListenIs DEF Listen
<1>2. Waiter(t) /\ t.peer = Nobody /\ t.lport = ListenPort
  BY DEF Waiter, NewSocket
<1> HIDE DEF t
<1>3. DOMAIN <<>> = {}
  OBVIOUS
<1>4. AddedFrom(h, <<>>) /\ NewSyn(h, <<>>)
  BY <1>3 DEF AddedFrom, NewSyn
<1>5. ASSUME NEW a \in Host PROVE PortsFree(a)'
  <2>1. PortsFree(a)
    BY DEF Wires
  <2>2. CASE a = h
    <3>1. Len(sockets[h]) \in Nat /\ DOMAIN sockets[h] = 1 .. Len(sockets[h]) /\ MaxSockets \in Nat
      BY Places
    <3>2. FirstPort \in Nat
      BY TcpAssumption
    <3>3. PICK l \in Nat : l = Len(sockets[h])
      BY <3>1
    <3>4. /\ Len(sockets'[h]) = l + 1 /\ DOMAIN sockets'[h] = 1 .. l + 1
          /\ sockets'[h][l + 1].lport = ListenPort
          /\ \A b \in 1 .. l : sockets'[h][b] = sockets[h][b]
      BY <1>1, <1>2, <3>1, <3>3 DEF Grown
    <3>5. \A b \in 1 .. l + 1 : b \in 1 .. l \/ b = l + 1
      OBVIOUS
    <3>6. ASSUME Len(sockets'[h]) < MaxSockets
          PROVE  /\ freePort'[h] \in FirstPort .. FirstPort + (l + 1)
                 /\ \A b \in DOMAIN sockets'[h] :
                       sockets'[h][b].lport # ListenPort => sockets'[h][b].lport < freePort'[h]
      <4>1. /\ freePort[h] \in FirstPort .. FirstPort + l
            /\ \A b \in 1 .. l :
                  sockets[h][b].lport # ListenPort => sockets[h][b].lport < freePort[h]
        BY <2>1, <2>2, <3>1, <3>3, <3>4, <3>6 DEF PortsFree
      <4>2. freePort[h] \in FirstPort .. FirstPort + (l + 1)
        BY <3>2, <4>1
      <4> QED
        BY <1>1, <3>4, <3>5, <4>1, <4>2
    <3> QED
      BY <2>2, <3>4, <3>6 DEF PortsFree
  <2>3. CASE a = Other(h)
    BY <1>1, <2>1, <2>3 DEF PortsFree, Grown
  <2> QED
    BY <2>2, <2>3, Hosts
<1> QED
  BY <1>1, <1>2, <1>4, <1>5, GrownStep

(* A number below the modulus.                                             *)
LEMMA Below == ASSUME NEW n \in Nat, NEW x \in Nat, x < n PROVE x % n = x
  OBVIOUS

(* The wires survive Connect: the port it takes is above all in use.       *)
LEMMA ConnectStep ==
    ASSUME DistinctPorts, Types, Types', Wires, NEW h \in Host, Connect(h)
    PROVE  Wires'
<1> DEFINE k == Other(h)
           m == Len(sockets[h]) + 1
           p == freePort[h]
           t == NewSocket("SYN_SENT", p, ListenPort)
           g == Segment(h, m, t, {"SYN"}, Iss, <<>>)
<1>1. /\ k \in Host /\ k # h /\ Other(k) = h /\ Other(h) = k
      /\ \A a \in Host : a = h \/ a = k
  BY Hosts
<1>2. Grown(h, t) /\ Queued(h, 0, <<g>>) /\ freePort' = [freePort EXCEPT ![h] = PortAfter(@)]
  BY ConnectIs
<1>3. /\ Len(sockets[h]) \in Nat /\ DOMAIN sockets[h] = 1 .. Len(sockets[h])
      /\ Len(sockets[h]) < MaxSockets /\ MaxSockets \in Nat
  BY <1>2, Places DEF Grown
<1>4. /\ FirstPort \in Nat /\ Ports \in Nat /\ ListenPort \in Nat
      /\ freePort \in [Host -> 0 .. Ports - 1]
  BY TcpAssumption DEF Types
<1>5. /\ p \in FirstPort .. FirstPort + Len(sockets[h])
      /\ \A b \in DOMAIN sockets[h] :
            sockets[h][b].lport # ListenPort => sockets[h][b].lport < p
  BY <1>3 DEF Wires, PortsFree
<1>6. p \in Ephemeral /\ p # ListenPort
  <2>1. p \in Ephemeral
    BY <1>3, <1>4, <1>5 DEF Ephemeral
  <2> QED
    BY <2>1 DEF DistinctPorts
<1>7. /\ Opener(t) /\ t.peer = Nobody /\ t.lport = p /\ t.rport = ListenPort
      /\ t.state = "SYN_SENT"
  BY <1>6 DEF Opener, NewSocket
<1>8. \A b \in DOMAIN sockets[h] : sockets[h][b].lport # p
  <2> SUFFICES ASSUME NEW b \in DOMAIN sockets[h] PROVE sockets[h][b].lport # p
    OBVIOUS
  <2>1. sockets[h][b].lport \in Nat
    BY Places DEF SocketType
  <2> QED
    BY <1>4, <1>5, <1>6, <2>1
<1>9. /\ g.by = <<h, m>> /\ g.src = t.lport /\ g.dst = t.rport /\ g.flags = {"SYN"}
  BY DEF Segment
<1> HIDE DEF k, t, g
<1>10. /\ DOMAIN <<g>> = {1} /\ <<g>>[1] = g
  OBVIOUS
<1>11. /\ m \notin DOMAIN sockets[h] /\ m \in DOMAIN sockets'[h] /\ sockets'[h][m] = t
       /\ sockets'[k] = sockets[k]
  BY <1>1, <1>2, <1>3 DEF Grown
<1>12. AddedFrom(h, <<g>>)
  <2>1. ASSUME NEW c \in DOMAIN sockets[k] PROVE sockets[k][c].peer # <<h, m>>
    <3>1. Linked(k, c)
      BY <1>1 DEF Wires
    <3>2. <<h, m>> # Nobody
      BY DEF Nobody
    <3>3. Answered(k, c) => sockets[k][c].peer # <<h, m>>
      BY <1>1, <1>11 DEF Answered
    <3>4. Calling(k, c) => sockets[k][c].peer # <<h, m>>
      BY <1>1, <1>11 DEF Calling
    <3> QED
      BY <3>1, <3>2, <3>3, <3>4 DEF Linked, Waiter
  <2>2. PICK o, j : o = g /\ j = m
    OBVIOUS
  <2>3. {"SYN"} # {"SYN", "ACK"}
    BY Kinds
  <2>4. /\ sockets'[h][j] = t /\ j \in DOMAIN sockets'[h]
        /\ \A c \in DOMAIN sockets'[k] : sockets'[k][c].peer # <<h, j>>
        /\ o.by = <<h, j>> /\ o.src = t.lport /\ o.dst = t.rport /\ o.flags = {"SYN"}
    BY <1>9, <1>11, <2>1, <2>2
  <2> HIDE DEF m
  <2>5. From(k, o, j)'
    BY <1>1, <1>7, <2>3, <2>4 DEF From
  <2>6. \A n \in DOMAIN <<o>> : <<o>>[n] = o
    OBVIOUS
  <2>7. \A n \in DOMAIN <<o>> : From(Other(h), <<o>>[n], j)'
    BY <1>1, <2>5, <2>6
  <2>8. AddedFrom(h, <<o>>)
    BY <2>4, <2>7 DEF AddedFrom
  <2> QED
    BY <2>2, <2>8
<1>13. NewSyn(h, <<g>>)
  <2>1. ASSUME NEW n \in DOMAIN net[k] PROVE net[k][n].by # <<h, m>>
    <3>1. PICK j \in DOMAIN sockets[h] : From(k, net[k][n], j)
      BY <1>1 DEF Wires, Genuine
    <3> QED
      BY <1>1, <1>11, <3>1 DEF From
  <2> QED
    BY <1>1, <1>9, <1>10, <2>1 DEF NewSyn
<1>14. ASSUME NEW a \in Host PROVE PortsFree(a)'
  <2>1. CASE a = h
    <3> SUFFICES ASSUME Len(sockets'[h]) < MaxSockets
                 PROVE  /\ freePort'[h] \in FirstPort .. FirstPort + Len(sockets'[h])
                        /\ \A b \in DOMAIN sockets'[h] :
                              sockets'[h][b].lport # ListenPort => sockets'[h][b].lport < freePort'[h]
      BY <2>1 DEF PortsFree
    <3>1. Len(sockets'[h]) = Len(sockets[h]) + 1
      BY <1>2 DEF Grown
    <3>2. p + 1 \in Nat /\ p + 1 < Ports
      BY SMTT(30), <1>3, <1>4, <1>5, <3>1 DEF DistinctPorts
    <3>3. freePort'[h] = PortAfter(p)
      BY <1>2, <1>4
    <3>4. freePort'[h] = p + 1
      BY <1>4, <3>2, <3>3, Below DEF PortAfter
    <3>5. ASSUME NEW b \in DOMAIN sockets'[h], sockets'[h][b].lport # ListenPort
          PROVE  sockets'[h][b].lport < p + 1
      <4>1. CASE b \in DOMAIN sockets[h]
        <5>1. sockets'[h][b] = sockets[h][b] /\ sockets[h][b].lport \in Nat
          BY <1>2, <4>1, Places DEF Grown, SocketType
        <5> QED
          BY <1>4, <1>5, <3>2, <3>5, <4>1, <5>1
      <4>2. CASE b = m
        BY <1>5, <1>7, <1>4, <1>11, <4>2
      <4> QED
        BY <1>2, <1>3, <4>1, <4>2 DEF Grown
    <3> QED
      BY <1>3, <1>4, <1>5, <3>1, <3>4, <3>5
  <2>2. CASE a = k
    <3>1. PortsFree(k) /\ freePort'[k] = freePort[k]
      BY <1>1, <1>2, <1>4 DEF Wires
    <3> QED
      BY <1>11, <2>2, <3>1 DEF PortsFree
  <2> QED
    BY <1>1, <2>1, <2>2
<1> QED
  BY <1>2, <1>7, <1>8, <1>12, <1>13, <1>14, GrownStep

(* Every other segment leaves the kind of a socket as it is.               *)
LEMMA QuietOutcome ==
    ASSUME NEW s \in SocketType, NEW g \in SegmentType, s.state # "LISTEN", ~Connects(s, g)
    PROVE  /\ SameWires(s, React(s, g).sock)
           /\ \A n \in DOMAIN React(s, g).out :
                 React(s, g).out[n].flags \notin {{"SYN"}, {"SYN", "ACK"}}
<1> DEFINE Right(r) ==
      /\ SameWires(s, r.sock)
      /\ \A n \in DOMAIN r.out : r.out[n].flags \notin {{"SYN"}, {"SYN", "ACK"}}
<1>1. ASSUME NEW t, SameWires(s, t), NEW f \in {{"ACK"}, {"RST"}} PROVE Right(Replying(t, f))
  <2>1. f \notin {{"SYN"}, {"SYN", "ACK"}}
    BY Kinds
  <2>2. PICK r : r = Replying(t, f)
    OBVIOUS
  <2>3. /\ r.sock = t /\ DOMAIN r.out = {1} /\ r.out[1].flags = f
    BY <2>2 DEF Replying
  <2> QED
    BY <1>1, <2>1, <2>2, <2>3
<1>2. ASSUME NEW t, SameWires(s, t) PROVE Right(Silently(t))
  <2>1. PICK r : r = Silently(t)
    OBVIOUS
  <2>2. /\ r.sock = t /\ DOMAIN r.out = {}
    BY <2>1 DEF Silently
  <2> QED
    BY <1>2, <2>1, <2>2
<1>3. ASSUME NEW x \in {"ESTABLISHED", "FIN_WAIT2", "CLOSED", "CLOSE_WAIT"}
      PROVE  /\ SameWires(s, [s EXCEPT !.state = x])
             /\ SameWires(s, [s EXCEPT !.state = x, !.ack = Plus(s.ack, 1)])
  BY DEF SameWires, SocketType
<1>4. CASE TakesData(s, g)
  <2> DEFINE e == [s EXCEPT !.got = Append(s.got, g.data), !.ack = Plus(s.ack, Advance(g.data))]
  <2>1. SameWires(s, e)
    BY DEF SameWires, SocketType
  <2>2. React(s, g) = Replying(e, {"ACK"})
    BY <1>4 DEF TakesData
  <2> HIDE DEF e, Right
  <2>3. Right(Replying(e, {"ACK"}))
    BY <1>1, <2>1
  <2>4. Right(React(s, g))
    BY <2>2, <2>3
  <2> QED
    BY <2>4 DEF Right
<1>5. ASSUME NEW why, Rejects(s, g, why) PROVE Right(React(s, g))
  <2> DEFINE e == [s EXCEPT !.refused = IF s.refused = "no" THEN why ELSE s.refused]
  <2>1. SameWires(s, e)
    BY DEF SameWires, SocketType
  <2>2. React(s, g) = Replying(e, {"RST"})
    BY <1>5 DEF Rejects, Refuse
  <2> HIDE DEF e, Right
  <2>3. Right(Replying(e, {"RST"}))
    BY <1>1, <2>1
  <2> QED
    BY <2>2, <2>3
<1>6. CASE Opens(s, g) \/ HalfCloses(s, g) \/ Closes(s, g)
  <2> HIDE DEF Right
  <2>1. PICK x \in {"ESTABLISHED", "FIN_WAIT2", "CLOSED"} :
           React(s, g) = Silently([s EXCEPT !.state = x])
    BY <1>6 DEF Opens, HalfCloses, Closes
  <2>2. Right(React(s, g))
    BY <1>2, <1>3, <2>1
  <2> QED
    BY <2>2 DEF Right
<1>7. CASE Ignores(s, g)
  <2>1. SameWires(s, s)
    BY DEF SameWires
  <2> HIDE DEF Right
  <2>2. Right(React(s, g))
    BY <1>2, <1>7, <2>1 DEF Ignores
  <2> QED
    BY <2>2 DEF Right
<1>8. CASE FollowsFin(s, g)
  <2>1. PICK r : r = React(s, g)
    OBVIOUS
  <2> DEFINE e == [s EXCEPT !.state = "CLOSE_WAIT", !.ack = Plus(s.ack, 1)]
             o == <<[flags |-> {"ACK"}, seq |-> s.seq], [flags |-> {"FIN", "ACK"}, seq |-> s.seq]>>
  <2>2. r = [sock |-> e, out |-> o]
    BY <1>8, <2>1 DEF FollowsFin
  <2>3. /\ DOMAIN o = {1, 2} /\ o[1].flags = {"ACK"} /\ o[2].flags = {"FIN", "ACK"}
    OBVIOUS
  <2>4. SameWires(s, e)
    BY <1>3
  <2> HIDE DEF e, o
  <2>5. r.sock = e /\ r.out = o
    BY <2>2
  <2>6. /\ {"ACK"} \notin {{"SYN"}, {"SYN", "ACK"}}
        /\ {"FIN", "ACK"} \notin {{"SYN"}, {"SYN", "ACK"}}
    BY Kinds
  <2> QED
    BY <2>1, <2>3, <2>4, <2>5, <2>6
<1>9. CASE EndsByFin(s, g)
  <2> DEFINE e == [s EXCEPT !.state = "CLOSED", !.ack = Plus(s.ack, 1)]
  <2>1. React(s, g) = Replying(e, {"ACK"})
    BY <1>9 DEF EndsByFin
  <2>2. SameWires(s, e)
    BY <1>3
  <2> HIDE DEF e, Right
  <2>3. Right(Replying(e, {"ACK"}))
    BY <1>1, <2>2
  <2>4. Right(React(s, g))
    BY <2>1, <2>3
  <2> QED
    BY <2>4 DEF Right
<1>10. ~Accepts(s, g)
  BY DEF Accepts
<1> QED
  BY <1>4, <1>5, <1>6, <1>7, <1>8, <1>9, <1>10, Outcomes

(* A listening socket takes nothing but a SYN.                             *)
LEMMA OnlySyn ==
    ASSUME DistinctPorts, Types, Wires, NEW h \in Host, NEW i \in DOMAIN sockets[h],
           NEW g \in SegmentType, NEW out, Handled(h, i, g, out), sockets[h][i].state = "LISTEN"
    PROVE  Accepts(sockets[h][i], g)
<1>1. Waiter(sockets[h][i])
  BY DEF Wires, Linked, Opener, Accepter
<1>2. g = net[h][1] /\ net[h] # <<>> /\ Matches(sockets[h][i], g)
  BY DEF Handled
<1>3. 1 \in DOMAIN net[h] /\ Other(h) \in Host
  BY <1>2, Hosts, Places
<1>4. PICK j \in DOMAIN sockets[Other(h)] : From(h, g, j)
  BY <1>2, <1>3 DEF Wires, Genuine
<1>5. sockets[Other(h)][j].lport \in Nat
  BY <1>3, Places DEF SocketType
<1>6. g.src # NoPort
  BY <1>4, <1>5 DEF From, NoPort
<1>7. g.flags \cap {"SYN", "ACK"} = {"SYN"}
  BY <1>1, <1>2, <1>6 DEF Matches, Waiter
<1>8. "SYN" \in g.flags /\ "ACK" \notin g.flags
  BY <1>7
<1>9. g.flags = {"SYN"}
  BY <1>8 DEF SegmentType, FlagSets
<1> QED
  BY <1>9, Kinds DEF Accepts, React, OnSyn

(* What does not listen keeps not listening.                               *)
LEMMA CallersKept ==
    ASSUME Types, Callers,
           \A a \in Host : \A j \in DOMAIN sockets[a] :
              sockets'[a][j].state = "LISTEN" => sockets[a][j].state = "LISTEN",
           \A a \in Host : app'[a].call \in {"send", "disconnect"} => app'[a] = app[a]
    PROVE  Callers'
<1> SUFFICES ASSUME NEW a \in Host, app'[a].call \in {"send", "disconnect"}
             PROVE  sockets'[a][app'[a].on].state # "LISTEN"
  BY DEF Callers, Caller
<1>1. app'[a] = app[a]
  OBVIOUS
<1>2. app[a] # Idle
  BY <1>1 DEF Idle
<1>3. app[a].on \in DOMAIN sockets[a]
  BY <1>2 DEF Types
<1>4. sockets[a][app[a].on].state # "LISTEN"
  BY <1>1 DEF Callers, Caller
<1> QED
  BY <1>1, <1>3, <1>4

(* A step that keeps the wires of one socket keeps those of all.           *)
LEMMA KeptIs ==
    ASSUME Types, NEW h \in Host, NEW i \in DOMAIN sockets[h], NEW t, Changed(h, i, t),
           SameWires(sockets[h][i], t)
    PROVE  SocketsKept
BY DEF SocketsKept, Changed, SameWires

Wiring == Wires /\ Callers

(* The wiring is kept by every step.                                       *)
LEMMA WiringStep ==
    ASSUME DistinctPorts, Types, Types', Wiring, [Next]_vars
    PROVE  Wiring'
<1> USE DEF Wiring
<1>1. ASSUME NEW h \in Host, NEW i \in DOMAIN sockets[h], NEW t, NEW out, NEW d \in {0, 1},
             Changed(h, i, t), Queued(h, d, out), SameWires(sockets[h][i], t),
             UNCHANGED freePort, \A n \in DOMAIN out : PlainFrom(h, i, out[n])
      PROVE  Wires'
  BY <1>1, KeptIs, QuietStep
<1>2. ASSUME NEW h \in Host, NEW i \in DOMAIN sockets[h], NEW t, Changed(h, i, t),
             t.state = "LISTEN" => sockets[h][i].state = "LISTEN",
             \A a \in Host : app'[a].call \in {"send", "disconnect"} => app'[a] = app[a]
      PROVE  Callers'
  BY <1>2, CallersKept DEF Changed
<1>3. ASSUME NEW h \in Host, app' = [app EXCEPT ![h] = Idle]
      PROVE  \A a \in Host : app'[a].call \in {"send", "disconnect"} => app'[a] = app[a]
  BY <1>3 DEF Types, Idle
<1>4. ASSUME NEW h \in Host, Receive(h) PROVE Wiring'
  <2>1. PICK i \in DOMAIN sockets[h], g \in SegmentType, out \in Seq(SegmentType) :
           Handled(h, i, g, out)
    BY <1>4, ReceiveIs
  <2>2. PICK s \in SocketType : s = sockets[h][i]
    BY SMTT(30), Places
  <2>3. UNCHANGED <<freePort, app>>
    BY Zenon, <1>4 DEF Receive
  <2>4. PICK r : r = React(s, g)
    OBVIOUS
  <2>5. Changed(h, i, r.sock) /\ Queued(h, 1, out) /\ Answers(h, i, r, out)
    BY <2>1, <2>2, <2>4 DEF Handled
  <2>6. CASE Accepts(s, g)
    <3>1. Wires'
      BY <2>1, <2>2, <2>3, <2>6, AcceptStep
    <3>2. r.sock.state = "SYN_RECEIVED"
      <4> DEFINE e == [s EXCEPT !.state = "SYN_RECEIVED", !.rport = g.src,
                                !.ack = Plus(g.seq, 1), !.seq = Plus(Iss, 1), !.peer = g.by]
                 o == <<[flags |-> {"SYN", "ACK"}, seq |-> Iss]>>
      <4>1. r = [sock |-> e, out |-> o]
        BY <2>4, <2>6 DEF Accepts
      <4>2. e.state = "SYN_RECEIVED"
        BY DEF SocketType
      <4> HIDE DEF e, o
      <4> QED
        BY <4>1, <4>2
    <3> QED
      BY <1>2, <2>3, <2>5, <3>1, <3>2
  <2>7. CASE Connects(s, g)
    <3>1. Wires'
      BY <2>1, <2>2, <2>3, <2>7, ConnectedStep
    <3>2. r.sock.state = "ESTABLISHED"
      <4> DEFINE e == [s EXCEPT !.state = "ESTABLISHED", !.ack = Plus(g.seq, 1),
                                !.seq = Plus(s.seq, 1), !.peer = g.by]
      <4>1. r = Replying(e, {"ACK"})
        BY <2>4, <2>7 DEF Connects
      <4>2. e.state = "ESTABLISHED"
        BY DEF SocketType
      <4> HIDE DEF e
      <4> QED
        BY <4>1, <4>2 DEF Replying
    <3> QED
      BY <1>2, <2>3, <2>5, <3>1, <3>2
  <2>8. CASE ~Accepts(s, g) /\ ~Connects(s, g)
    <3>1. s.state # "LISTEN"
      BY <2>1, <2>2, <2>8, OnlySyn
    <3>2. /\ SameWires(s, r.sock)
          /\ \A n \in DOMAIN r.out : r.out[n].flags \notin {{"SYN"}, {"SYN", "ACK"}}
      BY SMTT(30), <2>4, <2>8, <3>1, QuietOutcome
    <3>3. \A n \in DOMAIN out : PlainFrom(h, i, out[n])
      <4> SUFFICES ASSUME NEW n \in DOMAIN out PROVE PlainFrom(h, i, out[n])
        OBVIOUS
      <4>1. /\ n \in DOMAIN r.out
            /\ out[n] = Segment(h, i, r.sock, r.out[n].flags, r.out[n].seq, <<>>)
        BY <2>5 DEF Answers
      <4>2. /\ out[n].by = <<h, i>> /\ out[n].src = r.sock.lport /\ out[n].dst = r.sock.rport
            /\ out[n].flags = r.out[n].flags
        BY <4>1 DEF Segment
      <4>3. r.sock.lport = s.lport /\ r.sock.rport = s.rport
        BY <3>2 DEF SameWires
      <4> QED
        BY <2>2, <3>1, <3>2, <4>1, <4>2, <4>3 DEF PlainFrom
    <3>4. Wires'
      BY <1>1, <2>2, <2>3, <2>5, <3>2, <3>3
    <3> QED
      BY <1>2, <2>2, <2>3, <2>5, <3>2, <3>4 DEF SameWires
  <2> QED
    BY <2>6, <2>7, <2>8
<1>5. ASSUME UNCHANGED <<sockets, freePort>>, NEW h \in Host, NEW d \in {0, 1}, Queued(h, d, <<>>)
      PROVE  Wires'
  <2>1. SocketsKept
    BY <1>5 DEF SocketsKept, SameWires
  <2>2. DOMAIN <<>> = {}
    OBVIOUS
  <2> QED
    BY <1>5, <2>1, <2>2, QuietStep
<1>6. ASSUME NEW h \in Host, ReceiveUnknown(h) \/ Lose(h) PROVE Wiring'
  <2>1. /\ net[h] # <<>> /\ net' = [net EXCEPT ![h] = Tail(@)]
        /\ UNCHANGED <<sockets, freePort, app>>
    BY <1>6 DEF ReceiveUnknown, Lose
  <2>2. Queued(h, 1, <<>>)
    BY <2>1, QueuedToo
  <2> QED
    BY <1>5, <2>1, <2>2, CallersKept
<1>7. ASSUME NEW h \in Host, NEW t, Grown(h, t), UNCHANGED app PROVE Callers'
  <2>1. \A a \in Host : \A j \in DOMAIN sockets[a] : sockets'[a][j] = sockets[a][j]
    BY <1>7, Hosts DEF Grown
  <2> QED
    BY <1>7, <2>1, CallersKept
<1>8. ASSUME NEW h \in Host, Connect(h) PROVE Wiring'
  <2>1. UNCHANGED app
    BY <1>8 DEF Connect
  <2> QED
    BY <1>7, <1>8, <2>1, ConnectStep, ConnectIs
<1>9. ASSUME NEW h \in Host, Listen(h) PROVE Wiring'
  <2>1. UNCHANGED app
    BY <1>9 DEF Listen
  <2> QED
    BY <1>7, <1>9, <2>1, ListenStep, ListenIs
<1>10. ASSUME NEW h \in Host, NEW i \in DOMAIN sockets[h], Bind(h, i) PROVE Wiring'
  <2>1. PICK s \in SocketType : s = sockets[h][i]
    BY Places
  <2>2. PICK t : t = [s EXCEPT !.handler = TRUE]
    OBVIOUS
  <2>3. SameWires(s, t)
    BY <2>2 DEF SameWires, SocketType
  <2>4. Changed(h, i, t) /\ Queued(h, 0, <<>>) /\ UNCHANGED <<freePort, app>>
    BY <1>10, <2>1, <2>2, BindIs DEF Made, Bind
  <2>5. DOMAIN <<>> = {}
    OBVIOUS
  <2>6. Wires'
    BY <1>1, <2>1, <2>3, <2>4, <2>5
  <2> QED
    BY <1>2, <2>1, <2>3, <2>4, <2>6 DEF SameWires
<1>11. ASSUME NEW h \in Host, NEW i \in DOMAIN sockets[h], CallSend(h, i) PROVE Wiring'
  <2>1. /\ app' = [app EXCEPT ![h] = [call |-> "spin", on |-> i]]
        /\ UNCHANGED <<sockets, freePort, net>>
    BY <1>11 DEF CallSend
  <2>2. \A a \in Host : app'[a].call \in {"send", "disconnect"} => app'[a] = app[a]
    BY <2>1 DEF Types
  <2>3. Callers'
    BY <2>1, <2>2, CallersKept
  <2> QED
    BY <1>5, <2>1, <2>3, QueuedToo
<1>12. ASSUME NEW h \in Host, SpinEnds(h) PROVE Wiring'
  <2>1. /\ app[h].call = "spin" /\ app' = [app EXCEPT ![h].call = "send"]
        /\ sockets[h][app[h].on].state = "ESTABLISHED"
        /\ UNCHANGED <<sockets, freePort, net>>
    BY <1>12 DEF SpinEnds
  <2>2. app \in [Host -> {Idle} \cup CallType]
    BY DEF Types
  <2>3. app[h] \in CallType
    BY <2>1, <2>2 DEF Idle
  <2>4. app'[h].on = app[h].on /\ \A a \in Host \ {h} : app'[a] = app[a]
    <3>1. app'[h] = [app[h] EXCEPT !.call = "send"]
      BY <2>1, <2>2
    <3> QED
      BY <2>1, <2>2, <2>3, <3>1 DEF CallType
  <2>5. Callers'
    BY <2>1, <2>4 DEF Callers, Caller
  <2> QED
    BY <1>5, <2>1, <2>5, QueuedToo
<1>13. ASSUME NEW h \in Host, Transmit(h) PROVE Wiring'
  <2>1. app' = [app EXCEPT ![h] = Idle] /\ UNCHANGED freePort /\ app[h].call = "send"
    BY <1>13 DEF Transmit
  <2>2. PICK i \in DOMAIN sockets[h], p \in Payload, wire \in Bytes :
           /\ app[h].on = i /\ wire \in Arrivals(p)
           /\ Made(h, i, [sockets[h][i] EXCEPT !.seq = Plus(@, Len(p)), !.sent = Append(@, p)],
                   <<Segment(h, i, sockets[h][i], {"PSH", "ACK"}, sockets[h][i].seq, wire)>>)
    BY <1>13, TransmitIs
  <2>3. PICK s \in SocketType : s = sockets[h][i]
    BY Places
  <2>4. PICK t : t = [s EXCEPT !.seq = Plus(s.seq, Len(p)), !.sent = Append(s.sent, p)]
    OBVIOUS
  <2>5. PICK g : g = Segment(h, i, s, {"PSH", "ACK"}, s.seq, wire)
    OBVIOUS
  <2>6. Changed(h, i, t) /\ Queued(h, 0, <<g>>)
    BY <2>2, <2>3, <2>4, <2>5 DEF Made
  <2>7. SameWires(s, t)
    BY <2>4 DEF SameWires, SocketType
  <2>8. s.state # "LISTEN"
    BY <2>1, <2>2, <2>3 DEF Callers, Caller
  <2>9. PlainFrom(h, i, g)
    BY <2>3, <2>5, <2>8, Kinds DEF PlainFrom, Segment
  <2>10. \A n \in DOMAIN <<g>> : <<g>>[n] = g
    OBVIOUS
  <2>11. Wires'
    BY <1>1, <2>1, <2>3, <2>6, <2>7, <2>9, <2>10
  <2> QED
    BY <1>2, <1>3, <2>1, <2>3, <2>6, <2>7, <2>11 DEF SameWires
<1>14. ASSUME NEW h \in Host, SendFin(h) PROVE Wiring'
  <2>1. app' = [app EXCEPT ![h] = Idle] /\ UNCHANGED freePort /\ app[h].call = "disconnect"
    BY <1>14 DEF SendFin
  <2>2. PICK i \in DOMAIN sockets[h] :
           /\ app[h].on = i
           /\ Made(h, i, [sockets[h][i] EXCEPT !.seq = Plus(@, 1)],
                   <<Segment(h, i, sockets[h][i], {"FIN", "ACK"}, sockets[h][i].seq, <<>>)>>)
    BY <1>14, SendFinIs
  <2>3. PICK s \in SocketType : s = sockets[h][i]
    BY Places
  <2>4. PICK t : t = [s EXCEPT !.seq = Plus(s.seq, 1)]
    OBVIOUS
  <2>5. PICK g : g = Segment(h, i, s, {"FIN", "ACK"}, s.seq, <<>>)
    OBVIOUS
  <2>6. Changed(h, i, t) /\ Queued(h, 0, <<g>>)
    BY <2>2, <2>3, <2>4, <2>5 DEF Made
  <2>7. SameWires(s, t)
    BY <2>4 DEF SameWires, SocketType
  <2>8. s.state # "LISTEN"
    BY <2>1, <2>2, <2>3 DEF Callers, Caller
  <2>9. PlainFrom(h, i, g)
    BY <2>3, <2>5, <2>8, Kinds DEF PlainFrom, Segment
  <2>10. \A n \in DOMAIN <<g>> : <<g>>[n] = g
    OBVIOUS
  <2>11. Wires'
    BY <1>1, <2>1, <2>3, <2>6, <2>7, <2>9, <2>10
  <2> QED
    BY <1>2, <1>3, <2>1, <2>3, <2>6, <2>7, <2>11 DEF SameWires
<1>15. ASSUME NEW h \in Host, NEW i \in DOMAIN sockets[h], CallDisconnect(h, i) PROVE Wiring'
  <2>1. /\ app' = [app EXCEPT ![h] = [call |-> "disconnect", on |-> i]]
        /\ UNCHANGED freePort /\ sockets[h][i].state # "LISTEN"
    BY <1>15 DEF CallDisconnect
  <2>2. PICK s \in SocketType : s = sockets[h][i]
    BY Places
  <2>3. PICK t : t = [s EXCEPT !.state = "FIN_WAIT1", !.left = TRUE]
    OBVIOUS
  <2>4. Changed(h, i, t) /\ Queued(h, 0, <<>>)
    BY <1>15, <2>2, <2>3, DisconnectIs DEF Made
  <2>5. SameWires(s, t) /\ t.state = "FIN_WAIT1"
    BY <2>1, <2>2, <2>3 DEF SameWires, SocketType
  <2>6. DOMAIN <<>> = {}
    OBVIOUS
  <2>7. Wires'
    BY <1>1, <2>1, <2>2, <2>4, <2>5, <2>6
  <2>8. /\ app'[h].on = i /\ sockets'[h][i] = t /\ \A a \in Host \ {h} : app'[a] = app[a]
        /\ \A a \in Host \ {h} : \A j \in DOMAIN sockets[a] : sockets'[a][j] = sockets[a][j]
    BY <2>1, <2>4 DEF Types, Changed
  <2>9. ASSUME NEW a \in Host \ {h}, app[a].call \in {"send", "disconnect"}
        PROVE  app[a].on \in DOMAIN sockets[a]
    BY SMTT(30), <2>9 DEF Types, Idle
  <2>10. Callers'
    BY <2>5, <2>8, <2>9 DEF Callers, Caller
  <2> QED
    BY <2>7, <2>10
<1>16. CASE UNCHANGED vars
  <2>1. UNCHANGED <<sockets, net, app, freePort>>
    BY <1>16 DEF vars
  <2>2. PICK h \in Host : TRUE
    BY TcpAssumption
  <2>3. Wires'
    BY <1>5, <2>1, <2>2, QueuedToo
  <2> QED
    BY <2>1, <2>3, CallersKept
<1> QED
  BY <1>4, <1>6, <1>8, <1>9, <1>10, <1>11, <1>12, <1>13, <1>14, <1>15, <1>16 DEF Next

----------------------------------------------------------------------------
(* In the beginning there is nothing to be wrong.                          *)
LEMMA InitIs == Init => Types /\ Wiring
<1> SUFFICES ASSUME Init PROVE Types /\ Wiring
  OBVIOUS
<1>1. /\ \A h \in Host : /\ sockets[h] = <<>> /\ net[h] = <<>> /\ app[h] = Idle
                         /\ freePort[h] = FirstPort
      /\ most \in Scenarios /\ lost = 0
  BY DEF Init
<1>2. DOMAIN <<>> = {} /\ Len(<<>>) = 0
  OBVIOUS
<1>3. most.sockets \in Nat /\ most.loss \in Nat
  BY <1>1, TcpAssumption
<1>4. FirstPort \in 0 .. Ports - 1 /\ FirstPort \in Nat
  BY TcpAssumption
<1>5. Types
  <2>1. <<>> \in Seq(SocketType) /\ <<>> \in Seq(SegmentType)
    OBVIOUS
  <2> QED
    BY <1>1, <1>2, <1>3, <1>4, <2>1 DEF Types, Init
<1>6. ASSUME NEW h \in Host PROVE PortsFree(h)
  BY <1>1, <1>2, <1>4 DEF PortsFree
<1>7. Callers
  BY <1>1 DEF Callers, Caller, Idle
<1> QED
  BY <1>1, <1>2, <1>5, <1>6, <1>7 DEF Wiring, Wires

(* The wiring makes the connections one to one.                            *)
LEMMA WiringSuffices ==
    ASSUME DistinctPorts, Types, Wiring
    PROVE  ConnectionInv
<1>1. TypeOK
  <2>1. ASSUME NEW h \in Host
        PROVE  /\ Len(sockets[h]) <= most.sockets
               /\ app[h].call \in {"none", "spin", "send", "disconnect"}
               /\ app[h] # Idle => app[h].on \in DOMAIN sockets[h]
    BY DEF Types, CallType, Idle
  <2>2. ASSUME NEW h \in Host, NEW i \in DOMAIN sockets[h]
        PROVE  /\ sockets[h][i].state \in States
               /\ sockets[h][i].seq \in 0 .. SeqSpace - 1
               /\ sockets[h][i].ack \in 0 .. SeqSpace - 1
               /\ sockets[h][i].peer \in Endpoint \cup {Nobody}
    BY Places DEF SocketType, Numbers, Peers
  <2> QED
    BY <2>1, <2>2 DEF Types, TypeOK
<1>2. ASSUME NEW e \in Endpoint, Exists(e)
      PROVE  /\ Linked(e[1], e[2]) /\ e[1] \in Host /\ e[2] \in DOMAIN sockets[e[1]]
             /\ Socket(e) = sockets[e[1]][e[2]] /\ e = <<e[1], e[2]>> /\ e[2] \in 1 .. MaxSockets
  BY <1>2 DEF Endpoint, Exists, Socket, Wiring, Wires
<1>3. ASSUME NEW h \in Host, NEW i \in DOMAIN sockets[h], sockets[h][i].peer # Nobody
      PROVE  \E j \in DOMAIN sockets[Other(h)] :
                /\ sockets[h][i].peer = <<Other(h), j>>
                /\ Opener(sockets[h][i]) => sockets[Other(h)][j].peer = <<h, i>>
                /\ Accepter(sockets[h][i]) => Opener(sockets[Other(h)][j])
                /\ Opener(sockets[h][i]) \/ Accepter(sockets[h][i])
  <2>1. Linked(h, i)
    BY DEF Wiring, Wires
  <2>2. CASE Opener(sockets[h][i]) /\ Answered(h, i)
    BY <2>2, Apart DEF Answered
  <2>3. CASE Accepter(sockets[h][i]) /\ Calling(h, i)
    BY <2>3, Apart DEF Calling
  <2> QED
    BY <1>3, <2>1, <2>2, <2>3 DEF Linked, Waiter
<1>4. ASSUME NEW e \in Endpoint, NEW f \in Endpoint, Exists(e), Exists(f), e # f,
             Socket(e).peer = Socket(f).peer
      PROVE  Socket(e).peer = Nobody
  <2> SUFFICES ASSUME Socket(e).peer # Nobody PROVE FALSE
    OBVIOUS
  <2>1. PICK h \in Host, i \in 1 .. MaxSockets :
           i \in DOMAIN sockets[h] /\ e = <<h, i>> /\ Socket(e) = sockets[h][i]
    BY <1>2, <1>4
  <2>2. PICK k \in Host, j \in 1 .. MaxSockets :
           j \in DOMAIN sockets[k] /\ f = <<k, j>> /\ Socket(f) = sockets[k][j]
    BY <1>2, <1>4
  <2>3. Other(h) = Other(k)
    BY <1>3, <1>4, <2>1, <2>2
  <2>4. h = k /\ i # j
    BY <1>4, <2>1, <2>2, <2>3, Hosts
  <2> QED
    BY <1>4, <2>1, <2>2, <2>4 DEF Wiring, Wires, Distinct
<1>5. ASSUME NEW e \in Endpoint, Exists(e), Socket(e).peer # Nobody
      PROVE  Socket(Socket(e).peer).peer \in {e, Nobody}
  <2>1. PICK h \in Host, i \in 1 .. MaxSockets :
           i \in DOMAIN sockets[h] /\ e = <<h, i>> /\ Socket(e) = sockets[h][i]
    BY <1>2, <1>5
  <2> DEFINE k == Other(h)
  <2>2. /\ k \in Host /\ Other(k) = h
    BY Hosts
  <2> HIDE DEF k
  <2>3. PICK j \in DOMAIN sockets[k] :
           /\ sockets[h][i].peer = <<k, j>>
           /\ Opener(sockets[h][i]) => sockets[k][j].peer = <<h, i>>
           /\ Accepter(sockets[h][i]) => Opener(sockets[k][j])
           /\ Opener(sockets[h][i]) \/ Accepter(sockets[h][i])
    BY <1>3, <1>5, <2>1 DEF k
  <2>4. Socket(Socket(e).peer) = sockets[k][j]
    BY <2>1, <2>3 DEF Socket
  <2>5. CASE Opener(sockets[h][i])
    BY <2>1, <2>3, <2>4, <2>5
  <2>6. CASE Accepter(sockets[h][i]) /\ sockets[k][j].peer # Nobody
    <3>1. Opener(sockets[k][j])
      BY <2>3, <2>6
    <3>2. PICK c \in DOMAIN sockets[h] :
             sockets[k][j].peer = <<h, c>> /\ sockets[h][c].peer = <<k, j>>
      BY <1>3, <2>2, <2>6, <3>1
    <3>3. <<k, j>> # Nobody
      BY DEF Nobody
    <3>4. c = i
      <4>1. c # i => Distinct(h, c, i)
        BY <2>1 DEF Wiring, Wires
      <4> QED
        BY <2>3, <3>2, <3>3, <4>1 DEF Distinct
    <3> QED
      BY <2>1, <2>4, <3>2, <3>4
  <2> QED
    BY <2>3, <2>4, <2>5, <2>6
<1> QED
  BY <1>1, <1>4, <1>5 DEF ConnectionInv, OneToOne

(* Sockets, calls and sequence numbers always have their types, and        *)
(* connections are one to one, whatever is lost, refused or closed, when   *)
(* the local ports of a host's sockets are different.                      *)
THEOREM ConnectionsAreOneToOne == DistinctPorts => (Spec => []ConnectionInv)
<1> SUFFICES ASSUME DistinctPorts PROVE Spec => []ConnectionInv
  OBVIOUS
<1>1. Init => Types /\ Wiring
  BY InitIs
<1>2. Types /\ Wiring /\ [Next]_vars => (Types /\ Wiring)'
  <2> SUFFICES ASSUME Types, Wiring, [Next]_vars PROVE (Types /\ Wiring)'
    OBVIOUS
  <2>1. Types'
    BY TypesStep
  <2>2. Wiring'
    BY <2>1, WiringStep
  <2> QED
    BY <2>1, <2>2
<1>3. Types /\ Wiring => ConnectionInv
  BY WiringSuffices
<1> QED
  BY <1>1, <1>2, <1>3, PTL DEF Spec

----------------------------------------------------------------------------
(* What a reaction does to the fields that the rest of this module is      *)
(* about, and which segments it sends.                                     *)
Became(s, t, state, peer, seq, ack, got) ==
    /\ t.state = state /\ t.peer = peer /\ t.seq = seq /\ t.ack = ack /\ t.got = got
    /\ t.lport = s.lport /\ t.left = s.left /\ t.sent = s.sent

Says(out, flags) == DOMAIN out = {1} /\ out[1].flags = flags

Reacts(s, g, r) ==
    \/ /\ Accepts(s, g)
       /\ Became(s, r.sock, "SYN_RECEIVED", g.by, Plus(Iss, 1), Plus(g.seq, 1), s.got)
       /\ Says(r.out, {"SYN", "ACK"}) /\ r.out[1].seq = Iss
    \/ /\ Connects(s, g)
       /\ Became(s, r.sock, "ESTABLISHED", g.by, Plus(s.seq, 1), Plus(g.seq, 1), s.got)
       /\ Says(r.out, {"ACK"})
    \/ /\ TakesData(s, g)
       /\ Became(s, r.sock, s.state, s.peer, s.seq, Plus(s.ack, Advance(g.data)),
                 Append(s.got, g.data))
       /\ Says(r.out, {"ACK"})
    \/ /\ s.state # "CLOSED" /\ Became(s, r.sock, s.state, s.peer, s.seq, s.ack, s.got)
       /\ Says(r.out, {"RST"})
    \/ /\ Opens(s, g)
       /\ Became(s, r.sock, "ESTABLISHED", s.peer, s.seq, s.ack, s.got) /\ DOMAIN r.out = {}
    \/ /\ HalfCloses(s, g)
       /\ Became(s, r.sock, "FIN_WAIT2", s.peer, s.seq, s.ack, s.got) /\ DOMAIN r.out = {}
    \/ /\ Ignores(s, g)
       /\ Became(s, r.sock, s.state, s.peer, s.seq, s.ack, s.got) /\ DOMAIN r.out = {}
    \/ /\ Closes(s, g)
       /\ Became(s, r.sock, "CLOSED", s.peer, s.seq, s.ack, s.got) /\ DOMAIN r.out = {}
    \/ /\ FollowsFin(s, g)
       /\ Became(s, r.sock, "CLOSE_WAIT", s.peer, s.seq, Plus(s.ack, 1), s.got)
       /\ DOMAIN r.out = {1, 2} /\ r.out[1].flags = {"ACK"} /\ r.out[2].flags = {"FIN", "ACK"}
    \/ /\ EndsByFin(s, g)
       /\ Became(s, r.sock, "CLOSED", s.peer, s.seq, Plus(s.ack, 1), s.got)
       /\ Says(r.out, {"ACK"})

(* Every reaction is one of these.                                         *)
LEMMA ReactIs ==
    ASSUME NEW s \in SocketType, NEW g \in SegmentType, NEW r, r = React(s, g)
    PROVE  Reacts(s, g, r)
<1>1. ASSUME NEW t, NEW f, r = Replying(t, f)
      PROVE  r.sock = t /\ Says(r.out, f)
  BY <1>1 DEF Replying, Says
<1>2. ASSUME NEW t, r = Silently(t)
      PROVE  r.sock = t /\ DOMAIN r.out = {}
  BY <1>2 DEF Silently
<1>3. CASE Accepts(s, g)
  <2> DEFINE t == [s EXCEPT !.state = "SYN_RECEIVED", !.rport = g.src, !.ack = Plus(g.seq, 1),
                            !.seq = Plus(Iss, 1), !.peer = g.by]
             o == <<[flags |-> {"SYN", "ACK"}, seq |-> Iss]>>
  <2>1. r = [sock |-> t, out |-> o]
    BY <1>3 DEF Accepts
  <2>2. Became(s, t, "SYN_RECEIVED", g.by, Plus(Iss, 1), Plus(g.seq, 1), s.got)
    BY DEF Became, SocketType
  <2>3. Says(o, {"SYN", "ACK"}) /\ o[1].seq = Iss
    BY DEF Says
  <2> HIDE DEF t, o
  <2>4. r.sock = t /\ r.out = o
    BY <2>1
  <2> QED
    BY <1>3, <2>2, <2>3, <2>4 DEF Reacts
<1>4. CASE Connects(s, g)
  <2> DEFINE t == [s EXCEPT !.state = "ESTABLISHED", !.ack = Plus(g.seq, 1),
                            !.seq = Plus(@, 1), !.peer = g.by]
  <2>1. r = Replying(t, {"ACK"})
    BY <1>4 DEF Connects
  <2>2. Became(s, t, "ESTABLISHED", g.by, Plus(s.seq, 1), Plus(g.seq, 1), s.got)
    BY DEF Became, SocketType
  <2> HIDE DEF t
  <2> QED
    BY <1>1, <1>4, <2>1, <2>2 DEF Reacts
<1>5. CASE TakesData(s, g)
  <2> DEFINE t == [s EXCEPT !.got = Append(@, g.data), !.ack = Plus(@, Advance(g.data))]
  <2>1. r = Replying(t, {"ACK"})
    BY <1>5 DEF TakesData
  <2>2. Became(s, t, s.state, s.peer, s.seq, Plus(s.ack, Advance(g.data)), Append(s.got, g.data))
    BY DEF Became, SocketType
  <2> HIDE DEF t
  <2> QED
    BY <1>1, <1>5, <2>1, <2>2 DEF Reacts
<1>6. ASSUME NEW why, Rejects(s, g, why) PROVE Reacts(s, g, r)
  <2> DEFINE t == [s EXCEPT !.refused = IF @ = "no" THEN why ELSE @]
  <2>1. r = Replying(t, {"RST"}) /\ s.state # "CLOSED"
    BY <1>6 DEF Rejects, Refuse
  <2>2. Became(s, t, s.state, s.peer, s.seq, s.ack, s.got)
    BY DEF Became, SocketType
  <2> HIDE DEF t
  <2> QED
    BY <1>1, <2>1, <2>2 DEF Reacts
<1>7. ASSUME NEW x, r = Silently([s EXCEPT !.state = x])
      PROVE  Became(s, r.sock, x, s.peer, s.seq, s.ack, s.got) /\ DOMAIN r.out = {}
  <2> DEFINE t == [s EXCEPT !.state = x]
  <2>1. Became(s, t, x, s.peer, s.seq, s.ack, s.got)
    BY DEF Became, SocketType
  <2> HIDE DEF t
  <2> QED
    BY <1>2, <1>7, <2>1 DEF t
<1>8. CASE Opens(s, g) \/ HalfCloses(s, g) \/ Closes(s, g)
  BY <1>7, <1>8 DEF Opens, HalfCloses, Closes, Reacts
<1>9. CASE Ignores(s, g)
  <2>1. r = Silently(s)
    BY <1>9 DEF Ignores
  <2>2. Became(s, s, s.state, s.peer, s.seq, s.ack, s.got)
    BY DEF Became
  <2> QED
    BY <1>2, <1>9, <2>1, <2>2 DEF Reacts
<1>10. CASE FollowsFin(s, g)
  <2> DEFINE t == [s EXCEPT !.state = "CLOSE_WAIT", !.ack = Plus(@, 1)]
             o == <<[flags |-> {"ACK"}, seq |-> s.seq], [flags |-> {"FIN", "ACK"}, seq |-> s.seq]>>
  <2>1. r = [sock |-> t, out |-> o]
    BY <1>10 DEF FollowsFin
  <2>2. Became(s, t, "CLOSE_WAIT", s.peer, s.seq, Plus(s.ack, 1), s.got)
    BY DEF Became, SocketType
  <2>3. DOMAIN o = {1, 2} /\ o[1].flags = {"ACK"} /\ o[2].flags = {"FIN", "ACK"}
    OBVIOUS
  <2> HIDE DEF t, o
  <2>4. r.sock = t /\ r.out = o
    BY <2>1
  <2> QED
    BY <1>10, <2>2, <2>3, <2>4 DEF Reacts
<1>11. CASE EndsByFin(s, g)
  <2> DEFINE t == [s EXCEPT !.state = "CLOSED", !.ack = Plus(@, 1)]
  <2>1. r = Replying(t, {"ACK"})
    BY <1>11 DEF EndsByFin
  <2>2. Became(s, t, "CLOSED", s.peer, s.seq, Plus(s.ack, 1), s.got)
    BY DEF Became, SocketType
  <2> HIDE DEF t
  <2> QED
    BY <1>1, <1>11, <2>1, <2>2 DEF Reacts
<1> QED
  BY <1>3, <1>4, <1>5, <1>6, <1>8, <1>9, <1>10, <1>11, Outcomes

----------------------------------------------------------------------------
(* Two connected sockets: each is the other's peer.                        *)
Mutual(h, i) ==
    \E j \in DOMAIN sockets[Other(h)] :
       /\ sockets[h][i].peer = <<Other(h), j>>
       /\ sockets[Other(h)][j].peer = <<h, i>>

(* A segment goes to the peer of its sender, or to the one whose peer its  *)
(* sender is; to both, if either of the two is connected.                  *)
LEMMA Meets ==
    ASSUME DistinctPorts, Types, Wires, NEW h \in Host, NEW i \in DOMAIN sockets[h],
           NEW g, NEW j \in DOMAIN sockets[Other(h)], From(h, g, j),
           Matches(sockets[h][i], g), sockets[h][i].state # "LISTEN"
    PROVE  /\ IF sockets[Other(h)][j].lport = ListenPort
              THEN sockets[Other(h)][j].peer = <<h, i>>
              ELSE sockets[h][i].peer = <<Other(h), j>>
           /\ Mutual(h, i) \/ Mutual(Other(h), j) =>
                 /\ sockets[Other(h)][j].peer = <<h, i>> /\ sockets[h][i].peer = <<Other(h), j>>
<1> DEFINE k == Other(h)
<1>1. k \in Host /\ k # h /\ Other(k) = h /\ Other(h) = k
  BY Hosts
<1> HIDE DEF k
<1>2. PICK s, u : s = sockets[h][i] /\ u = sockets[k][j]
  OBVIOUS
<1>3. /\ g.src = u.lport /\ g.dst = u.rport /\ u.state # "LISTEN" /\ s.state # "LISTEN"
      /\ s.lport = g.dst /\ s.rport = g.src
  BY <1>1, <1>2 DEF From, Matches
<1>4. ~Waiter(s) /\ ~Waiter(u)
  BY <1>3 DEF Waiter
<1>5. Linked(h, i) /\ Linked(k, j)
  BY <1>1 DEF Wires
<1>6. CASE u.lport # ListenPort
  <2>1. Opener(u)
    BY <1>2, <1>4, <1>5, <1>6 DEF Linked, Accepter
  <2>2. s.lport = ListenPort
    BY <1>3, <2>1 DEF Opener
  <2>3. Calling(h, i)
    BY <1>2, <1>4, <1>5, <2>2, Apart DEF Linked
  <2>4. PICK c \in DOMAIN sockets[k] : s.peer = <<k, c>> /\ s.rport = sockets[k][c].lport
    BY <1>1, <1>2, <2>3 DEF Calling
  <2>5. c = j
    <3>1. c # j => Distinct(k, c, j)
      BY <1>1 DEF Wires
    <3> QED
      BY <1>2, <1>3, <1>6, <2>4, <3>1 DEF Distinct
  <2>6. s.peer = <<k, j>>
    BY <2>4, <2>5
  <2>7. ASSUME Mutual(h, i) PROVE u.peer = <<h, i>>
    BY <1>1, <1>2, <2>6, <2>7 DEF Mutual
  <2>8. ASSUME Mutual(k, j) PROVE u.peer = <<h, i>>
    <3>1. PICK b \in DOMAIN sockets[h] : u.peer = <<h, b>> /\ sockets[h][b].peer = <<k, j>>
      BY <1>1, <1>2, <2>8 DEF Mutual
    <3>2. b # i => Distinct(h, b, i)
      BY DEF Wires
    <3>3. b = i
      BY <1>2, <2>6, <3>1, <3>2 DEF Distinct, Nobody
    <3> QED
      BY <3>1, <3>3
  <2> QED
    BY <1>1, <1>2, <1>6, <2>6, <2>7, <2>8
<1>7. CASE u.lport = ListenPort
  <2>1. Accepter(u) /\ Calling(k, j)
    BY <1>2, <1>4, <1>5, <1>7, Apart DEF Linked
  <2>2. PICK c \in DOMAIN sockets[h] : u.peer = <<h, c>> /\ u.rport = sockets[h][c].lport
    BY <1>1, <1>2, <2>1 DEF Calling
  <2>3. s.lport # ListenPort
    BY <1>3, <2>1 DEF Accepter, DistinctPorts
  <2>4. c = i
    <3>1. c # i => Distinct(h, c, i)
      BY DEF Wires
    <3> QED
      BY <1>2, <1>3, <2>2, <2>3, <3>1 DEF Distinct
  <2>5. u.peer = <<h, i>>
    BY <2>2, <2>4
  <2>6. ASSUME Mutual(k, j) PROVE s.peer = <<k, j>>
    BY <1>1, <1>2, <2>5, <2>6 DEF Mutual
  <2>7. ASSUME Mutual(h, i) PROVE s.peer = <<k, j>>
    <3>1. PICK b \in DOMAIN sockets[k] : s.peer = <<k, b>> /\ sockets[k][b].peer = <<h, i>>
      BY <1>1, <1>2, <2>7 DEF Mutual
    <3>2. b # j => Distinct(k, b, j)
      BY <1>1 DEF Wires
    <3>3. b = j
      BY <1>2, <2>5, <3>1, <3>2 DEF Distinct, Nobody
    <3> QED
      BY <3>1, <3>3
  <2> QED
    BY <1>1, <1>2, <1>7, <2>5, <2>6, <2>7
<1> QED
  BY <1>6, <1>7

(* Where the segments of a queue were before a step.                       *)
LEMMA Positions ==
    ASSUME Types, Types', NEW h \in Host, NEW d \in {0, 1}, NEW out, Queued(h, d, out),
           DOMAIN out \subseteq Nat, NEW a \in Host, NEW n \in DOMAIN net'[a]
    PROVE  \/ /\ \E m \in DOMAIN net[a] : net'[a][n] = net[a][m] /\ (a # h \/ m # d)
                    /\ m = IF a = h THEN n + d ELSE n
           \/ /\ a = Other(h) /\ \A m \in DOMAIN net[a] : m < n
              /\ \E x \in DOMAIN out : n = Len(net[a]) + x /\ net'[a][n] = out[x]
<1> DEFINE k == Other(h)
<1>1. k \in Host /\ k # h /\ (a = h \/ a = k)
  BY Hosts
<1> HIDE DEF k
<1>2. /\ net'[a] \in Seq(SegmentType) /\ n \in Nat /\ n >= 1
      /\ DOMAIN net[a] = 1 .. Len(net[a]) /\ Len(net[a]) \in Nat
  BY SMTT(30) DEF Types
<1>3. CASE a = h
  <2>1. n + d \in DOMAIN net[h] /\ net'[h][n] = net[h][n + d]
    BY <1>3 DEF Queued
  <2>2. n + d # d
    BY <1>2
  <2> QED
    BY <1>3, <2>1, <2>2
<1>4. CASE a = k
  <2>1. IF n <= Len(net[k])
        THEN n \in DOMAIN net[k] /\ net'[k][n] = net[k][n]
        ELSE n - Len(net[k]) \in DOMAIN out /\ net'[k][n] = out[n - Len(net[k])]
    BY <1>4 DEF Queued, k
  <2>2. CASE n <= Len(net[k])
    BY <1>1, <1>4, <2>1, <2>2
  <2>3. CASE ~(n <= Len(net[k]))
    <3>1. PICK l \in Nat : l = Len(net[a])
      BY <1>2
    <3>2. PICK x \in DOMAIN out : x = n - l /\ net'[a][n] = out[x]
      BY <1>4, <2>1, <2>3, <3>1
    <3>3. n = l + x /\ \A m \in 1 .. l : m < n
      BY <1>2, <1>4, <2>3, <3>1, <3>2
    <3> QED
      BY <1>2, <1>4, <3>1, <3>2, <3>3 DEF k
  <2> QED
    BY <2>2, <2>3
<1> QED
  BY <1>1, <1>3, <1>4

(* Who is not connected, who follows a Disconnect of the other side ...    *)
Opened(a, e) ==
    \E c \in DOMAIN sockets[a] :
       sockets[a][c].peer = e /\ sockets[a][c].state # "SYN_RECEIVED"

Followed(a, e) ==
    \E c \in DOMAIN sockets[a] : sockets[a][c].peer = e /\ sockets[a][c].left

(* ... and what each segment says of the socket it is from.                *)
Meant(a, g, j) ==
    LET u == sockets[Other(a)][j] IN
    /\ g.by = <<Other(a), j>>
    /\ g.flags = {"PSH", "ACK"} => Mutual(Other(a), j)
    /\ g.flags = {"ACK"} /\ u.lport # ListenPort => Mutual(Other(a), j) \/ Opened(a, g.by)
    /\ g.flags = {"FIN", "ACK"} => u.state # "SYN_RECEIVED" /\ (u.left \/ Followed(a, g.by))
    /\ g.flags \in {{"SYN"}, {"SYN", "ACK"}} => g.seq = Iss

(* Behind the FIN of a Disconnect comes no data of the same socket.        *)
Closing(a, m, n) ==
    /\ m < n /\ net[a][m].by = net[a][n].by
    /\ net[a][m].flags = {"FIN", "ACK"} /\ net[a][n].flags = {"PSH", "ACK"}
    => Followed(a, net[a][n].by)

Settled(h, i) ==
    LET s == sockets[h][i] IN
    /\ s.state \in {"ESTABLISHED", "CLOSE_WAIT"} => Mutual(h, i)
    /\ s.state \in {"FIN_WAIT1", "FIN_WAIT2"} => s.left
    /\ s.left => s.state \in {"FIN_WAIT1", "FIN_WAIT2", "CLOSED"}
    /\ s.state = "SYN_SENT" => s.seq = Iss
    /\ s.sent # <<>> \/ s.got # <<>> => Mutual(h, i)

Calls(h) ==
    /\ app[h].call = "send" => Mutual(h, app[h].on)
    /\ app[h].call \in {"spin", "send"} => ~sockets[h][app[h].on].left
    /\ app[h].call = "disconnect" => sockets[h][app[h].on].left

(* No data before the handshake is through at both ends, none behind a     *)
(* FIN, and no FIN before Disconnect.                                      *)
Queues ==
    \A a \in Host :
       /\ \A n \in DOMAIN net[a] : \E j \in DOMAIN sockets[Other(a)] : Meant(a, net[a][n], j)
       /\ \A m, n \in DOMAIN net[a] : Closing(a, m, n)

Handshake ==
    /\ \A h \in Host : \A i \in DOMAIN sockets[h] : Settled(h, i)
    /\ \A h \in Host : Calls(h)
    /\ Queues

----------------------------------------------------------------------------
(* A socket that listens or waits for its SYN|ACK has no peer.             *)
LEMMA Unpaired ==
    ASSUME DistinctPorts, Types, Wires, NEW h \in Host, NEW i \in DOMAIN sockets[h],
           sockets[h][i].state \in {"LISTEN", "SYN_SENT"}
    PROVE  sockets[h][i].peer = Nobody
<1>1. Linked(h, i)
  BY DEF Wires
<1> QED
  BY <1>1 DEF Linked, Waiter, Opener, Accepter, Answered

(* What no step takes back.                                                *)
Onward(s, t) ==
    /\ t.lport = s.lport
    /\ s.peer # Nobody => t.peer = s.peer
    /\ s.left => t.left
    /\ s.state \notin {"LISTEN", "SYN_RECEIVED"} => t.state # "SYN_RECEIVED"

Forward ==
    \A a \in Host : /\ DOMAIN sockets[a] \subseteq DOMAIN sockets'[a]
                    /\ \A j \in DOMAIN sockets[a] : Onward(sockets[a][j], sockets'[a][j])

(* A step that changes one socket, one that makes a socket, and one that   *)
(* does neither.                                                           *)
LEMMA ForwardIs ==
    ASSUME Types, NEW h \in Host
    PROVE  /\ \A i \in DOMAIN sockets[h] : \A t :
                 Changed(h, i, t) /\ Onward(sockets[h][i], t) => Forward
           /\ \A t : Grown(h, t) => Forward
           /\ UNCHANGED sockets => Forward
<1>1. \A s : Onward(s, s)
  BY DEF Onward
<1>2. ASSUME NEW i \in DOMAIN sockets[h], NEW t, Changed(h, i, t), Onward(sockets[h][i], t)
      PROVE  Forward
  BY <1>1, <1>2 DEF Changed, Forward
<1>3. ASSUME NEW t, Grown(h, t) PROVE Forward
  <2> SUFFICES ASSUME NEW a \in Host
               PROVE  /\ DOMAIN sockets[a] \subseteq DOMAIN sockets'[a]
                      /\ \A j \in DOMAIN sockets[a] : Onward(sockets[a][j], sockets'[a][j])
    BY DEF Forward
  <2>1. CASE a = h
    <3>1. DOMAIN sockets[h] = 1 .. Len(sockets[h]) /\ Len(sockets[h]) \in Nat
      BY Places
    <3> QED
      BY <1>1, <1>3, <2>1, <3>1 DEF Grown
  <2>2. CASE a = Other(h)
    BY <1>1, <1>3, <2>2 DEF Grown
  <2> QED
    BY <2>1, <2>2, Hosts
<1> QED
  BY <1>1, <1>2, <1>3 DEF Forward

(* Who is connected stays connected.                                       *)
LEMMA MutualKept ==
    ASSUME Types, Forward, NEW h \in Host, NEW i \in DOMAIN sockets[h], Mutual(h, i)
    PROVE  Mutual(h, i)'
<1>1. Other(h) \in Host
  BY Hosts
<1>2. PICK j \in DOMAIN sockets[Other(h)] :
         /\ sockets[h][i].peer = <<Other(h), j>>
         /\ sockets[Other(h)][j].peer = <<h, i>>
  BY DEF Mutual
<1>3. <<Other(h), j>> # Nobody /\ <<h, i>> # Nobody
  BY DEF Nobody
<1>4. /\ j \in DOMAIN sockets'[Other(h)]
      /\ sockets'[h][i].peer = <<Other(h), j>> /\ sockets'[Other(h)][j].peer = <<h, i>>
  BY <1>1, <1>2, <1>3 DEF Forward, Onward
<1> QED
  BY <1>4 DEF Mutual

(* What a segment says stays true ...                                      *)
LEMMA FollowedKept ==
    ASSUME Types, Forward, NEW a \in Host, NEW e, e # Nobody, Followed(a, e)
    PROVE  Followed(a, e)'
<1>1. PICK c \in DOMAIN sockets[a] : sockets[a][c].peer = e /\ sockets[a][c].left
  BY DEF Followed
<1>2. c \in DOMAIN sockets'[a] /\ sockets'[a][c].peer = e /\ sockets'[a][c].left
  BY <1>1 DEF Forward, Onward
<1> QED
  BY <1>2 DEF Followed

(* ... as does all that it says.                                           *)
LEMMA MeantKept ==
    ASSUME DistinctPorts, Types, Wires, Forward, NEW a \in Host,
           NEW j \in DOMAIN sockets[Other(a)], NEW g, Meant(a, g, j),
           sockets[Other(a)][j].state # "LISTEN"
    PROVE  Meant(a, g, j)'
<1> DEFINE k == Other(a)
           u == sockets[k][j]
           v == sockets'[k][j]
<1>1. k \in Host
  BY Hosts
<1>2. Onward(u, v)
  BY <1>1 DEF Forward
<1>3. Mutual(k, j) => Mutual(k, j)'
  BY <1>1, MutualKept
<1>4. g.by # Nobody
  BY DEF Meant, Nobody
<1>5. Followed(a, g.by) => Followed(a, g.by)'
  BY <1>4, FollowedKept
<1>6. Opened(a, g.by) => Opened(a, g.by)'
  <2> SUFFICES ASSUME NEW c \in DOMAIN sockets[a], sockets[a][c].peer = g.by,
                      sockets[a][c].state # "SYN_RECEIVED"
               PROVE  Opened(a, g.by)'
    BY DEF Opened
  <2>1. sockets[a][c].state # "LISTEN"
    BY <1>4, Unpaired
  <2>2. /\ c \in DOMAIN sockets'[a] /\ sockets'[a][c].peer = g.by
        /\ sockets'[a][c].state # "SYN_RECEIVED"
    BY <1>4, <2>1 DEF Forward, Onward
  <2> QED
    BY <2>2 DEF Opened
<1>7. g.flags = {"FIN", "ACK"} => v.state # "SYN_RECEIVED" /\ (u.left => v.left)
  BY <1>2 DEF Meant, Onward
<1>8. v.lport = u.lport
  BY <1>2 DEF Onward
<1> QED
  BY <1>3, <1>5, <1>6, <1>7, <1>8 DEF Meant

(* A step keeps what the queues mean, if what it adds means it and it adds *)
(* data only for a socket on which Disconnect was not called.              *)
LEMMA QueuesKept ==
    ASSUME DistinctPorts, Types, Types', Wires, Forward, Queues, NEW h \in Host,
           NEW d \in {0, 1}, NEW out, Queued(h, d, out), DOMAIN out \subseteq Nat,
           \A x \in DOMAIN out : \E i \in DOMAIN sockets'[h] : Meant(Other(h), out[x], i)',
           \A x \in DOMAIN out : out[x].flags = {"PSH", "ACK"} =>
              /\ DOMAIN out = {x}
              /\ \E i \in DOMAIN sockets[h] : out[x].by = <<h, i>> /\ ~sockets[h][i].left
    PROVE  Queues'
<1>1. Other(h) \in Host /\ Other(Other(h)) = h
  BY Hosts
<1>2. ASSUME NEW a \in Host, NEW n \in DOMAIN net'[a], NEW g, g = net'[a][n]
      PROVE  \E j \in DOMAIN sockets'[Other(a)] : Meant(a, g, j)'
  <2>1. CASE \E m \in DOMAIN net[a] : net'[a][n] = net[a][m]
    <3>1. PICK m \in DOMAIN net[a] : net'[a][n] = net[a][m]
      BY <2>1
    <3>2. PICK j \in DOMAIN sockets[Other(a)] : Meant(a, net[a][m], j)
      BY DEF Queues
    <3>3. PICK b \in DOMAIN sockets[Other(a)] : From(a, net[a][m], b)
      BY DEF Wires, Genuine
    <3>4. j = b
      BY <3>2, <3>3 DEF Meant, From
    <3>5. sockets[Other(a)][j].state # "LISTEN"
      BY <3>3, <3>4 DEF From
    <3>6. Meant(a, g, j)'
      BY <1>2, <3>1, <3>2, <3>5, MeantKept
    <3>7. j \in DOMAIN sockets'[Other(a)]
      BY Hosts DEF Forward
    <3> QED
      BY <3>6, <3>7
  <2>2. CASE ~\E m \in DOMAIN net[a] : net'[a][n] = net[a][m]
    <3>1. a = Other(h) /\ \E x \in DOMAIN out : net'[a][n] = out[x]
      BY <2>2, Positions
    <3>2. PICK i \in DOMAIN sockets'[h] : Meant(Other(h), g, i)'
      BY <1>2, <3>1
    <3> QED
      BY <1>1, <3>1, <3>2
  <2> QED
    BY <2>1, <2>2
<1>3. ASSUME NEW a \in Host, NEW m \in DOMAIN net'[a], NEW n \in DOMAIN net'[a],
             m < n, net'[a][m].by = net'[a][n].by,
             net'[a][m].flags = {"FIN", "ACK"}, net'[a][n].flags = {"PSH", "ACK"},
             NEW e \in Endpoint, e = net'[a][n].by
      PROVE  Followed(a, e)'
  <2>1. /\ \A x \in DOMAIN net'[a] : x \in Nat
        /\ \A x \in DOMAIN net[a] : x \in Nat /\ net[a][x] \in SegmentType
    <3>1. \A x \in DOMAIN net'[a] : x \in Nat
      BY SMTT(30) DEF Types
    <3> QED
      BY <3>1, Places
  <2>2. Followed(a, e) => Followed(a, e)'
    BY FollowedKept, NobodyIsNone
  <2>3. CASE \E y \in DOMAIN net[a] : net'[a][n] = net[a][y] /\ y = IF a = h THEN n + d ELSE n
    <3>1. PICK y \in DOMAIN net[a] : net'[a][n] = net[a][y] /\ y = IF a = h THEN n + d ELSE n
      BY <2>3
    <3>2. PICK x \in DOMAIN net[a] : net'[a][m] = net[a][x] /\ x = IF a = h THEN m + d ELSE m
      <4>1. CASE a = Other(h) /\ \A x \in DOMAIN net[a] : x < m
        <5>1. y = n
          BY <1>1, <3>1, <4>1, Hosts
        <5> QED
          BY <1>3, <2>1, <4>1, <5>1
      <4> QED
        BY <4>1, Positions
    <3>3. x < y
      BY <1>3, <2>1, <3>1, <3>2
    <3>4. Closing(a, x, y)
      BY DEF Queues
    <3>5. Followed(a, e)
      BY <1>3, <3>1, <3>2, <3>3, <3>4 DEF Closing
    <3> QED
      BY <2>2, <3>5
  <2>4. CASE /\ a = Other(h) /\ \A y \in DOMAIN net[a] : y < n
             /\ \E x \in DOMAIN out : n = Len(net[a]) + x /\ net'[a][n] = out[x]
    <3>1. PICK x \in DOMAIN out : n = Len(net[a]) + x /\ net'[a][n] = out[x]
      BY <2>4
    <3>2. PICK i \in DOMAIN sockets[h] : out[x].by = <<h, i>> /\ ~sockets[h][i].left
      BY <1>3, <3>1
    <3>3. DOMAIN out = {x}
      BY <1>3, <3>1
    <3>4. PICK y \in DOMAIN net[a] : net'[a][m] = net[a][y]
      <4>1. CASE \E z \in DOMAIN out : m = Len(net[a]) + z
        BY <1>3, <2>1, <3>1, <3>3, <4>1
      <4> QED
        BY <4>1, Positions
    <3>5. PICK j \in DOMAIN sockets[Other(a)] : Meant(a, net[a][y], j)
      BY DEF Queues
    <3>6. j = i
      BY <1>1, <1>3, <2>4, <3>1, <3>2, <3>4, <3>5 DEF Meant
    <3>7. Followed(a, e)
      BY <1>1, <1>3, <2>4, <3>2, <3>4, <3>5, <3>6 DEF Meant
    <3> QED
      BY <2>2, <3>7
  <2> QED
    BY <2>3, <2>4, Positions
<1>4. ASSUME NEW a \in Host, NEW n \in DOMAIN net'[a]
      PROVE  \E j \in DOMAIN sockets'[Other(a)] : Meant(a, net[a][n], j)'
  <2>1. PICK g : g = net'[a][n]
    OBVIOUS
  <2>2. PICK j \in DOMAIN sockets'[Other(a)] : Meant(a, g, j)'
    BY <1>2, <2>1
  <2> QED
    BY <2>1, <2>2 DEF Meant
<1>5. ASSUME NEW a \in Host, NEW m \in DOMAIN net'[a], NEW n \in DOMAIN net'[a]
      PROVE  Closing(a, m, n)'
  <2>1. net'[a][n].by \in Endpoint
    <3>1. net'[a] \in Seq(SegmentType)
      BY DEF Types
    <3>2. net'[a][n] \in SegmentType
      BY <3>1
    <3> QED
      BY <3>2 DEF SegmentType
  <2>2. PICK e \in Endpoint : e = net'[a][n].by
    BY <2>1
  <2> QED
    BY <1>3, <2>2 DEF Closing, Followed
<1> QED
  BY <1>4, <1>5 DEF Queues

(* The sockets that a step does not change stay settled.                   *)
LEMMA SettledKept ==
    ASSUME Types, Forward, \A a \in Host : \A j \in DOMAIN sockets[a] : Settled(a, j),
           NEW h \in Host, NEW i \in DOMAIN sockets[h], NEW t, Changed(h, i, t), Settled(h, i)'
    PROVE  \A a \in Host : \A j \in DOMAIN sockets'[a] : Settled(a, j)'
<1> SUFFICES ASSUME NEW a \in Host, NEW j \in DOMAIN sockets[a], a # h \/ j # i
             PROVE  Settled(a, j)'
  BY DEF Changed
<1>1. sockets'[a][j] = sockets[a][j]
  BY DEF Changed
<1>2. Mutual(a, j) => Mutual(a, j)'
  BY MutualKept
<1> QED
  BY <1>1, <1>2 DEF Settled

(* What a reaction sends says what it should: SYN|ACK the first number,    *)
(* ACK and FIN|ACK what they say of the socket.                            *)
LEMMA MeantIs ==
    ASSUME NEW h \in Host, NEW i, NEW g, g.by = <<h, i>>,
           \/ g.flags = {"RST"}
           \/ g.flags = {"SYN", "ACK"} /\ g.seq = Iss
           \/ g.flags = {"ACK"} /\ (Mutual(h, i) \/ Opened(Other(h), <<h, i>>))'
           \/ /\ g.flags = {"FIN", "ACK"} /\ sockets'[h][i].state # "SYN_RECEIVED"
              /\ sockets'[h][i].left \/ Followed(Other(h), <<h, i>>)'
           \/ g.flags = {"PSH", "ACK"} /\ Mutual(h, i)'
           \/ g.flags = {"SYN"} /\ g.seq = Iss
    PROVE  Meant(Other(h), g, i)'
<1>1. Other(h) \in Host /\ Other(Other(h)) = h
  BY Hosts
<1>2. PICK k : k = Other(h)
  OBVIOUS
<1>3. Other(k) = h
  BY <1>1, <1>2
<1> QED
  BY <1>2, <1>3, Kinds DEF Meant

(* An interrupt with a segment that has a socket.                          *)
LEMMA HandledMeans ==
    ASSUME DistinctPorts, Types, Types', Wires, Handshake, NEW h \in Host,
           NEW i \in DOMAIN sockets[h], NEW g \in SegmentType, NEW out \in Seq(SegmentType),
           Handled(h, i, g, out)
    PROVE  /\ Forward
           /\ Settled(h, i)'
           /\ \A x \in DOMAIN out :
                 Meant(Other(h), out[x], i)' /\ out[x].flags # {"PSH", "ACK"}
<1> DEFINE k == Other(h)
<1>1. k \in Host /\ Other(k) = h /\ Other(h) = k /\ k # h
  BY Hosts
<1> HIDE DEF k
<1>2. PICK s \in SocketType : s = sockets[h][i]
  BY Places
<1>3. PICK r : r = React(s, g)
  OBVIOUS
<1>4. PICK t : t = r.sock
  OBVIOUS
<1>5. /\ Matches(s, g) /\ Changed(h, i, t) /\ Answers(h, i, r, out)
      /\ 1 \in DOMAIN net[h] /\ g = net[h][1]
  <2>1. 1 \in DOMAIN net[h]
    BY Places DEF Handled
  <2> QED
    BY <1>2, <1>3, <1>4, <2>1 DEF Handled
<1>6. Reacts(s, g, r)
  BY <1>3, ReactIs
<1>7. PICK j \in DOMAIN sockets[k] : From(h, g, j) /\ Meant(h, g, j)
  <2>1. PICK j \in DOMAIN sockets[k] : Meant(h, g, j)
    BY <1>1, <1>5 DEF Handshake, Queues
  <2>2. PICK b \in DOMAIN sockets[k] : From(h, g, b)
    BY <1>1, <1>5 DEF Wires, Genuine
  <2>3. b = j
    BY <2>1, <2>2 DEF From, Meant
  <2> QED
    BY <2>1, <2>2, <2>3
<1>8. PICK u \in SocketType : u = sockets[k][j]
  BY <1>1, Places
<1>9. s.state \in {"LISTEN", "SYN_SENT"} => s.peer = Nobody
  BY <1>2, Unpaired
<1>10. s.state # "LISTEN" =>
          /\ IF u.lport = ListenPort THEN u.peer = <<h, i>> ELSE s.peer = <<k, j>>
          /\ Mutual(h, i) \/ Mutual(k, j) => u.peer = <<h, i>> /\ s.peer = <<k, j>>
  BY <1>1, <1>2, <1>5, <1>7, <1>8, Meets DEF Wires
<1>11. ASSUME u.peer = <<h, i>>, s.peer = <<k, j>> PROVE Mutual(h, i)
  BY <1>1, <1>2, <1>8, <1>11 DEF Mutual
<1>12. /\ sockets'[h][i] = t /\ t.lport = s.lport /\ t.left = s.left /\ t.sent = s.sent
       /\ \A x \in DOMAIN out : /\ x \in DOMAIN r.out /\ out[x].by = <<h, i>>
                                /\ out[x].flags = r.out[x].flags /\ out[x].seq = r.out[x].seq
  <2>1. t.lport = s.lport /\ t.left = s.left /\ t.sent = s.sent
    BY <1>4, <1>6 DEF Reacts, Became
  <2>2. sockets'[h][i] = t
    BY <1>5 DEF Changed
  <2>3. ASSUME NEW x \in DOMAIN out
        PROVE  /\ x \in DOMAIN r.out /\ out[x].by = <<h, i>>
               /\ out[x].flags = r.out[x].flags /\ out[x].seq = r.out[x].seq
    <3>1. /\ x \in DOMAIN r.out
          /\ out[x] = Segment(h, i, r.sock, r.out[x].flags, r.out[x].seq, <<>>)
      BY <1>5, <2>3 DEF Answers
    <3> QED
      BY <3>1 DEF Segment
  <2> QED
    BY <2>1, <2>2, <2>3
<1>13. Settled(h, i)
  BY DEF Handshake
<1>14. Forward
  <2>1. Onward(s, t)
    BY <1>4, <1>6, <1>9, <1>12
       DEF Reacts, Became, Onward, Accepts, Connects, TakesData, Opens, HalfCloses, Ignores,
           Closes, FollowsFin, EndsByFin
  <2> QED
    BY <1>2, <1>5, <2>1, ForwardIs
<1>15. /\ Mutual(h, i) => Mutual(h, i)'
       /\ Mutual(k, j) => Mutual(h, i)' \/ s.state = "LISTEN"
  BY <1>1, <1>10, <1>11, <1>14, MutualKept
<1>16. \A x \in DOMAIN out : out[x].flags # {"PSH", "ACK"}
  BY ZenonT(60), <1>6, <1>12, Kinds DEF Reacts, Says
<1>17. /\ t.state \in {"ESTABLISHED", "CLOSE_WAIT"} => Mutual(h, i)'
       /\ t.state \in {"FIN_WAIT1", "FIN_WAIT2"} => s.left
       /\ s.left => t.state \in {"FIN_WAIT1", "FIN_WAIT2", "CLOSED"}
       /\ t.state = "SYN_SENT" => t.seq = Iss
       /\ t.got # s.got => Mutual(h, i)'
       => Settled(h, i)'
  BY <1>2, <1>12, <1>13, <1>15 DEF Settled
<1>18. ASSUME NEW x \in DOMAIN out,
              \/ r.out[x].flags = {"RST"}
              \/ r.out[x].flags = {"SYN", "ACK"} /\ r.out[x].seq = Iss
              \/ r.out[x].flags = {"ACK"} /\ (Mutual(h, i) \/ Opened(k, <<h, i>>))'
              \/ /\ r.out[x].flags = {"FIN", "ACK"} /\ t.state # "SYN_RECEIVED"
                 /\ t.left \/ Followed(k, <<h, i>>)'
       PROVE  Meant(Other(h), out[x], i)'
  <2>1. PICK e : e = out[x]
    OBVIOUS
  <2>2. e.by = <<h, i>> /\ e.flags = r.out[x].flags /\ e.seq = r.out[x].seq
    BY <1>12, <2>1
  <2>3. Meant(Other(h), e, i)'
    BY <1>1, <1>12, <1>18, <2>2, MeantIs
  <2> QED
    BY <2>1, <2>3
<1>19. /\ s.state \in {"ESTABLISHED", "CLOSE_WAIT"} => Mutual(h, i)'
       /\ s.state \in {"FIN_WAIT1", "FIN_WAIT2"} => s.left
       /\ s.left => s.state \in {"FIN_WAIT1", "FIN_WAIT2", "CLOSED"}
       /\ s.state = "SYN_SENT" => s.seq = Iss
  BY <1>2, <1>13, <1>15 DEF Settled
<1>20. /\ g.by = <<k, j>>
       /\ g.flags = {"PSH", "ACK"} => Mutual(k, j)
       /\ g.flags = {"ACK"} /\ u.lport # ListenPort => Mutual(k, j) \/ Opened(h, g.by)
       /\ g.flags = {"FIN", "ACK"} => u.state # "SYN_RECEIVED" /\ (u.left \/ Followed(h, g.by))
       /\ g.flags = {"SYN", "ACK"} => Accepter(u)
  BY <1>1, <1>7, <1>8 DEF From, Meant
<1>21. CASE /\ Accepts(s, g)
            /\ Became(s, t, "SYN_RECEIVED", g.by, Plus(Iss, 1), Plus(g.seq, 1), s.got)
            /\ Says(r.out, {"SYN", "ACK"}) /\ r.out[1].seq = Iss
  <2>1. Settled(h, i)'
    BY <1>17, <1>19, <1>21 DEF Became, Accepts
  <2>2. \A x \in DOMAIN out : Meant(Other(h), out[x], i)'
    BY <1>12, <1>18, <1>21 DEF Says
  <2> QED
    BY <1>14, <1>16, <2>1, <2>2
<1>22. CASE /\ Connects(s, g)
            /\ Became(s, t, "ESTABLISHED", g.by, Plus(s.seq, 1), Plus(g.seq, 1), s.got)
            /\ Says(r.out, {"ACK"})
  <2>1. s.state = "SYN_SENT" /\ u.lport = ListenPort
    BY <1>20, <1>22 DEF Connects, Accepter
  <2>2. u.peer = <<h, i>>
    BY <1>10, <2>1
  <2>3. /\ t.peer = <<k, j>> /\ sockets'[h][i] = t
        /\ sockets'[k][j] = u /\ j \in DOMAIN sockets'[k]
    BY <1>1, <1>5, <1>8, <1>12, <1>20, <1>22 DEF Changed, Became
  <2>4. Mutual(h, i)'
    BY <1>1, <2>2, <2>3 DEF Mutual
  <2>5. Settled(h, i)'
    BY <1>17, <1>19, <1>22, <2>1, <2>4 DEF Became
  <2>6. \A x \in DOMAIN out : Meant(Other(h), out[x], i)'
    BY <1>12, <1>18, <1>22, <2>4 DEF Says
  <2> QED
    BY <1>14, <1>16, <2>5, <2>6
<1>23. CASE /\ TakesData(s, g)
            /\ Became(s, t, s.state, s.peer, s.seq, Plus(s.ack, Advance(g.data)),
                      Append(s.got, g.data))
            /\ Says(r.out, {"ACK"})
  <2>1. s.state # "LISTEN"
    BY ZenonT(60), <1>2, <1>23, OnlySyn, Kinds DEF TakesData, Accepts
  <2>2. Mutual(h, i)'
    BY <1>15, <1>20, <1>23, <2>1 DEF TakesData
  <2>3. Settled(h, i)'
    BY <1>17, <1>19, <1>23, <2>2 DEF Became
  <2>4. \A x \in DOMAIN out : Meant(Other(h), out[x], i)'
    BY <1>12, <1>18, <1>23, <2>2 DEF Says
  <2> QED
    BY <1>14, <1>16, <2>3, <2>4
<1>24. CASE Became(s, t, s.state, s.peer, s.seq, s.ack, s.got) /\ Says(r.out, {"RST"})
  <2>1. Settled(h, i)'
    BY <1>17, <1>19, <1>24 DEF Became
  <2>2. \A x \in DOMAIN out : Meant(Other(h), out[x], i)'
    BY <1>12, <1>18, <1>24 DEF Says
  <2> QED
    BY <1>14, <1>16, <2>1, <2>2
<1>25. CASE /\ Opens(s, g)
            /\ Became(s, t, "ESTABLISHED", s.peer, s.seq, s.ack, s.got) /\ DOMAIN r.out = {}
  <2>1. s.state = "SYN_RECEIVED" /\ g.flags \in {{"ACK"}, {"PSH", "ACK"}}
    BY <1>25 DEF Opens
  <2>2. Mutual(k, j)
    <3>1. Linked(h, i) /\ Linked(k, j)
      BY <1>1 DEF Wires
    <3>2. s.lport = ListenPort
      BY <1>2, <2>1, <3>1 DEF Linked, Waiter, Opener, Accepter
    <3>3. u.rport = ListenPort /\ u.state # "LISTEN"
      BY <1>1, <1>5, <1>7, <1>8, <2>1, <3>2 DEF Matches, From
    <3>4. u.lport # ListenPort
      BY <1>8, <3>1, <3>3, Apart DEF Linked, Waiter, Accepter, DistinctPorts
    <3>5. s.peer = <<k, j>>
      BY <1>10, <2>1, <3>4
    <3>6. ~Opened(h, g.by)
      <4> SUFFICES ASSUME NEW c \in DOMAIN sockets[h], sockets[h][c].peer = <<k, j>>,
                          sockets[h][c].state # "SYN_RECEIVED"
                   PROVE  FALSE
        BY <1>20 DEF Opened
      <4>1. c # i => Distinct(h, c, i)
        BY DEF Wires
      <4> QED
        BY <1>2, <2>1, <3>5, <4>1 DEF Distinct, Nobody
    <3> QED
      BY <1>20, <2>1, <3>4, <3>6
  <2>3. Mutual(h, i)'
    BY <1>15, <2>1, <2>2
  <2>4. Settled(h, i)'
    BY <1>17, <1>19, <1>25, <2>1, <2>3 DEF Became
  <2> QED
    BY <1>12, <1>14, <1>25, <2>4
<1>26. CASE /\ HalfCloses(s, g)
            /\ Became(s, t, "FIN_WAIT2", s.peer, s.seq, s.ack, s.got) /\ DOMAIN r.out = {}
  <2>1. Settled(h, i)'
    BY <1>17, <1>19, <1>26 DEF Became, HalfCloses
  <2> QED
    BY <1>12, <1>14, <1>26, <2>1
<1>27. CASE /\ Ignores(s, g)
            /\ Became(s, t, s.state, s.peer, s.seq, s.ack, s.got) /\ DOMAIN r.out = {}
  <2>1. Settled(h, i)'
    BY <1>17, <1>19, <1>27 DEF Became
  <2> QED
    BY <1>12, <1>14, <1>27, <2>1
<1>28. CASE /\ Closes(s, g)
            /\ Became(s, t, "CLOSED", s.peer, s.seq, s.ack, s.got) /\ DOMAIN r.out = {}
  <2>1. Settled(h, i)'
    BY <1>17, <1>28 DEF Became
  <2> QED
    BY <1>12, <1>14, <1>28, <2>1
<1>29. CASE /\ FollowsFin(s, g)
            /\ Became(s, t, "CLOSE_WAIT", s.peer, s.seq, Plus(s.ack, 1), s.got)
            /\ DOMAIN r.out = {1, 2}
            /\ r.out[1].flags = {"ACK"} /\ r.out[2].flags = {"FIN", "ACK"}
  <2>1. s.state = "ESTABLISHED" /\ g.flags = {"FIN", "ACK"} /\ ~s.left
    BY <1>19, <1>29 DEF FollowsFin
  <2>2. Mutual(h, i) /\ Mutual(h, i)'
    BY <1>2, <1>13, <1>15, <2>1 DEF Settled
  <2>3. u.peer = <<h, i>> /\ s.peer = <<k, j>>
    BY <1>10, <2>1, <2>2
  <2>4. u.left
    <3> SUFFICES ASSUME Followed(h, g.by) PROVE FALSE
      BY <1>20, <2>1
    <3>1. PICK c \in DOMAIN sockets[h] : sockets[h][c].peer = <<k, j>> /\ sockets[h][c].left
      BY <1>20 DEF Followed
    <3>2. c # i => Distinct(h, c, i)
      BY DEF Wires
    <3> QED
      BY <1>2, <2>1, <2>3, <3>1, <3>2 DEF Distinct, Nobody
  <2>5. Followed(k, <<h, i>>)'
    <3>1. Followed(k, <<h, i>>)
      BY <1>8, <2>3, <2>4 DEF Followed
    <3> QED
      BY <1>1, <1>14, <3>1, FollowedKept DEF Nobody
  <2>6. t.state = "CLOSE_WAIT"
    BY <1>29 DEF Became
  <2>7. Settled(h, i)'
    BY <1>17, <1>29, <2>1, <2>2 DEF Became
  <2>8. \A x \in DOMAIN out : Meant(Other(h), out[x], i)'
    BY <1>12, <1>18, <1>29, <2>2, <2>5, <2>6
  <2> QED
    BY <1>14, <1>16, <2>7, <2>8
<1>30. CASE /\ EndsByFin(s, g)
            /\ Became(s, t, "CLOSED", s.peer, s.seq, Plus(s.ack, 1), s.got)
            /\ Says(r.out, {"ACK"})
  <2>1. Settled(h, i)'
    BY <1>17, <1>30 DEF Became
  <2>2. s.state # "LISTEN" /\ u.state # "SYN_RECEIVED" /\ u.state # "LISTEN"
    BY <1>1, <1>7, <1>8, <1>20, <1>30 DEF EndsByFin, From
  <2>3. Mutual(h, i)' \/ Opened(k, <<h, i>>)' \/ s.lport = ListenPort
    <3>1. CASE u.lport = ListenPort
      <4>1. u.peer = <<h, i>>
        BY <1>10, <2>2, <3>1
      <4>2. /\ j \in DOMAIN sockets'[k] /\ sockets'[k][j].peer = <<h, i>>
            /\ sockets'[k][j].state # "SYN_RECEIVED"
        <5>1. j \in DOMAIN sockets'[k] /\ Onward(u, sockets'[k][j])
          BY <1>1, <1>8, <1>14 DEF Forward
        <5>2. <<h, i>> # Nobody
          BY DEF Nobody
        <5> QED
          BY <2>2, <4>1, <5>1, <5>2 DEF Onward
      <4> QED
        BY <4>2 DEF Opened
    <3>2. CASE u.lport # ListenPort
      <4>1. Linked(k, j)
        BY <1>1 DEF Wires
      <4>2. u.rport = ListenPort
        BY <1>8, <2>2, <3>2, <4>1 DEF Linked, Waiter, Opener, Accepter
      <4> QED
        BY <1>1, <1>5, <1>7, <1>8, <2>2, <4>2 DEF Matches, From
    <3> QED
      BY <3>1, <3>2
  <2>4. \A x \in DOMAIN out : Meant(Other(h), out[x], i)'
    <3> SUFFICES ASSUME NEW x \in DOMAIN out PROVE Meant(Other(h), out[x], i)'
      OBVIOUS
    <3>1. r.out[x].flags = {"ACK"}
      BY <1>12, <1>30 DEF Says
    <3>2. CASE s.lport # ListenPort
      BY <1>18, <2>3, <3>1, <3>2
    <3>3. CASE s.lport = ListenPort
      <4>1. PICK e : e = out[x]
        OBVIOUS
      <4>2. e.by = <<h, i>> /\ e.flags = {"ACK"}
        BY <1>12, <3>1, <4>1
      <4>3. PICK b : b = k
        OBVIOUS
      <4>4. sockets'[Other(b)][i].lport = ListenPort
        BY <1>1, <1>12, <3>3, <4>3
      <4>5. Meant(b, e, i)'
        BY <1>1, <4>2, <4>3, <4>4, Kinds DEF Meant
      <4> QED
        BY <1>1, <4>1, <4>3, <4>5
    <3> QED
      BY <3>2, <3>3
  <2> QED
    BY <1>14, <1>16, <2>1, <2>4
<1> QED
  BY <1>4, <1>6, <1>21, <1>22, <1>23, <1>24, <1>25, <1>26, <1>27, <1>28, <1>29, <1>30
     DEF Reacts

(* A call goes on as long as nobody calls Disconnect in between.           *)
LEMMA CallsKept ==
    ASSUME Types, Forward, \A a \in Host : Calls(a),
           \A a \in Host : \A j \in DOMAIN sockets[a] :
              sockets'[a][j].left = sockets[a][j].left,
           \A a \in Host : app'[a] = app[a] \/ Calls(a)'
    PROVE  \A a \in Host : Calls(a)'
<1> SUFFICES ASSUME NEW a \in Host, app'[a] = app[a] PROVE Calls(a)'
  OBVIOUS
<1>1. CASE app[a] = Idle
  BY <1>1 DEF Calls, Idle
<1>2. CASE app[a] # Idle
  <2>1. PICK i \in DOMAIN sockets[a] : i = app[a].on
    BY <1>2 DEF Types
  <2>2. Mutual(a, i) => Mutual(a, i)'
    BY MutualKept
  <2>3. sockets'[a][i].left = sockets[a][i].left
    OBVIOUS
  <2>4. Calls(a)
    OBVIOUS
  <2> QED
    BY <2>1, <2>2, <2>3, <2>4 DEF Calls
<1> QED
  BY <1>1, <1>2

(* A socket that was just created is settled, and so are the older ones.   *)
LEMMA GrownSettled ==
    ASSUME Types, Forward, \A a \in Host : \A j \in DOMAIN sockets[a] : Settled(a, j),
           NEW h \in Host, NEW t, Grown(h, t), t.state \in {"LISTEN", "SYN_SENT"},
           t.seq = Iss, ~t.left, t.sent = <<>>, t.got = <<>>
    PROVE  \A a \in Host : \A j \in DOMAIN sockets'[a] : Settled(a, j)'
<1>1. ASSUME NEW a \in Host, NEW j \in DOMAIN sockets[a], sockets'[a][j] = sockets[a][j]
      PROVE  Settled(a, j)'
  <2>1. Mutual(a, j) => Mutual(a, j)'
    BY MutualKept
  <2> QED
    BY <1>1, <2>1 DEF Settled
<1>2. ASSUME NEW n, n = Len(sockets[h]) + 1 PROVE Settled(h, n)'
  <2>1. sockets'[h][n] = t
    BY <1>2 DEF Grown
  <2> QED
    BY <2>1 DEF Settled
<1>3. ASSUME NEW j \in DOMAIN sockets'[h]
      PROVE  j \in DOMAIN sockets[h] \/ j = Len(sockets[h]) + 1
  <2>1. DOMAIN sockets[h] = 1 .. Len(sockets[h]) /\ Len(sockets[h]) \in Nat
    BY Places
  <2> QED
    BY <2>1 DEF Grown
<1>4. ASSUME NEW j \in DOMAIN sockets'[h] PROVE Settled(h, j)'
  <2>1. CASE j \in DOMAIN sockets[h]
    BY <1>1, <2>1 DEF Grown
  <2>2. CASE j \notin DOMAIN sockets[h]
    BY <1>2, <1>3, <2>2
  <2> QED
    BY <2>1, <2>2
<1>5. ASSUME NEW j \in DOMAIN sockets'[Other(h)] PROVE Settled(Other(h), j)'
  <2>1. PICK k \in Host : k = Other(h)
    BY Hosts
  <2>2. j \in DOMAIN sockets[k] /\ sockets'[k][j] = sockets[k][j]
    BY <2>1 DEF Grown
  <2>3. Settled(k, j)'
    BY <1>1, <2>2
  <2> QED
    BY <2>1, <2>3
<1> QED
  BY <1>4, <1>5, Hosts

(* The handshake's promises are kept by every step.                        *)
LEMMA HandshakeStep ==
    ASSUME DistinctPorts, Types, Types', Wiring, Handshake, [Next]_vars
    PROVE  Handshake'
<1> USE DEF Wiring
<1>1. /\ \A a \in Host : \A j \in DOMAIN sockets[a] : Settled(a, j)
      /\ \A a \in Host : Calls(a)
      /\ Queues
  BY DEF Handshake
<1>2. ASSUME Forward, \A a \in Host : \A j \in DOMAIN sockets'[a] : Settled(a, j)',
             \A a \in Host : Calls(a)', Queues'
      PROVE  Handshake'
  BY <1>2 DEF Handshake
<1>3. ASSUME UNCHANGED sockets
      PROVE  Forward /\ \A a \in Host : \A j \in DOMAIN sockets'[a] : Settled(a, j)'
  <2>1. Forward
    BY <1>3, ForwardIs, TcpAssumption
  <2>2. ASSUME NEW a \in Host, NEW j \in DOMAIN sockets'[a] PROVE Settled(a, j)'
    <3>1. Settled(a, j)
      BY <1>1, <1>3
    <3> QED
      BY <1>3, <3>1 DEF Settled, Mutual
  <2> QED
    BY <2>1, <2>2
<1>4. ASSUME NEW h \in Host, NEW d \in {0, 1}, Queued(h, d, <<>>), Forward
      PROVE  Queues'
  <2>1. DOMAIN <<>> = {}
    OBVIOUS
  <2> QED
    BY <1>1, <1>4, <2>1, QueuesKept
<1>5. ASSUME NEW h \in Host, NEW g, Queued(h, 0, <<g>>), Forward,
             NEW i \in DOMAIN sockets'[h], Meant(Other(h), g, i)',
             g.flags = {"PSH", "ACK"} =>
                i \in DOMAIN sockets[h] /\ g.by = <<h, i>> /\ ~sockets[h][i].left
      PROVE  Queues'
  <2>1. PICK out : out = <<g>>
    OBVIOUS
  <2>2. DOMAIN out = {1} /\ out[1] = g
    BY <2>1
  <2>3. \A x \in DOMAIN out : \E b \in DOMAIN sockets'[h] : Meant(Other(h), out[x], b)'
    <3> SUFFICES ASSUME NEW x \in DOMAIN out PROVE Meant(Other(h), out[x], i)'
      OBVIOUS
    <3>1. out[x] = g
      BY <2>2
    <3> QED
      BY <1>5, <3>1
  <2>4. ASSUME NEW x \in DOMAIN out, out[x].flags = {"PSH", "ACK"}
        PROVE  /\ DOMAIN out = {x}
               /\ \E b \in DOMAIN sockets[h] : out[x].by = <<h, b>> /\ ~sockets[h][b].left
    BY <1>5, <2>2, <2>4
  <2>5. Queued(h, 0, out) /\ DOMAIN out \subseteq Nat
    BY <1>5, <2>1, <2>2
  <2> QED
    BY <1>1, <1>5, <2>3, <2>4, <2>5, QueuesKept
<1>6. ASSUME NEW h \in Host, app' = [app EXCEPT ![h] = Idle]
      PROVE  \A a \in Host : app'[a] = app[a] \/ Calls(a)'
  <2>1. app'[h] = Idle /\ \A a \in Host \ {h} : app'[a] = app[a]
    BY <1>6 DEF Types
  <2>2. Calls(h)'
    BY <2>1 DEF Calls, Idle
  <2> QED
    BY <2>1, <2>2
<1>7. ASSUME NEW h \in Host, Receive(h) PROVE Handshake'
  <2>1. PICK i \in DOMAIN sockets[h], g \in SegmentType, out \in Seq(SegmentType) :
           Handled(h, i, g, out)
    BY <1>7, ReceiveIs
  <2>2. /\ Forward /\ Settled(h, i)'
        /\ \A x \in DOMAIN out : Meant(Other(h), out[x], i)' /\ out[x].flags # {"PSH", "ACK"}
    BY <2>1, HandledMeans
  <2>3. PICK r : r = React(sockets[h][i], g)
    OBVIOUS
  <2>4. Changed(h, i, r.sock) /\ Queued(h, 1, out)
    BY <2>1, <2>3 DEF Handled
  <2>5. r.sock.left = sockets[h][i].left
    <3>1. sockets[h][i] \in SocketType
      BY Places
    <3> QED
      BY SMTT(30), <2>3, <3>1, ReactIs DEF Reacts, Became
  <2>6. UNCHANGED app
    BY Zenon, <1>7 DEF Receive
  <2>7. \A a \in Host : Calls(a)'
    BY SMTT(30), <1>1, <2>2, <2>4, <2>5, <2>6, CallsKept DEF Changed
  <2>8. i \in DOMAIN sockets'[h] /\ DOMAIN out \subseteq Nat
    BY <2>4 DEF Changed
  <2>9. Queues'
    BY <1>1, <2>2, <2>4, <2>8, QueuesKept
  <2>10. \A a \in Host : \A j \in DOMAIN sockets'[a] : Settled(a, j)'
    BY <1>1, <2>2, <2>4, SettledKept
  <2> QED
    BY <1>2, <2>2, <2>7, <2>9, <2>10
<1>8. ASSUME NEW h \in Host, ReceiveUnknown(h) \/ Lose(h) PROVE Handshake'
  <2>1. /\ net[h] # <<>> /\ net' = [net EXCEPT ![h] = Tail(@)] /\ UNCHANGED <<sockets, app>>
    BY <1>8 DEF ReceiveUnknown, Lose
  <2>2. Queues'
    BY <1>3, <1>4, <2>1, QueuedToo
  <2>3. \A a \in Host : Calls(a)'
    BY <1>1, <1>3, <2>1, CallsKept
  <2> QED
    BY <1>2, <1>3, <2>1, <2>2, <2>3
<1>9. ASSUME NEW h \in Host, NEW t, Grown(h, t), t.state \in {"LISTEN", "SYN_SENT"},
             t.seq = Iss, ~t.left, t.sent = <<>>, t.got = <<>>, UNCHANGED app
      PROVE  /\ Forward
             /\ \A a \in Host : \A j \in DOMAIN sockets'[a] : Settled(a, j)'
             /\ \A a \in Host : Calls(a)'
  <2>1. Forward
    BY <1>9, ForwardIs
  <2>2. \A a \in Host : \A j \in DOMAIN sockets[a] : sockets'[a][j].left = sockets[a][j].left
    BY <1>9, Hosts DEF Grown
  <2> QED
    BY <1>1, <1>9, <2>1, <2>2, CallsKept, GrownSettled
<1>10. ASSUME NEW h \in Host, Connect(h) PROVE Handshake'
  <2>1. PICK t : t = NewSocket("SYN_SENT", freePort[h], ListenPort)
    OBVIOUS
  <2>2. PICK i : i = Len(sockets[h]) + 1
    OBVIOUS
  <2>3. PICK g : g = Segment(h, i, t, {"SYN"}, Iss, <<>>)
    OBVIOUS
  <2>4. Grown(h, t) /\ Queued(h, 0, <<g>>) /\ UNCHANGED app
    BY <1>10, <2>1, <2>2, <2>3, ConnectIs DEF Connect
  <2>5. t.state = "SYN_SENT" /\ t.seq = Iss /\ ~t.left /\ t.sent = <<>> /\ t.got = <<>>
    BY <2>1 DEF NewSocket
  <2>6. g.by = <<h, i>> /\ g.flags = {"SYN"} /\ g.seq = Iss
    BY <2>3 DEF Segment
  <2>7. Meant(Other(h), g, i)'
    BY <2>6, MeantIs
  <2>8. i \in DOMAIN sockets'[h]
    BY <2>2, <2>4, Places DEF Grown
  <2>9. Queues'
    BY <1>5, <1>9, <2>4, <2>5, <2>6, <2>7, <2>8, Kinds
  <2> QED
    BY <1>2, <1>9, <2>4, <2>5, <2>9
<1>11. ASSUME NEW h \in Host, Listen(h) PROVE Handshake'
  <2>1. PICK t : t = NewSocket("LISTEN", ListenPort, NoPort)
    OBVIOUS
  <2>2. Grown(h, t) /\ Queued(h, 0, <<>>) /\ UNCHANGED app
    BY <1>11, <2>1, ListenIs DEF Listen
  <2>3. t.state = "LISTEN" /\ t.seq = Iss /\ ~t.left /\ t.sent = <<>> /\ t.got = <<>>
    BY <2>1 DEF NewSocket
  <2> QED
    BY <1>2, <1>4, <1>9, <2>2, <2>3
<1>12. ASSUME NEW h \in Host, NEW i \in DOMAIN sockets[h], NEW t, Changed(h, i, t),
              Onward(sockets[h][i], t), Settled(h, i)', t.left = sockets[h][i].left
       PROVE  /\ Forward
              /\ \A a \in Host : \A j \in DOMAIN sockets'[a] : Settled(a, j)'
              /\ (\A a \in Host : app'[a] = app[a] \/ Calls(a)') => \A a \in Host : Calls(a)'
  <2>1. Forward
    BY <1>12, ForwardIs
  <2>2. \A a \in Host : \A j \in DOMAIN sockets[a] : sockets'[a][j].left = sockets[a][j].left
    BY <1>12 DEF Changed
  <2> QED
    BY <1>1, <1>12, <2>1, <2>2, CallsKept, SettledKept
<1>13. ASSUME NEW h \in Host, NEW i \in DOMAIN sockets[h], Bind(h, i) PROVE Handshake'
  <2>1. PICK s \in SocketType : s = sockets[h][i]
    BY Places
  <2>2. PICK t : t = [s EXCEPT !.handler = TRUE]
    OBVIOUS
  <2>3. /\ t.lport = s.lport /\ t.peer = s.peer /\ t.left = s.left /\ t.state = s.state
        /\ t.seq = s.seq /\ t.sent = s.sent /\ t.got = s.got
    BY <2>2 DEF SocketType
  <2>4. Changed(h, i, t) /\ Queued(h, 0, <<>>) /\ UNCHANGED app
    BY <1>13, <2>1, <2>2, BindIs DEF Made, Bind
  <2>5. Onward(s, t)
    BY <2>3 DEF Onward
  <2>6. Mutual(h, i) => Mutual(h, i)'
    BY <2>1, <2>4, <2>5, ForwardIs, MutualKept
  <2>7. sockets'[h][i] = t /\ Settled(h, i)
    BY <1>1, <2>4 DEF Changed
  <2>8. Settled(h, i)'
    BY <2>1, <2>3, <2>6, <2>7 DEF Settled
  <2> QED
    BY <1>2, <1>4, <1>12, <2>1, <2>3, <2>4, <2>5, <2>8
<1>14. ASSUME NEW h \in Host, NEW i \in DOMAIN sockets[h], CallSend(h, i) PROVE Handshake'
  <2>1. /\ app' = [app EXCEPT ![h] = [call |-> "spin", on |-> i]] /\ ~sockets[h][i].left
        /\ UNCHANGED <<sockets, net>>
    BY <1>14 DEF CallSend
  <2>2. app'[h] = [call |-> "spin", on |-> i] /\ \A a \in Host \ {h} : app'[a] = app[a]
    BY <2>1 DEF Types
  <2>3. Calls(h)'
    BY <2>1, <2>2 DEF Calls
  <2>4. \A a \in Host : Calls(a)'
    BY <1>1, <1>3, <2>1, <2>2, <2>3, CallsKept
  <2> QED
    BY <1>2, <1>3, <1>4, <2>1, <2>4, QueuedToo
<1>15. ASSUME NEW h \in Host, SpinEnds(h) PROVE Handshake'
  <2>1. /\ app[h].call = "spin" /\ app' = [app EXCEPT ![h].call = "send"]
        /\ sockets[h][app[h].on].state = "ESTABLISHED" /\ UNCHANGED <<sockets, net>>
    BY <1>15 DEF SpinEnds
  <2>2. app \in [Host -> {Idle} \cup CallType]
    BY DEF Types
  <2>3. app[h] \in CallType /\ app[h] # Idle
    BY <2>1, <2>2 DEF Idle
  <2>4. app'[h].call = "send" /\ app'[h].on = app[h].on /\ \A a \in Host \ {h} : app'[a] = app[a]
    <3>1. app'[h] = [app[h] EXCEPT !.call = "send"]
      BY <2>1, <2>2
    <3> QED
      BY <2>1, <2>2, <2>3, <3>1 DEF CallType
  <2>5. PICK i \in DOMAIN sockets[h] : i = app[h].on
    BY <2>3 DEF Types
  <2>6. Mutual(h, i) /\ ~sockets[h][i].left
    BY <1>1, <2>1, <2>5 DEF Settled, Calls
  <2>7. Mutual(h, i)'
    BY <1>3, <2>1, <2>6, MutualKept
  <2>8. Calls(h)'
    BY <2>1, <2>4, <2>5, <2>6, <2>7 DEF Calls
  <2>9. \A a \in Host : Calls(a)'
    BY <1>1, <1>3, <2>1, <2>4, <2>8, CallsKept
  <2> QED
    BY <1>2, <1>3, <1>4, <2>1, <2>9, QueuedToo
<1>16. ASSUME NEW h \in Host, Transmit(h) PROVE Handshake'
  <2>1. app' = [app EXCEPT ![h] = Idle] /\ app[h].call = "send"
    BY <1>16 DEF Transmit
  <2>2. PICK i \in DOMAIN sockets[h], p \in Payload, wire \in Bytes :
           /\ app[h].on = i /\ wire \in Arrivals(p)
           /\ Made(h, i, [sockets[h][i] EXCEPT !.seq = Plus(@, Len(p)), !.sent = Append(@, p)],
                   <<Segment(h, i, sockets[h][i], {"PSH", "ACK"}, sockets[h][i].seq, wire)>>)
    BY <1>16, TransmitIs
  <2>3. PICK s \in SocketType : s = sockets[h][i]
    BY Places
  <2>4. PICK t : t = [s EXCEPT !.seq = Plus(s.seq, Len(p)), !.sent = Append(s.sent, p)]
    OBVIOUS
  <2>5. PICK g : g = Segment(h, i, s, {"PSH", "ACK"}, s.seq, wire)
    OBVIOUS
  <2>6. Changed(h, i, t) /\ Queued(h, 0, <<g>>)
    BY <2>2, <2>3, <2>4, <2>5 DEF Made
  <2>7. /\ t.lport = s.lport /\ t.peer = s.peer /\ t.left = s.left /\ t.state = s.state
        /\ t.got = s.got
    BY <2>4 DEF SocketType
  <2>8. Onward(s, t)
    BY <2>7 DEF Onward
  <2>9. Mutual(h, i) /\ ~s.left
    BY <1>1, <2>1, <2>2, <2>3 DEF Calls
  <2>10. Mutual(h, i)'
    BY <2>3, <2>6, <2>8, <2>9, ForwardIs, MutualKept
  <2>11. sockets'[h][i] = t /\ Settled(h, i) /\ i \in DOMAIN sockets'[h]
    BY <1>1, <2>6 DEF Changed
  <2>12. s.state # "SYN_SENT"
    <3>1. s.peer # Nobody
      BY <2>3, <2>9 DEF Mutual, Nobody
    <3> QED
      BY <2>3, <3>1, Unpaired
  <2>13. Settled(h, i)'
    BY <2>3, <2>7, <2>10, <2>11, <2>12 DEF Settled
  <2>14. g.by = <<h, i>> /\ g.flags = {"PSH", "ACK"}
    BY <2>5 DEF Segment
  <2>15. Meant(Other(h), g, i)'
    BY <2>10, <2>14, MeantIs
  <2>16. Forward
    BY <2>3, <2>6, <2>8, ForwardIs
  <2>17. Queues'
    BY <1>5, <2>3, <2>6, <2>9, <2>11, <2>14, <2>15, <2>16
  <2> QED
    BY <1>2, <1>6, <1>12, <2>1, <2>3, <2>6, <2>7, <2>8, <2>13, <2>17
<1>17. ASSUME NEW h \in Host, SendFin(h) PROVE Handshake'
  <2>1. app' = [app EXCEPT ![h] = Idle] /\ app[h].call = "disconnect"
    BY <1>17 DEF SendFin
  <2>2. PICK i \in DOMAIN sockets[h] :
           /\ app[h].on = i
           /\ Made(h, i, [sockets[h][i] EXCEPT !.seq = Plus(@, 1)],
                   <<Segment(h, i, sockets[h][i], {"FIN", "ACK"}, sockets[h][i].seq, <<>>)>>)
    BY <1>17, SendFinIs
  <2>3. PICK s \in SocketType : s = sockets[h][i]
    BY Places
  <2>4. PICK t : t = [s EXCEPT !.seq = Plus(s.seq, 1)]
    OBVIOUS
  <2>5. PICK g : g = Segment(h, i, s, {"FIN", "ACK"}, s.seq, <<>>)
    OBVIOUS
  <2>6. Changed(h, i, t) /\ Queued(h, 0, <<g>>)
    BY <2>2, <2>3, <2>4, <2>5 DEF Made
  <2>7. /\ t.lport = s.lport /\ t.peer = s.peer /\ t.left = s.left /\ t.state = s.state
        /\ t.sent = s.sent /\ t.got = s.got
    BY <2>4 DEF SocketType
  <2>8. Onward(s, t)
    BY <2>7 DEF Onward
  <2>9. s.left
    BY <1>1, <2>1, <2>2, <2>3 DEF Calls
  <2>10. Mutual(h, i) => Mutual(h, i)'
    BY <2>3, <2>6, <2>8, ForwardIs, MutualKept
  <2>11. sockets'[h][i] = t /\ Settled(h, i) /\ i \in DOMAIN sockets'[h]
    BY <1>1, <2>6 DEF Changed
  <2>12. s.state \in {"FIN_WAIT1", "FIN_WAIT2", "CLOSED"}
    BY <2>3, <2>9, <2>11 DEF Settled
  <2>13. Settled(h, i)'
    BY <2>3, <2>7, <2>10, <2>11, <2>12 DEF Settled
  <2>14. g.by = <<h, i>> /\ g.flags = {"FIN", "ACK"}
    BY <2>5 DEF Segment
  <2>15. Meant(Other(h), g, i)'
    BY <2>7, <2>9, <2>11, <2>12, <2>14, MeantIs
  <2>16. Forward
    BY <2>3, <2>6, <2>8, ForwardIs
  <2>17. Queues'
    BY <1>5, <2>6, <2>11, <2>14, <2>15, <2>16, Kinds
  <2> QED
    BY <1>2, <1>6, <1>12, <2>1, <2>3, <2>6, <2>7, <2>8, <2>13, <2>17
<1>18. ASSUME NEW h \in Host, NEW i \in DOMAIN sockets[h], CallDisconnect(h, i)
       PROVE  Handshake'
  <2>1. /\ app[h] = Idle /\ app' = [app EXCEPT ![h] = [call |-> "disconnect", on |-> i]]
        /\ sockets[h][i].state # "LISTEN"
    BY <1>18 DEF CallDisconnect
  <2>2. PICK s \in SocketType : s = sockets[h][i]
    BY Places
  <2>3. PICK t : t = [s EXCEPT !.state = "FIN_WAIT1", !.left = TRUE]
    OBVIOUS
  <2>4. Changed(h, i, t) /\ Queued(h, 0, <<>>)
    BY <1>18, <2>2, <2>3, DisconnectIs DEF Made
  <2>5. /\ t.lport = s.lport /\ t.peer = s.peer /\ t.left /\ t.state = "FIN_WAIT1"
        /\ t.sent = s.sent /\ t.got = s.got
    BY <2>3 DEF SocketType
  <2>6. Forward
    <3>1. Onward(s, t)
      BY <2>5 DEF Onward
    <3> QED
      BY <2>2, <2>4, <3>1, ForwardIs
  <2>7. Mutual(h, i) => Mutual(h, i)'
    BY <2>6, MutualKept
  <2>8. sockets'[h][i] = t /\ Settled(h, i)
    BY <1>1, <2>4 DEF Changed
  <2>9. Settled(h, i)'
    BY <2>2, <2>5, <2>7, <2>8 DEF Settled
  <2>10. \A a \in Host : \A j \in DOMAIN sockets'[a] : Settled(a, j)'
    BY <1>1, <2>4, <2>6, <2>9, SettledKept
  <2>11. app'[h] = [call |-> "disconnect", on |-> i] /\ \A a \in Host \ {h} : app'[a] = app[a]
    BY <2>1 DEF Types
  <2>12. ASSUME NEW a \in Host PROVE Calls(a)'
    <3>1. CASE a = h
      BY <2>5, <2>8, <2>11, <3>1 DEF Calls
    <3>2. CASE a # h /\ app[a] = Idle
      BY <2>11, <3>2 DEF Calls, Idle
    <3>3. CASE a # h /\ app[a] # Idle
      <4>1. PICK b \in DOMAIN sockets[a] : b = app[a].on
        BY <3>3 DEF Types
      <4>2. sockets'[a][b] = sockets[a][b] /\ app'[a] = app[a]
        BY <2>4, <2>11, <3>3 DEF Changed
      <4>3. Mutual(a, b) => Mutual(a, b)'
        BY <2>6, MutualKept
      <4> QED
        BY <1>1, <4>1, <4>2, <4>3 DEF Calls
    <3> QED
      BY <3>1, <3>2, <3>3
  <2> QED
    BY <1>2, <1>4, <2>4, <2>6, <2>10, <2>12
<1>19. CASE UNCHANGED vars
  <2>1. UNCHANGED <<sockets, app, net>>
    BY <1>19 DEF vars
  <2>2. PICK h \in Host : TRUE
    BY TcpAssumption
  <2>3. Queues'
    BY <1>3, <1>4, <2>1, <2>2, QueuedToo
  <2>4. \A a \in Host : Calls(a)'
    BY <1>1, <1>3, <2>1, CallsKept
  <2> QED
    BY <1>2, <1>3, <2>1, <2>3, <2>4
<1> QED
  BY <1>7, <1>8, <1>10, <1>11, <1>13, <1>14, <1>15, <1>16, <1>17, <1>18, <1>19 DEF Next

(* Arithmetic modulo n.                                                    *)
LEMMA Remainder ==
    ASSUME NEW n \in Nat \ {0}, NEW x \in Int
    PROVE  \E q \in Int : x = q * n + (x % n) /\ x % n \in 0 .. n - 1
<1>1. x = (x \div n) * n + (x % n)
  OBVIOUS
<1>2. x \div n \in Int
  OBVIOUS
<1>3. x % n \in 0 .. n - 1
  OBVIOUS
<1> QED
  BY <1>1, <1>2, <1>3

(* A multiple of n is 0 or no nearer to 0 than n.                          *)
LEMMA Multiples ==
    ASSUME NEW n \in Nat \ {0}, NEW d \in Int
    PROVE  /\ d >= 1 => d * n >= n
           /\ d <= 0 - 1 => d * n <= 0 - n
<1>1. CASE d >= 1
  <2>1. PICK k \in Nat : d = k + 1
    BY <1>1
  <2>2. d * n = k * n + n /\ k * n >= 0
    BY <2>1
  <2> QED
    BY <1>1, <2>2
<1>2. CASE d <= 0 - 1
  <2>1. PICK k \in Nat : d = 0 - (k + 1)
    <3>1. 0 - d - 1 \in Nat /\ d = 0 - ((0 - d - 1) + 1)
      BY <1>2
    <3> QED
      BY <3>1
  <2>2. d * n = 0 - (k * n + n) /\ k * n >= 0
    BY <2>1
  <2> QED
    BY <1>2, <2>2
<1> QED
  BY <1>1, <1>2

(* Numbers less than n apart that leave the same rest are equal.           *)
LEMMA SameRest ==
    ASSUME NEW n \in Nat \ {0}, NEW x \in Int, NEW y \in Int, x % n = y % n,
           x - y < n, y - x < n
    PROVE  x = y
<1>1. PICK q \in Int : x = q * n + (x % n) /\ x % n \in 0 .. n - 1
  BY Remainder
<1>2. PICK p \in Int : y = p * n + (y % n)
  BY Remainder
<1>3. PICK r \in Int : r = x % n
  BY <1>1
<1>4. y - x = (p - q) * n
  BY <1>1, <1>2, <1>3
<1>5. PICK d \in Int : d = p - q
  OBVIOUS
<1>6. d * n < n /\ d * n > 0 - n
  BY <1>4, <1>5
<1>7. d = 0
  BY <1>6, Multiples
<1> QED
  BY <1>1, <1>2, <1>5, <1>7

(* A sum may be cut to n before or after.                                  *)
LEMMA RestOfSum ==
    ASSUME NEW n \in Nat \ {0}, NEW x \in Int, NEW k \in Int
    PROVE  ((x % n) + k) % n = (x + k) % n
<1>1. PICK q \in Int : x = q * n + (x % n)
  BY Remainder
<1>2. PICK r \in Int : r = x % n
  BY Remainder
<1>3. PICK v \in Int, w \in Int : v = r + k /\ w = x + k
  OBVIOUS
<1>4. PICK p \in Int : v = p * n + (v % n) /\ v % n \in 0 .. n - 1
  BY Remainder
<1>5. PICK o \in Int : w = o * n + (w % n) /\ w % n \in 0 .. n - 1
  BY Remainder
<1>6. PICK a \in 0 .. n - 1, b \in 0 .. n - 1 : a = v % n /\ b = w % n
  BY <1>4, <1>5
<1>7. PICK d \in Int : d = o - q - p
  OBVIOUS
<1>8. d * n = o * n - q * n - p * n
  BY <1>7
<1>9. a - b = d * n
  <2>1. PICK e \in Int, f \in Int, g \in Int : e = o * n /\ f = q * n /\ g = p * n
    OBVIOUS
  <2>2. x = f + r /\ v = g + a /\ w = e + b
    BY <1>1, <1>2, <1>4, <1>5, <1>6, <2>1
  <2>3. a - b = e - f - g
    BY <1>3, <2>2
  <2> QED
    BY <1>8, <2>1, <2>3
<1>10. d * n < n /\ d * n > 0 - n
  BY <1>9
<1>11. d = 0
  BY <1>10, Multiples
<1>12. a = b
  BY <1>9, <1>11
<1> QED
  BY <1>2, <1>3, <1>6, <1>12

----------------------------------------------------------------------------
(* The stream.  No payload is empty, and none is counted for longer than   *)
(* it is, which a minimal frame's trailer could bring about, and what lies *)
(* behind a frame whose totalLength is a multiple of 256 ...               *)
CountedRight ==
    \A p \in Payload : Len(p) > 0 /\ \A w \in Arrivals(p) : Advance(w) <= Len(p)

(* ... and a host does not send so much that sequence numbers return.      *)
Covers(m) ==
    /\ \A p \in Payload : Len(p) <= m
    /\ MaxSends * (m + HeaderBytes) < SeqSpace

NoReturn == \E m \in Nat : Covers(m)

Longest == CHOOSE m \in Nat : Covers(m)

Written(e) == IF Exists(e) THEN Socket(e).sent ELSE <<>>
IsLeft(e) == Exists(e) /\ Socket(e).left
IsData(g) == g.flags = {"PSH", "ACK"}

(* The numbers of what a socket sent, and of what it sends next, before    *)
(* they are cut to 32 bits.                                                *)
Numbered(q, sent) ==
    /\ Len(q) = Len(sent) + 1 /\ q[1] = Iss + 1
    /\ \A n \in DOMAIN sent : q[n + 1] = q[n] + Len(sent[n])
    /\ \A x, y \in DOMAIN q : x < y => q[x] < q[y]
    /\ \A x \in DOMAIN q : q[x] <= Iss + 1 + (x - 1) * Longest

(* Segment g is the x-th message of its sender.                            *)
Carries(pos, g, x) ==
    /\ x \in DOMAIN Written(g.by)
    /\ g.seq = pos[g.by][x] % SeqSpace
    /\ g.data \in Arrivals(Written(g.by)[x])

(* No more data comes from f.                                              *)
Ended(a, f) ==
    IsLeft(f) /\ \A n \in DOMAIN net[a] : IsData(net[a][n]) => net[a][n].by # f

(* acknowledgementNumber is at most that of the next message, and below it *)
(* at most by what was counted short.                                      *)
Expects(q, s) ==
    \E b \in Int :
       /\ s.ack = b % SeqSpace
       /\ b <= q[Len(s.got) + 1] /\ b >= Iss + 1 - Len(s.got) * HeaderBytes

Sender(pos, e) ==
    LET s == Socket(e) IN
    Exists(e) /\ s.peer # Nobody /\ ~s.left => s.seq = pos[e][Len(s.sent) + 1] % SeqSpace

Receiver(pos, e) ==
    LET s == Socket(e) IN
    Exists(e) /\ s.peer # Nobody =>
       /\ Len(s.got) <= Len(Written(s.peer))
       /\ \/ s.left /\ s.state = "CLOSED"
          \/ Ended(e[1], s.peer)
          \/ Expects(pos[s.peer], s)
       /\ \A n \in DOMAIN net[e[1]] : \A x \in Nat :
             /\ IsData(net[e[1]][n]) /\ net[e[1]][n].by = s.peer
             /\ Carries(pos, net[e[1]][n], x)
             => Len(s.got) < x

Transit(pos, a) ==
    /\ \A n \in DOMAIN net[a] : IsData(net[a][n]) => \E x \in Nat : Carries(pos, net[a][n], x)
    /\ \A m, n \in DOMAIN net[a] :
          m < n /\ IsData(net[a][m]) /\ IsData(net[a][n]) /\ net[a][m].by = net[a][n].by
          => \A x, y \in Nat : Carries(pos, net[a][m], x) /\ Carries(pos, net[a][n], y) => x < y

Streams(pos) ==
    /\ pos \in [Endpoint -> Seq(Nat)]
    /\ \A e \in Endpoint : /\ Numbered(pos[e], Written(e))
                           /\ Sender(pos, e)
                           /\ Receiver(pos, e)
    /\ \A a \in Host : Transit(pos, a)

InStream == \E pos : Streams(pos)

(* What was sent and what is sent next keeps its number.                   *)
SameNumbers(pos, new) ==
    \A e \in Endpoint : \A x \in 1 .. Len(Written(e)) + 1 : new[e][x] = pos[e][x]

(* No host sends more than it may.                                         *)
Fits ==
    \A h \in Host :
       /\ \A i \in DOMAIN sockets[h] : Len(sockets[h][i].sent) <= MaxSends
       /\ app[h].call \in {"spin", "send"} => Len(sockets[h][app[h].on].sent) < MaxSends

----------------------------------------------------------------------------
(* The bound that NoReturn promises.                                       *)
LEMMA LongestIs == ASSUME NoReturn PROVE Longest \in Nat /\ Covers(Longest)
BY DEF NoReturn, Longest

(* x messages and c headers are no more than the most that is ever sent.   *)
LEMMA Spread ==
    ASSUME NEW m \in Nat, NEW k \in Nat, NEW top \in Nat, NEW x \in Nat, NEW c \in Nat,
           x <= top, c <= top
    PROVE  /\ x * m \in Nat /\ c * k \in Nat /\ top * (m + k) \in Nat
           /\ x * m + c * k <= top * (m + k)
<1>1. PICK d \in Nat, e \in Nat : top = x + d /\ top = c + e
  <2>1. top - x \in Nat /\ top - c \in Nat
    OBVIOUS
  <2> QED
    BY <2>1
<1>2. \A y, z \in Nat : y * z \in Nat
  OBVIOUS
<1>3. top * m = x * m + d * m
  BY <1>1
<1>4. top * k = c * k + e * k
  BY <1>1
<1>5. top * (m + k) = top * m + top * k
  OBVIOUS
<1>6. PICK f \in Nat, g \in Nat, o \in Nat, p \in Nat :
         f = x * m /\ g = c * k /\ o = d * m /\ p = e * k
  BY <1>2
<1>7. top * (m + k) = f + o + (g + p)
  BY <1>3, <1>4, <1>5, <1>6
<1> QED
  BY <1>6, <1>7

(* Two numbers within such a distance of the first are not n apart.        *)
LEMMA Near ==
    ASSUME NEW n \in Nat \ {0}, NEW first \in Nat, NEW f \in Nat, NEW g \in Nat, NEW o \in Nat,
           NEW v \in Nat, NEW w \in Nat, NEW b \in Int, v <= first + f, b >= first - g,
           b <= w, w <= v, f + g <= o, o < n
    PROVE  v - b < n /\ b - v < n
OBVIOUS

(* A number of the past that is equal, cut to 32 bits, to that of a later  *)
(* message is that message's number, and the message is the next.          *)
LEMMA Window ==
    ASSUME NoReturn, NEW q \in Seq(Nat), NEW sent \in Sent, Numbered(q, sent),
           Len(sent) <= MaxSends, NEW x \in DOMAIN sent, NEW c \in Nat, c < x,
           NEW b \in Int, b <= q[c + 1], b >= Iss + 1 - c * HeaderBytes,
           b % SeqSpace = q[x] % SeqSpace
    PROVE  x = c + 1 /\ b = q[x]
<1>1. PICK m \in Nat : m = Longest
  BY LongestIs
<1>2. PICK l \in Nat : l = Len(sent) /\ DOMAIN sent = 1 .. l /\ DOMAIN q = 1 .. l + 1
  BY DEF Numbered, Sent
<1>3. PICK k \in Nat, n \in Nat \ {0}, top \in Nat, first \in Nat :
         k = HeaderBytes /\ n = SeqSpace /\ top = MaxSends /\ first = Iss + 1
  BY TcpAssumption
<1>4. PICK y \in Nat : x = y + 1 /\ y + 1 <= l /\ l <= top /\ c <= y
  <2>1. x \in 1 .. l /\ l <= top
    BY <1>2, <1>3
  <2>2. x - 1 \in Nat /\ x = (x - 1) + 1
    BY <2>1
  <2> QED
    BY <2>1, <2>2
<1>5. x \in DOMAIN q /\ c + 1 \in DOMAIN q
  BY <1>2, <1>4
<1>6. PICK v \in Nat, w \in Nat : v = q[x] /\ w = q[c + 1]
  BY <1>5
<1>7. v <= first + y * m
  <2>1. v <= Iss + 1 + (x - 1) * m
    BY <1>1, <1>5, <1>6 DEF Numbered
  <2>2. x - 1 = y
    BY <1>4
  <2> QED
    BY <1>3, <2>1, <2>2
<1>8. c < y => w < v
  <2>1. c < y => c + 1 < x
    BY <1>4
  <2> QED
    BY <1>5, <1>6, <2>1 DEF Numbered
<1>9. c = y => w = v
  BY <1>4, <1>6
<1>10. w <= v /\ (c = y \/ w < v)
  BY <1>4, <1>8, <1>9
<1>11. top * (m + k) < n
  BY <1>1, <1>3, LongestIs DEF Covers
<1>12. b - v < n /\ v - b < n
  <2>1. PICK f \in Nat, g \in Nat, o \in Nat :
           f = y * m /\ g = c * k /\ o = top * (m + k) /\ f + g <= o
    <3>1. y <= top /\ c <= top
      BY <1>2, <1>3, <1>4
    <3>2. /\ y * m \in Nat /\ c * k \in Nat /\ top * (m + k) \in Nat
          /\ y * m + c * k <= top * (m + k)
      BY <1>1, <1>3, <1>4, <3>1, Spread
    <3> QED
      BY <3>2
  <2>2. b >= first - g /\ b <= w
    <3>1. c * HeaderBytes = g /\ Iss \in Nat /\ g \in Nat
      BY <1>3, <2>1, TcpAssumption
    <3>2. b >= Iss + 1 - g
      BY <3>1
    <3>3. Iss + 1 - g = first - g
      BY <1>3, <3>1
    <3> QED
      BY <1>6, <3>2, <3>3
  <2>3. v <= first + f /\ o < n
    BY <1>7, <1>11, <2>1
  <2>4. f + g <= o /\ f \in Nat /\ g \in Nat /\ o \in Nat
    BY <2>1
  <2> QED
    BY <1>3, <1>6, <1>10, <2>2, <2>3, <2>4, Near
<1>13. b % n = v % n
  BY <1>3, <1>6
<1>14. b = v
  BY SMTT(30), <1>3, <1>6, <1>12, <1>13, SameRest
<1> QED
  BY <1>4, <1>6, <1>10, <1>14

(* No two messages of a socket have the same number.                       *)
LEMMA OneNumber ==
    ASSUME NoReturn, NEW q \in Seq(Nat), NEW sent \in Sent, Numbered(q, sent),
           Len(sent) <= MaxSends, NEW x \in DOMAIN sent, NEW y \in DOMAIN sent,
           q[x] % SeqSpace = q[y] % SeqSpace
    PROVE  x = y
<1>1. ASSUME NEW v \in DOMAIN sent, NEW w \in DOMAIN sent, v < w,
             q[v] % SeqSpace = q[w] % SeqSpace
      PROVE  FALSE
  <2>1. PICK c \in Nat : v = c + 1
    <3>1. v \in Nat /\ v >= 1
      BY DEF Sent
    <3> QED
      BY <3>1
  <2>2. PICK b \in Nat : b = q[v] /\ b >= Iss + 1
    <3>1. Len(q) = Len(sent) + 1 /\ Len(sent) \in Nat
      BY DEF Numbered, Sent
    <3>2. 1 \in DOMAIN q /\ v \in DOMAIN q /\ v >= 1
      BY <3>1
    <3>3. v = 1 \/ 1 < v
      BY <3>2
    <3>4. v = 1 \/ q[1] < q[v]
      BY <3>2, <3>3 DEF Numbered
    <3>5. PICK b \in Nat : b = q[v]
      BY <3>2
    <3>6. q[1] = Iss + 1 /\ Iss \in Nat
      BY TcpAssumption DEF Numbered
    <3>7. b >= Iss + 1
      BY <3>4, <3>5, <3>6
    <3> QED
      BY <3>5, <3>7
  <2>3. c * HeaderBytes >= 0 /\ c * HeaderBytes \in Int /\ Iss \in Nat
    <3>1. HeaderBytes \in Nat /\ Iss \in Nat
      BY TcpAssumption
    <3> QED
      BY SMTT(30), <3>1
  <2>4. b >= Iss + 1 - c * HeaderBytes
    BY SMTT(30), <2>2, <2>3
  <2>5. c < w /\ b <= q[c + 1] /\ b % SeqSpace = q[w] % SeqSpace
    BY <1>1, <2>1, <2>2 DEF Sent
  <2>6. w = c + 1
    BY SMTT(30), <2>2, <2>4, <2>5, Window
  <2> QED
    BY <1>1, <2>1, <2>6
<1>2. x \in Nat /\ y \in Nat
  BY DEF Sent
<1> QED
  BY <1>1, <1>2

----------------------------------------------------------------------------
(* A socket by its host and number.                                        *)
LEMMA At ==
    ASSUME Types, NEW h \in Host, NEW i \in DOMAIN sockets[h]
    PROVE  /\ <<h, i>> \in Endpoint /\ Exists(<<h, i>>) /\ Socket(<<h, i>>) = sockets[h][i]
           /\ Written(<<h, i>>) = sockets[h][i].sent
           /\ IsLeft(<<h, i>>) = sockets[h][i].left
<1>1. i \in 1 .. MaxSockets /\ sockets[h][i].left \in BOOLEAN
  BY Places DEF SocketType, Flag
<1>2. <<h, i>> \in Endpoint
  BY <1>1 DEF Endpoint
<1>3. Exists(<<h, i>>) /\ Socket(<<h, i>>) = sockets[h][i]
  BY DEF Exists, Socket
<1> QED
  BY <1>1, <1>2, <1>3 DEF Written, IsLeft

(* An endpoint is a host and a number.                                     *)
LEMMA Named ==
    ASSUME NEW e \in Endpoint
    PROVE  \E h \in Host, i \in 1 .. MaxSockets : e = <<h, i>> /\ e[1] = h /\ e[2] = i
BY DEF Endpoint

(* The peer of a socket is a socket.                                       *)
LEMMA PeerIs ==
    ASSUME Types, Wires, NEW h \in Host, NEW i \in DOMAIN sockets[h],
           sockets[h][i].peer # Nobody
    PROVE  \E j \in DOMAIN sockets[Other(h)] : sockets[h][i].peer = <<Other(h), j>>
<1>1. Linked(h, i)
  BY DEF Wires
<1> QED
  BY <1>1 DEF Linked, Waiter, Answered, Calling

(* Where the sender of a segment is.                                       *)
LEMMA SenderIs ==
    ASSUME Types, Wires, NEW a \in Host, NEW n \in DOMAIN net[a]
    PROVE  \E j \in DOMAIN sockets[Other(a)] : net[a][n].by = <<Other(a), j>>
BY DEF Wires, Genuine, From

(* A step that takes at most one segment away and sends no data.           *)
Quietly(h, d, out) ==
    /\ Queued(h, d, out) /\ DOMAIN out \subseteq Nat
    /\ \A x \in DOMAIN out : ~IsData(out[x])
    /\ \A e \in Endpoint : Written(e)' = Written(e) /\ (IsLeft(e) => IsLeft(e)')

(* Data that is on its way after such a step was so before it ...          *)
LEMMA OldData ==
    ASSUME Types, Types', NEW h \in Host, NEW d \in {0, 1}, NEW out, Quietly(h, d, out),
           NEW a \in Host, NEW n \in DOMAIN net'[a], IsData(net'[a][n])
    PROVE  \E m \in DOMAIN net[a] : /\ net'[a][n] = net[a][m]
                                    /\ m = IF a = h THEN n + d ELSE n
<1>1. CASE \E x \in DOMAIN out : net'[a][n] = out[x]
  <2>1. PICK x \in DOMAIN out : net'[a][n] = out[x]
    BY <1>1
  <2>2. ~IsData(out[x])
    BY DEF Quietly
  <2> QED
    BY <2>1, <2>2 DEF IsData
<1>2. CASE ~\E x \in DOMAIN out : net'[a][n] = out[x]
  BY <1>2, Positions DEF Quietly
<1> QED
  BY <1>1, <1>2

(* ... and is the same message of the same socket.                         *)
LEMMA CarriesSame ==
    ASSUME NEW h, NEW d, NEW out, Quietly(h, d, out), NEW pos, NEW g, g.by \in Endpoint, NEW x
    PROVE  Carries(pos, g, x)' <=> Carries(pos, g, x)
BY DEF Carries, Quietly

(* Who has ended sends no more.                                            *)
LEMMA EndedKept ==
    ASSUME Types, Types', NEW h \in Host, NEW d \in {0, 1}, NEW out, Quietly(h, d, out),
           NEW a \in Host, NEW f \in Endpoint, Ended(a, f)
    PROVE  Ended(a, f)'
<1>1. IsLeft(f)'
  BY DEF Ended, Quietly
<1>2. ASSUME NEW n \in DOMAIN net'[a], IsData(net'[a][n]) PROVE net'[a][n].by # f
  <2>1. PICK m \in DOMAIN net[a] : net'[a][n] = net[a][m]
    BY <1>2, OldData
  <2> QED
    BY <1>2, <2>1 DEF Ended, IsData
<1> QED
  BY <1>1, <1>2 DEF Ended, IsData

(* A receiver in a step that gives it nothing, if it still waits for the   *)
(* next message then, or has no reason to.                                 *)
LEMMA ReceiverKept ==
    ASSUME Types, Types', NEW h \in Host, NEW d \in {0, 1}, NEW out, Quietly(h, d, out),
           NEW pos, NEW e \in Endpoint, Exists(e), Exists(e)', Receiver(pos, e),
           NEW s \in SocketType, s = Socket(e), NEW t, t = Socket(e)',
           t.peer = s.peer, t.got = s.got,
           s.peer # Nobody => \/ t.left /\ t.state = "CLOSED"
                              \/ Ended(e[1], s.peer)
                              \/ Expects(pos[s.peer], t)
    PROVE  Receiver(pos, e)'
<1> SUFFICES ASSUME s.peer # Nobody PROVE Receiver(pos, e)'
  BY DEF Receiver
<1>1. PICK f \in Endpoint : f = s.peer
  BY DEF SocketType, Peers
<1>2. PICK a \in Host : a = e[1]
  BY Named
<1>3. Len(t.got) <= Len(Written(f)')
  BY <1>1 DEF Receiver, Quietly
<1>4. (t.left /\ t.state = "CLOSED") \/ Ended(a, f)' \/ Expects(pos[f], t)
  BY <1>1, <1>2, EndedKept
<1>5. ASSUME NEW n \in DOMAIN net'[a], NEW x \in Nat, NEW g, g = net'[a][n], IsData(g),
             g.by = f, Carries(pos, g, x)'
      PROVE  Len(t.got) < x
  <2>1. PICK m \in DOMAIN net[a] : g = net[a][m]
    BY <1>5, OldData
  <2>2. Carries(pos, g, x)
    BY <1>5, CarriesSame
  <2> QED
    BY <1>1, <1>2, <1>5, <2>1, <2>2 DEF Receiver
<1> QED
  <2>1. ASSUME NEW n \in DOMAIN net'[a], NEW x \in Nat,
               (IsData(net[a][n]) /\ net[a][n].by = f /\ Carries(pos, net[a][n], x))'
        PROVE  Len(t.got) < x
    <3>1. PICK g : g = net'[a][n]
      OBVIOUS
    <3>2. IsData(g) /\ g.by = f /\ Carries(pos, g, x)'
      BY <2>1, <3>1 DEF IsData, Carries
    <3> QED
      BY <1>5, <3>1, <3>2
  <2> QED
    BY <1>1, <1>2, <1>3, <1>4, <2>1 DEF Receiver

(* The order of the data on its way.                                       *)
LEMMA TransitKept ==
    ASSUME Types, Types', Wires, NEW h \in Host, NEW d \in {0, 1}, NEW out,
           Quietly(h, d, out), NEW pos, NEW a \in Host, Transit(pos, a)
    PROVE  Transit(pos, a)'
<1>1. ASSUME NEW n \in DOMAIN net'[a], IsData(net'[a][n])
      PROVE  \E m \in DOMAIN net[a] :
                /\ net'[a][n] = net[a][m] /\ m = IF a = h THEN n + d ELSE n
                /\ \A x \in Nat : Carries(pos, net[a][n], x)' <=> Carries(pos, net[a][m], x)
  <2>1. PICK m \in DOMAIN net[a] : net'[a][n] = net[a][m] /\ m = IF a = h THEN n + d ELSE n
    BY <1>1, OldData
  <2>2. PICK g : g = net[a][m]
    OBVIOUS
  <2>3. g.by \in Endpoint
    BY <2>2, Places DEF SegmentType
  <2>4. \A x \in Nat : Carries(pos, g, x)' <=> Carries(pos, g, x)
    BY <2>3, CarriesSame
  <2>5. \A x \in Nat : Carries(pos, net[a][n], x)' <=> Carries(pos, g, x)'
    BY <2>1, <2>2 DEF Carries
  <2> QED
    BY <2>1, <2>2, <2>4, <2>5
<1>2. ASSUME NEW n \in DOMAIN net'[a], IsData(net'[a][n])
      PROVE  \E x \in Nat : Carries(pos, net[a][n], x)'
  <2>1. PICK m \in DOMAIN net[a] :
           /\ net'[a][n] = net[a][m]
           /\ \A x \in Nat : Carries(pos, net[a][n], x)' <=> Carries(pos, net[a][m], x)
    BY <1>1, <1>2
  <2> QED
    BY <1>2, <2>1 DEF Transit, IsData
<1>3. ASSUME NEW m \in DOMAIN net'[a], NEW n \in DOMAIN net'[a], m < n,
             IsData(net'[a][m]), IsData(net'[a][n]), net'[a][m].by = net'[a][n].by,
             NEW x \in Nat, NEW y \in Nat,
             Carries(pos, net[a][m], x)', Carries(pos, net[a][n], y)'
      PROVE  x < y
  <2>1. PICK v \in DOMAIN net[a] :
           /\ net'[a][m] = net[a][v] /\ v = IF a = h THEN m + d ELSE m
           /\ Carries(pos, net[a][v], x)
    BY <1>1, <1>3
  <2>2. PICK w \in DOMAIN net[a] :
           /\ net'[a][n] = net[a][w] /\ w = IF a = h THEN n + d ELSE n
           /\ Carries(pos, net[a][w], y)
    BY <1>1, <1>3
  <2>3. v < w
    <3>1. net'[a] \in Seq(SegmentType)
      BY DEF Types
    <3>2. m \in Nat /\ n \in Nat
      BY <3>1
    <3> QED
      BY <1>3, <2>1, <2>2, <3>2
  <2> QED
    BY <1>3, <2>1, <2>2, <2>3 DEF Transit, IsData
<1> QED
  BY <1>2, <1>3 DEF Transit, IsData

(* A socket that a step does not change, and one it does not make.         *)
LEMMA EndpointKept ==
    ASSUME Types, Types', NEW h \in Host, NEW d \in {0, 1}, NEW out, Quietly(h, d, out),
           NEW pos, Streams(pos), NEW e \in Endpoint,
           Exists(e)' => Exists(e) /\ Socket(e)' = Socket(e)
    PROVE  Sender(pos, e)' /\ Receiver(pos, e)'
<1> SUFFICES ASSUME Exists(e)' PROVE Sender(pos, e)' /\ Receiver(pos, e)'
  BY DEF Sender, Receiver
<1>1. Sender(pos, e) /\ Receiver(pos, e)
  BY DEF Streams
<1>2. PICK s : s = Socket(e)
  OBVIOUS
<1>3. s \in SocketType
  BY <1>2, Named, Places DEF Exists, Socket
<1>4. Sender(pos, e)'
  BY <1>1 DEF Sender
<1>5. s.peer # Nobody => \/ s.left /\ s.state = "CLOSED"
                         \/ Ended(e[1], s.peer)
                         \/ Expects(pos[s.peer], s)
  BY <1>1, <1>2 DEF Receiver
<1>6. Receiver(pos, e)'
  BY <1>1, <1>2, <1>3, <1>5, ReceiverKept
<1> QED
  BY <1>4, <1>6

(* A step that sends no data keeps the numbers of what was sent.           *)
LEMMA StreamStep ==
    ASSUME Types, Types', Wires, NEW h \in Host, NEW d \in {0, 1}, NEW out,
           Quietly(h, d, out), NEW pos, Streams(pos),
           \A e \in Endpoint : Sender(pos, e)' /\ Receiver(pos, e)'
    PROVE  Streams(pos)'
<1>1. \A a \in Host : Transit(pos, a)'
  BY TransitKept DEF Streams
<1>2. \A e \in Endpoint : Numbered(pos[e], Written(e)')
  BY DEF Streams, Quietly
<1> QED
  BY <1>1, <1>2 DEF Streams

(* The type of what was written.                                           *)
LEMMA WrittenIs ==
    ASSUME Types, Fits, NEW e \in Endpoint
    PROVE  /\ Written(e) \in Sent /\ Len(Written(e)) <= MaxSends
           /\ \A x \in DOMAIN Written(e) :
                 /\ Written(e)[x] \in Payload /\ Len(Written(e)[x]) \in Nat
                 /\ x \in Nat /\ x >= 1 /\ x <= Len(Written(e))
<1>1. Written(e) \in Sent /\ Len(Written(e)) <= MaxSends
  <2>1. CASE Exists(e)
    <3>1. PICK h \in Host, i \in 1 .. MaxSockets : e = <<h, i>> /\ i \in DOMAIN sockets[h]
      BY <2>1, Named DEF Exists
    <3>2. Written(e) = sockets[h][i].sent /\ sockets[h][i] \in SocketType
      BY <3>1, At, Places
    <3>3. sockets[h][i].sent \in Sent
      BY <3>2 DEF SocketType
    <3>4. Len(sockets[h][i].sent) <= MaxSends
      BY <3>1 DEF Fits
    <3> QED
      BY <3>2, <3>3, <3>4
  <2>2. CASE ~Exists(e)
    <3>1. Written(e) = <<>> /\ <<>> \in Seq(Payload) /\ Len(<<>>) = 0 /\ MaxSends \in Nat
      BY <2>2, TcpAssumption DEF Written
    <3> QED
      BY <3>1 DEF Sent
  <2> QED
    BY <2>1, <2>2
<1>2. PICK w \in Seq(Payload) : w = Written(e)
  BY <1>1 DEF Sent
<1>3. \A x \in DOMAIN w : w[x] \in Payload /\ x \in Nat /\ x >= 1 /\ x <= Len(w)
  BY <1>2
<1>4. \A p \in Payload : Len(p) \in Nat
  BY TcpAssumption
<1> QED
  BY <1>1, <1>2, <1>3, <1>4

(* The numbers of a socket.                                                *)
LEMMA NumbersAre ==
    ASSUME Types, Fits, NEW pos, Streams(pos), NEW e \in Endpoint
    PROVE  /\ pos[e] \in Seq(Nat) /\ pos[e][1] = Iss + 1
           /\ \A x \in 1 .. Len(Written(e)) + 1 : pos[e][x] \in Nat /\ pos[e][x] >= Iss + 1
           /\ \A x \in DOMAIN Written(e) : pos[e][x + 1] = pos[e][x] + Len(Written(e)[x])
<1>1. PICK q \in Seq(Nat) : q = pos[e] /\ Numbered(q, Written(e))
  BY DEF Streams
<1>2. PICK l \in Nat : l = Len(Written(e)) /\ DOMAIN q = 1 .. l + 1 /\ 1 \in DOMAIN q
  BY <1>1, WrittenIs DEF Numbered, Sent
<1>3. ASSUME NEW x \in 1 .. l + 1 PROVE q[x] \in Nat /\ q[x] >= Iss + 1
  <2>1. x = 1 \/ 1 < x
    OBVIOUS
  <2>2. x = 1 \/ q[1] < q[x]
    BY <1>1, <1>2, <2>1 DEF Numbered
  <2>3. PICK v \in Nat : v = q[x]
    BY <1>2
  <2>4. q[1] = Iss + 1 /\ Iss \in Nat
    BY <1>1, TcpAssumption DEF Numbered
  <2> QED
    BY <2>2, <2>3, <2>4
<1> QED
  BY <1>1, <1>2, <1>3 DEF Numbered

(* Whoever has a peer is the only one who has it.                          *)
LEMMA NotFollowed ==
    ASSUME Types, Wires, NEW h \in Host, NEW i \in DOMAIN sockets[h],
           sockets[h][i].peer # Nobody, ~sockets[h][i].left
    PROVE  ~Followed(h, sockets[h][i].peer)
<1> SUFFICES ASSUME NEW c \in DOMAIN sockets[h], sockets[h][c].peer = sockets[h][i].peer,
                    sockets[h][c].left
             PROVE  FALSE
  BY DEF Followed
<1>1. c # i => Distinct(h, c, i)
  BY SMTT(30) DEF Wires
<1> QED
  BY <1>1 DEF Distinct

(* Data that a socket takes is the next message of its peer.               *)
LEMMA Delivers ==
    ASSUME NoReturn, DistinctPorts, Types, Wires, Handshake, Fits, NEW pos, Streams(pos),
           NEW h \in Host, NEW i \in DOMAIN sockets[h], NEW g \in SegmentType,
           net[h] # <<>>, g = net[h][1], Matches(sockets[h][i], g),
           sockets[h][i].state \in Talking \ {"LISTEN"},
           IsData(g), g.seq = sockets[h][i].ack
    PROVE  /\ sockets[h][i].peer = g.by /\ g.by # Nobody
           /\ \E x \in Nat : /\ x = Len(sockets[h][i].got) + 1
                             /\ Carries(pos, g, x)
                             /\ sockets[h][i].ack = pos[g.by][x] % SeqSpace
<1> DEFINE k == Other(h)
<1>1. k \in Host /\ Other(k) = h /\ Other(h) = k
  BY Hosts
<1> HIDE DEF k
<1>2. PICK s \in SocketType : s = sockets[h][i]
  BY Places
<1>3. 1 \in DOMAIN net[h]
  BY Places
<1>4. PICK j \in DOMAIN sockets[k] : From(h, g, j) /\ Meant(h, g, j)
  <2>1. PICK j \in DOMAIN sockets[k] : Meant(h, g, j)
    BY <1>1, <1>3 DEF Handshake, Queues
  <2>2. PICK b \in DOMAIN sockets[k] : From(h, g, b)
    BY <1>1, <1>3 DEF Wires, Genuine
  <2>3. b = j
    BY <2>1, <2>2 DEF From, Meant
  <2> QED
    BY <2>1, <2>2, <2>3
<1>5. Mutual(k, j)
  BY <1>1, <1>4 DEF Meant, IsData
<1>6. s.state # "LISTEN" /\ s.state # "CLOSED"
  BY <1>2 DEF Talking
<1>7. s.peer = <<k, j>> /\ g.by = <<k, j>>
  <2>1. Wires /\ j \in DOMAIN sockets[Other(h)] /\ sockets[h][i].state # "LISTEN"
    BY <1>1, <1>2, <1>4, <1>6
  <2>2. Mutual(Other(h), j)
    BY <1>1, <1>5
  <2>3. sockets[h][i].peer = <<Other(h), j>>
    BY <1>4, <2>1, <2>2, Meets
  <2> QED
    BY <1>1, <1>2, <1>4, <2>3 DEF Meant
<1>8. PICK f \in Endpoint : f = g.by /\ s.peer = f /\ f # Nobody
  BY <1>1, <1>4, <1>7, At, NobodyIsNone
<1>9. PICK e \in Endpoint : e = <<h, i>> /\ Exists(e) /\ Socket(e) = s /\ e[1] = h
  BY <1>2, At
<1>10. Receiver(pos, e) /\ Transit(pos, h)
  BY DEF Streams
<1>11. PICK x \in Nat : Carries(pos, g, x)
  BY <1>3, <1>10 DEF Transit
<1>12. PICK c \in Nat : c = Len(s.got) /\ c < x
  <2>1. Len(s.got) \in Nat
    BY DEF SocketType, Got
  <2>2. Len(s.got) < x
    BY <1>3, <1>8, <1>9, <1>10, <1>11 DEF Receiver
  <2> QED
    BY <2>1, <2>2
<1>13. Expects(pos[f], s)
  <2>1. ~Ended(h, f)
    BY <1>3, <1>8 DEF Ended
  <2> QED
    BY <1>6, <1>8, <1>9, <1>10, <2>1 DEF Receiver
<1>14. PICK b \in Int : /\ s.ack = b % SeqSpace
                        /\ b <= pos[f][c + 1] /\ b >= Iss + 1 - c * HeaderBytes
  BY <1>12, <1>13 DEF Expects
<1>15. PICK q \in Seq(Nat), w \in Sent :
          q = pos[f] /\ w = Written(f) /\ Numbered(q, w) /\ Len(w) <= MaxSends
  BY WrittenIs DEF Streams
<1>16. x \in DOMAIN w /\ g.seq = q[x] % SeqSpace
  BY <1>8, <1>11, <1>15 DEF Carries
<1>17. x = c + 1 /\ b = q[x]
  <2>1. b % SeqSpace = q[x] % SeqSpace /\ b <= q[c + 1]
    BY <1>2, <1>14, <1>15, <1>16
  <2> QED
    BY <1>12, <1>14, <1>15, <1>16, <2>1, Window
<1> QED
  BY Zenon, <1>2, <1>8, <1>11, <1>12, <1>14, <1>15, <1>17

(* An interrupt with a segment that has a socket.                          *)
LEMMA StreamHandled ==
    ASSUME NoReturn, CountedRight, DistinctPorts, Types, Types', Wires, Handshake, Fits,
           NEW pos, Streams(pos), NEW h \in Host, NEW i \in DOMAIN sockets[h],
           NEW g \in SegmentType, NEW out \in Seq(SegmentType), Handled(h, i, g, out)
    PROVE  Quietly(h, 1, out) /\ Streams(pos)'
<1> DEFINE k == Other(h)
<1>1. k \in Host /\ Other(k) = h /\ Other(h) = k /\ k # h
  BY Hosts
<1> HIDE DEF k
<1>2. PICK s \in SocketType : s = sockets[h][i]
  BY Places
<1>3. PICK r : r = React(s, g)
  OBVIOUS
<1>4. PICK t : t = r.sock
  OBVIOUS
<1>5. /\ Matches(s, g) /\ Changed(h, i, t) /\ Queued(h, 1, out) /\ net[h] # <<>>
      /\ 1 \in DOMAIN net[h] /\ g = net[h][1]
  <2>1. 1 \in DOMAIN net[h]
    BY Places DEF Handled
  <2> QED
    BY <1>2, <1>3, <1>4, <2>1 DEF Handled
<1>6. Reacts(s, g, r)
  BY <1>3, ReactIs
<1>7. PICK e \in Endpoint :
         /\ e = <<h, i>> /\ Exists(e) /\ Socket(e) = s /\ e[1] = h
         /\ Written(e) = s.sent /\ IsLeft(e) = s.left
  BY <1>2, At
<1>8. t.lport = s.lport /\ t.left = s.left /\ t.sent = s.sent
  BY <1>4, <1>6 DEF Reacts, Became
<1>9. Exists(e)' /\ Socket(e)' = t
  BY <1>5, <1>7 DEF Changed, Exists, Socket
<1>10. ASSUME NEW a \in Endpoint, a # e
       PROVE  /\ Exists(a)' <=> Exists(a)
              /\ Exists(a) => Socket(a)' = Socket(a)
  <2>1. PICK b \in Host, j \in 1 .. MaxSockets : a = <<b, j>> /\ a[1] = b /\ a[2] = j
    BY Named
  <2> QED
    BY <1>5, <1>7, <1>10, <2>1 DEF Changed, Exists, Socket
<1>11. Quietly(h, 1, out)
  <2>1. \A x \in DOMAIN out : ~IsData(out[x])
    BY HandledMeans DEF IsData
  <2>2. Written(e)' = Written(e) /\ (IsLeft(e) => IsLeft(e)')
    BY <1>7, <1>8, <1>9 DEF Written, IsLeft
  <2>3. ASSUME NEW a \in Endpoint, a # e
        PROVE  Written(a)' = Written(a) /\ (IsLeft(a) => IsLeft(a)')
    <3>1. (Exists(a)' <=> Exists(a)) /\ (Exists(a) => Socket(a)' = Socket(a))
      BY <1>10, <2>3
    <3> QED
      BY <3>1 DEF Written, IsLeft
  <2> QED
    BY <1>5, <2>1, <2>2, <2>3 DEF Quietly
<1>12. ASSUME Sender(pos, e)', Receiver(pos, e)' PROVE Streams(pos)'
  <2>1. ASSUME NEW a \in Endpoint, a # e PROVE Sender(pos, a)' /\ Receiver(pos, a)'
    <3>1. Exists(a)' => Exists(a) /\ Socket(a)' = Socket(a)
      BY <1>10, <2>1
    <3> QED
      BY <1>11, <3>1, EndpointKept
  <2> QED
    BY <1>11, <1>12, <2>1, StreamStep
<1>13. Sender(pos, e) /\ Receiver(pos, e) /\ Settled(h, i)
  BY DEF Streams, Handshake
<1>14. s.peer # Nobody => \/ s.left /\ s.state = "CLOSED"
                          \/ Ended(h, s.peer)
                          \/ Expects(pos[s.peer], s)
  BY <1>7, <1>13 DEF Receiver
<1>15. t.peer = s.peer /\ t.seq = s.seq => Sender(pos, e)'
  BY <1>7, <1>8, <1>9, <1>13 DEF Sender
<1>16. /\ t.peer = s.peer /\ t.got = s.got
       /\ s.peer # Nobody => \/ t.left /\ t.state = "CLOSED"
                             \/ Ended(h, s.peer)
                             \/ Expects(pos[s.peer], t)
       => Receiver(pos, e)'
  BY <1>7, <1>9, <1>11, <1>13, ReceiverKept
<1>17. t.got = s.got /\ t.ack = s.ack => (Expects(pos[s.peer], s) => Expects(pos[s.peer], t))
  BY DEF Expects
<1>18. PICK j \in DOMAIN sockets[k] : From(h, g, j) /\ Meant(h, g, j)
  <2>1. PICK j \in DOMAIN sockets[k] : Meant(h, g, j)
    BY <1>1, <1>5 DEF Handshake, Queues
  <2>2. PICK b \in DOMAIN sockets[k] : From(h, g, b)
    BY <1>1, <1>5 DEF Wires, Genuine
  <2>3. b = j
    BY <2>1, <2>2 DEF From, Meant
  <2> QED
    BY <2>1, <2>2, <2>3
<1>19. PICK f \in Endpoint : f = g.by /\ f = <<k, j>> /\ f # Nobody
  <2>1. g.by = <<k, j>>
    BY <1>1, <1>18 DEF Meant
  <2> QED
    BY <1>1, <2>1, At, NobodyIsNone
<1>20. /\ pos[e] \in Seq(Nat) /\ pos[e][1] = Iss + 1 /\ pos[f] \in Seq(Nat) /\ pos[f][1] = Iss + 1
       /\ Iss \in Nat /\ SeqSpace \in Nat \ {0} /\ HeaderBytes \in Nat
  BY NumbersAre, TcpAssumption
<1>21. ASSUME s.state \in {"LISTEN", "SYN_SENT"}, t.peer = f, t.ack = Plus(g.seq, 1),
              t.seq = Plus(Iss, 1), t.got = s.got, g.seq = Iss
       PROVE  Sender(pos, e)' /\ Receiver(pos, e)'
  <2>1. s.peer = Nobody
    BY <1>2, <1>21, Unpaired
  <2>2. s.sent = <<>> /\ s.got = <<>>
    BY <1>2, <1>13, <2>1 DEF Settled, Mutual, Nobody
  <2>3. Len(t.sent) = 0 /\ Len(t.got) = 0
    BY <1>8, <1>21, <2>2
  <2>4. Sender(pos, e)'
    BY <1>9, <1>20, <1>21, <2>3 DEF Sender, Plus
  <2>5. Expects(pos[f], t)
    <3>1. t.ack = (Iss + 1) % SeqSpace
      BY <1>21 DEF Plus
    <3>2. Iss + 1 <= pos[f][Len(t.got) + 1] /\ Iss + 1 >= Iss + 1 - Len(t.got) * HeaderBytes
      BY <1>20, <2>3
    <3> QED
      BY SMTT(30), <1>20, <3>1, <3>2 DEF Expects
  <2>6. \A n \in DOMAIN net'[h] : \A x \in Nat : Carries(pos, net[h][n], x)' => Len(t.got) < x
    <3> SUFFICES ASSUME NEW n \in DOMAIN net'[h], NEW x \in Nat, Carries(pos, net[h][n], x)'
                 PROVE  0 < x
      BY <2>3
    <3>1. net'[h][n].by \in Endpoint
      <4>1. net'[h] \in Seq(SegmentType)
        BY DEF Types
      <4>2. net'[h][n] \in SegmentType
        BY <4>1
      <4> QED
        BY <4>2 DEF SegmentType
    <3>2. PICK a \in Endpoint : a = net'[h][n].by
      BY <3>1
    <3>3. x \in DOMAIN Written(a)
      BY <1>11, <3>2 DEF Carries, Quietly
    <3> QED
      BY <3>3, WrittenIs
  <2>7. Len(t.got) <= Len(Written(f)')
    BY <1>11, <2>3, WrittenIs DEF Quietly, Sent
  <2>8. Receiver(pos, e)'
    BY <1>7, <1>9, <1>21, <2>5, <2>6, <2>7 DEF Receiver
  <2> QED
    BY <2>4, <2>8
<1>22. CASE /\ Accepts(s, g)
            /\ Became(s, t, "SYN_RECEIVED", g.by, Plus(Iss, 1), Plus(g.seq, 1), s.got)
  <2>1. g.seq = Iss
    BY <1>18, <1>22 DEF Accepts, Meant
  <2> QED
    BY <1>11, <1>12, <1>19, <1>21, <1>22, <2>1 DEF Accepts, Became
<1>23. CASE /\ Connects(s, g)
            /\ Became(s, t, "ESTABLISHED", g.by, Plus(s.seq, 1), Plus(g.seq, 1), s.got)
  <2>1. g.seq = Iss /\ s.seq = Iss /\ s.state = "SYN_SENT"
    BY <1>2, <1>13, <1>18, <1>23 DEF Connects, Meant, Settled
  <2> QED
    BY <1>11, <1>12, <1>19, <1>21, <1>23, <2>1 DEF Became
<1>24. CASE /\ TakesData(s, g)
            /\ Became(s, t, s.state, s.peer, s.seq, Plus(s.ack, Advance(g.data)),
                      Append(s.got, g.data))
  <2>1. s.state # "LISTEN"
    BY ZenonT(60), <1>2, <1>24, OnlySyn, Kinds DEF TakesData, Accepts
  <2>2. s.state \in Talking \ {"LISTEN"} /\ IsData(g) /\ g.seq = s.ack
    BY <1>24, <2>1 DEF TakesData, IsData
  <2>3. PICK x \in Nat : /\ x = Len(s.got) + 1 /\ Carries(pos, g, x)
                         /\ s.ack = pos[f][x] % SeqSpace /\ s.peer = f
    BY ZenonT(60), <1>2, <1>5, <1>19, <2>2, Delivers
  <2>4. PICK w \in Sent : w = Written(f) /\ w = Written(f)'
    BY <1>11, WrittenIs DEF Quietly
  <2>5. x \in DOMAIN w /\ g.data \in Arrivals(w[x]) /\ w[x] \in Payload
    <3>1. x \in DOMAIN Written(f) /\ g.data \in Arrivals(Written(f)[x])
      BY <1>19, <2>3 DEF Carries
    <3>2. Written(f)[x] \in Payload
      BY <3>1, WrittenIs
    <3> QED
      BY <2>4, <3>1, <3>2
  <2>6. PICK l \in Nat : l = Len(w[x]) /\ Advance(g.data) <= l
    BY <2>5, WireTyped DEF CountedRight
  <2>7. PICK v \in Nat : v = pos[f][x] /\ v >= Iss + 1 /\ pos[f][x + 1] = v + l
    <3>1. x \in DOMAIN Written(f) /\ x \in 1 .. Len(Written(f)) + 1
      BY <2>4, <2>5, WrittenIs DEF Sent
    <3>2. pos[f][x] \in Nat /\ pos[f][x] >= Iss + 1
      BY <3>1, NumbersAre
    <3>3. pos[f][x + 1] = pos[f][x] + Len(Written(f)[x])
      BY <3>1, NumbersAre
    <3> QED
      BY <2>4, <2>6, <3>2, <3>3
  <2>8. PICK c \in Int : c = Advance(g.data) /\ c >= 1 - HeaderBytes /\ c <= l
    <3>1. g.data \in Bytes
      BY DEF SegmentType
    <3>2. Advance(g.data) \in Int
      BY <3>1, AdvanceIs
    <3>3. Advance(g.data) = 1 - HeaderBytes \/ Advance(g.data) \in 1 .. Len(g.data)
      BY <3>1, AdvanceIs
    <3>4. Advance(g.data) >= 1 - HeaderBytes
      BY <1>20, <3>2, <3>3, TcpAssumption
    <3> QED
      BY <2>6, <3>2, <3>4
  <2>9. Len(t.got) = x /\ t.peer = f
    <3>1. s.got \in Seq(Bytes) /\ g.data \in Bytes
      BY DEF SocketType, SegmentType, Got
    <3> QED
      BY <1>24, <2>3, <3>1 DEF Became
  <2>10. Expects(pos[f], t)
    <3>1. t.ack = (v + c) % SeqSpace
      <4>1. t.ack = ((v % SeqSpace) + c) % SeqSpace
        BY <1>24, <2>3, <2>7, <2>8 DEF Became, Plus
      <4>2. v \in Int /\ c \in Int /\ SeqSpace \in Nat \ {0}
        BY <2>7, <2>8, TcpAssumption
      <4>3. ((v % SeqSpace) + c) % SeqSpace = (v + c) % SeqSpace
        BY <4>2, RestOfSum, Zenon
      <4> QED
        BY <4>1, <4>3
    <3>2. v + c \in Int /\ v + c <= pos[f][x + 1]
      BY <2>6, <2>7, <2>8
    <3>3. v + c >= Iss + 1 - x * HeaderBytes
      <4>1. PICK y \in Nat : y = x * HeaderBytes /\ y >= HeaderBytes
        <5>1. PICK z \in Nat : x = z + 1
          BY <2>3, <2>5, WrittenIs DEF SocketType, Got
        <5>2. x * HeaderBytes = z * HeaderBytes + HeaderBytes
          BY <1>20, <5>1
        <5>3. z * HeaderBytes \in Nat
          BY <1>20, <5>1
        <5> QED
          BY <1>20, <5>2, <5>3
      <4>2. v + c >= Iss + 1 - y
        <5>1. v \in Nat /\ v >= Iss + 1 /\ c \in Int /\ c >= 1 - HeaderBytes
          BY <2>7, <2>8
        <5>2. Iss \in Nat /\ HeaderBytes \in Nat /\ y \in Nat /\ y >= HeaderBytes
          BY <4>1, TcpAssumption
        <5>3. v + c >= Iss + 1 + (1 - HeaderBytes)
          BY <5>1, <5>2
        <5> QED
          BY <5>1, <5>2, <5>3
      <4> QED
        BY <4>1, <4>2
    <3> QED
      BY <2>9, <3>1, <3>2, <3>3 DEF Expects
  <2>11. ASSUME NEW n \in DOMAIN net'[h], NEW y \in Nat, NEW m, m = net'[h][n], IsData(m),
                m.by = f, Carries(pos, m, y)'
         PROVE  x < y
    <3>1. PICK o \in DOMAIN net[h] : m = net[h][o] /\ o = n + 1
      BY <1>11, <2>11, OldData
    <3>2. 1 < o
      <4>1. net'[h] \in Seq(SegmentType)
        BY DEF Types
      <4> QED
        BY <3>1, <4>1
    <3>3. Carries(pos, m, y)
      BY <1>11, <2>11, CarriesSame
    <3>4. Transit(pos, h)
      BY DEF Streams
    <3>5. /\ IsData(net[h][1]) /\ IsData(net[h][o]) /\ net[h][1].by = net[h][o].by
          /\ Carries(pos, net[h][1], x) /\ Carries(pos, net[h][o], y)
      BY <1>5, <1>19, <2>2, <2>3, <2>11, <3>1, <3>3
    <3> QED
      BY <1>5, <3>1, <3>2, <3>4, <3>5 DEF Transit
  <2>12. ASSUME NEW n \in DOMAIN net'[h], NEW y \in Nat,
                (IsData(net[h][n]) /\ net[h][n].by = f /\ Carries(pos, net[h][n], y))'
         PROVE  x < y
    <3>1. PICK m : m = net'[h][n]
      OBVIOUS
    <3>2. IsData(m) /\ m.by = f /\ Carries(pos, m, y)'
      BY <2>12, <3>1 DEF IsData, Carries
    <3> QED
      BY <2>11, <3>1, <3>2
  <2>13. x <= Len(Written(f)')
    BY <2>4, <2>5 DEF Sent
  <2>14. Receiver(pos, e)'
    BY <1>7, <1>9, <2>9, <2>10, <2>12, <2>13 DEF Receiver
  <2>15. Sender(pos, e)'
    BY <1>15, <1>24 DEF Became
  <2> QED
    BY <1>11, <1>12, <2>14, <2>15
<1>25. CASE \E x : /\ Became(s, t, x, s.peer, s.seq, s.ack, s.got)
                   /\ s.state = "CLOSED" => x = "CLOSED"
  <2>1. t.peer = s.peer /\ t.seq = s.seq /\ t.got = s.got /\ t.ack = s.ack
    BY <1>25 DEF Became
  <2>2. s.state = "CLOSED" => t.state = "CLOSED"
    BY <1>25 DEF Became
  <2>3. Receiver(pos, e)'
    BY <1>8, <1>14, <1>16, <1>17, <2>1, <2>2
  <2> QED
    BY <1>11, <1>12, <1>15, <2>1, <2>3
<1>26. CASE /\ FollowsFin(s, g)
            /\ Became(s, t, "CLOSE_WAIT", s.peer, s.seq, Plus(s.ack, 1), s.got)
  <2>1. s.state = "ESTABLISHED" /\ g.flags = {"FIN", "ACK"}
    BY <1>26 DEF FollowsFin
  <2>2. Mutual(h, i) /\ ~s.left
    BY <1>2, <1>13, <2>1 DEF Settled
  <2>3. s.peer = f
    <3>1. sockets[h][i].peer = <<Other(h), j>>
      BY <1>1, <1>2, <1>5, <1>18, <2>1, <2>2, Meets
    <3> QED
      BY <1>1, <1>2, <1>19, <3>1
  <2>4. ~Followed(h, f)
    BY <1>2, <1>19, <2>2, <2>3, NotFollowed
  <2>5. Ended(h, f)
    <3>1. sockets[k][j].left
      BY <1>1, <1>18, <1>19, <2>1, <2>4 DEF Meant
    <3>2. IsLeft(f)
      BY <1>1, <1>19, <3>1, At
    <3>3. ASSUME NEW n \in DOMAIN net[h], IsData(net[h][n]), net[h][n].by = f PROVE FALSE
      <4>1. n = 1 \/ 1 < n
        BY Places
      <4>2. Closing(h, 1, n)
        BY <1>5 DEF Handshake, Queues
      <4> QED
        BY <1>5, <1>19, <2>1, <2>4, <3>3, <4>1, <4>2, Kinds DEF Closing, IsData
    <3> QED
      BY <3>2, <3>3 DEF Ended
  <2>6. Sender(pos, e)' /\ Receiver(pos, e)'
    BY <1>15, <1>16, <1>26, <2>3, <2>5 DEF Became
  <2> QED
    BY <1>11, <1>12, <2>6
<1>27. CASE /\ EndsByFin(s, g)
            /\ Became(s, t, "CLOSED", s.peer, s.seq, Plus(s.ack, 1), s.got)
  <2>1. t.left /\ t.state = "CLOSED"
    BY <1>2, <1>8, <1>13, <1>27 DEF EndsByFin, Became, Settled
  <2>2. Sender(pos, e)' /\ Receiver(pos, e)'
    BY <1>15, <1>16, <1>27, <2>1 DEF Became
  <2> QED
    BY <1>11, <1>12, <2>2
<1>28. CASE \/ s.state # "CLOSED" /\ Became(s, t, s.state, s.peer, s.seq, s.ack, s.got)
            \/ Opens(s, g) /\ Became(s, t, "ESTABLISHED", s.peer, s.seq, s.ack, s.got)
            \/ HalfCloses(s, g) /\ Became(s, t, "FIN_WAIT2", s.peer, s.seq, s.ack, s.got)
            \/ Ignores(s, g) /\ Became(s, t, s.state, s.peer, s.seq, s.ack, s.got)
            \/ Closes(s, g) /\ Became(s, t, "CLOSED", s.peer, s.seq, s.ack, s.got)
  BY <1>25, <1>28 DEF Opens, HalfCloses
<1> QED
  BY <1>4, <1>6, <1>22, <1>23, <1>24, <1>26, <1>27, <1>28 DEF Reacts

(* One more message, and its number.                                       *)
LEMMA NumberedMore ==
    ASSUME NoReturn, NEW q \in Seq(Nat), NEW w \in Sent, Numbered(q, w), NEW p \in Payload,
           CountedRight
    PROVE  LET l == Len(w)
               q2 == Append(q, q[l + 1] + Len(p))
           IN  /\ q2 \in Seq(Nat) /\ Append(w, p) \in Sent /\ Numbered(q2, Append(w, p))
               /\ \A x \in 1 .. l + 1 : q2[x] = q[x]
               /\ q2[l + 2] = q[l + 1] + Len(p)
<1>1. PICK l \in Nat : l = Len(w) /\ DOMAIN w = 1 .. l /\ Len(q) = l + 1 /\ DOMAIN q = 1 .. l + 1
  BY DEF Numbered, Sent
<1>2. PICK k \in Nat : k = Len(p) /\ k > 0
  BY TcpAssumption DEF CountedRight
<1>3. PICK v \in Nat : v = q[l + 1]
  BY <1>1
<1>4. PICK q2, w2 : q2 = Append(q, v + k) /\ w2 = Append(w, p)
  OBVIOUS
<1>5. q2 \in Seq(Nat) /\ w2 \in Sent
  BY <1>4 DEF Sent
<1>6. /\ Len(q2) = l + 2 /\ DOMAIN q2 = 1 .. l + 2
      /\ \A x \in 1 .. l + 1 : q2[x] = q[x]
      /\ q2[l + 2] = v + k
  BY <1>1, <1>4
<1>7. /\ Len(w2) = l + 1 /\ DOMAIN w2 = 1 .. l + 1
      /\ \A x \in 1 .. l : w2[x] = w[x]
      /\ w2[l + 1] = p
  BY <1>1, <1>4 DEF Sent
<1>8. ASSUME NEW n \in 1 .. l + 1 PROVE q2[n + 1] = q2[n] + Len(w2[n])
  <2>1. CASE n = l + 1
    BY <1>2, <1>3, <1>6, <1>7, <2>1
  <2>2. CASE n # l + 1
    <3>1. n \in 1 .. l /\ n + 1 \in 1 .. l + 1 /\ n \in 1 .. l + 1
      BY <2>2
    <3>2. q[n + 1] = q[n] + Len(w[n])
      BY <1>1, <3>1 DEF Numbered
    <3> QED
      BY <1>6, <1>7, <3>1, <3>2
  <2> QED
    BY <2>1, <2>2
<1>9. ASSUME NEW x \in 1 .. l + 2, NEW y \in 1 .. l + 2, x < y PROVE q2[x] < q2[y]
  <2>1. x \in 1 .. l + 1
    BY <1>9
  <2>2. CASE y \in 1 .. l + 1
    BY <1>1, <1>6, <1>9, <2>1, <2>2 DEF Numbered
  <2>3. CASE y \notin 1 .. l + 1
    <3>1. y = l + 2
      BY <2>3
    <3>2. x = l + 1 \/ x < l + 1
      BY <2>1
    <3>3. x = l + 1 \/ q[x] < q[l + 1]
      <4>1. x \in DOMAIN q /\ l + 1 \in DOMAIN q
        BY <1>1, <2>1
      <4> QED
        BY <3>2, <4>1 DEF Numbered
    <3>4. PICK u \in Nat : u = q[x]
      BY <1>1, <2>1
    <3>5. u <= v
      BY <1>3, <3>3, <3>4
    <3>6. q2[x] = u /\ q2[y] = v + k
      BY <1>6, <2>1, <3>1, <3>4
    <3> QED
      BY <1>2, <3>5, <3>6
  <2> QED
    BY <2>2, <2>3
<1>10. ASSUME NEW x \in 1 .. l + 2 PROVE q2[x] <= Iss + 1 + (x - 1) * Longest
  <2>1. CASE x \in 1 .. l + 1
    BY <1>1, <1>6, <2>1 DEF Numbered
  <2>2. CASE x \notin 1 .. l + 1
    <3>1. x = l + 2
      BY <2>2
    <3>2. PICK m \in Nat, i \in Nat : m = Longest /\ k <= m /\ i = Iss + 1
      BY <1>2, LongestIs, TcpAssumption DEF Covers
    <3>3. q[l + 1] <= Iss + 1 + ((l + 1) - 1) * Longest
      BY <1>1 DEF Numbered
    <3>4. (l + 1) - 1 = l /\ x - 1 = l + 1
      BY <3>1
    <3>5. PICK a \in Nat : a = l * m
      OBVIOUS
    <3>6. (l + 1) * m = a + m
      BY <3>5
    <3>7. v <= i + a
      BY <1>3, <3>2, <3>3, <3>4, <3>5
    <3>8. v + k <= i + (a + m)
      BY <3>2, <3>7
    <3>9. (x - 1) * Longest = a + m
      BY <3>2, <3>4, <3>6
    <3>10. q2[x] = v + k
      BY <1>6, <3>1
    <3> QED
      BY <3>2, <3>8, <3>9, <3>10
  <2> QED
    BY <2>1, <2>2
<1>11. q2[1] = Iss + 1
  BY <1>6 DEF Numbered
<1>12. Numbered(q2, w2)
  <2>1. Len(q2) = Len(w2) + 1
    BY <1>1, <1>6, <1>7
  <2>2. \A n \in DOMAIN w2 : q2[n + 1] = q2[n] + Len(w2[n])
    BY <1>7, <1>8
  <2>3. \A x, y \in DOMAIN q2 : x < y => q2[x] < q2[y]
    BY <1>6, <1>9
  <2>4. \A x \in DOMAIN q2 : q2[x] <= Iss + 1 + (x - 1) * Longest
    BY <1>6, <1>10
  <2> QED
    BY <1>11, <2>1, <2>2, <2>3, <2>4 DEF Numbered
<1> QED
  BY <1>1, <1>2, <1>3, <1>4, <1>5, <1>6, <1>12

(* Send adds a message and its number.                                     *)
LEMMA StreamGrows ==
    ASSUME NoReturn, CountedRight, Types, Types', Wires, Handshake, Fits, NEW pos, Streams(pos),
           NEW h \in Host, NEW i \in DOMAIN sockets[h], NEW s \in SocketType, s = sockets[h][i],
           NEW p \in Payload, NEW wire \in Arrivals(p), NEW t, NEW m,
           t = [s EXCEPT !.seq = Plus(s.seq, Len(p)), !.sent = Append(s.sent, p)],
           m = Segment(h, i, s, {"PSH", "ACK"}, s.seq, wire),
           Changed(h, i, t), Queued(h, 0, <<m>>),
           s.peer # Nobody, ~s.left, Len(s.sent) < MaxSends
    PROVE  \E new : Streams(new)' /\ SameNumbers(pos, new)
<1>1. PICK e \in Endpoint :
         /\ e = <<h, i>> /\ Exists(e) /\ Socket(e) = s /\ e[1] = h
         /\ Written(e) = s.sent /\ IsLeft(e) = s.left
  BY At
<1>2. /\ t.peer = s.peer /\ t.left = s.left /\ t.state = s.state /\ t.got = s.got
      /\ t.ack = s.ack /\ t.sent = Append(s.sent, p) /\ t.seq = Plus(s.seq, Len(p))
  BY DEF SocketType
<1>3. Exists(e)' /\ Socket(e)' = t
  BY <1>1 DEF Changed, Exists, Socket
<1>4. ASSUME NEW a \in Endpoint, a # e
      PROVE  /\ Exists(a)' <=> Exists(a)
             /\ Exists(a) => Socket(a)' = Socket(a)
  <2>1. PICK b \in Host, j \in 1 .. MaxSockets : a = <<b, j>> /\ a[1] = b /\ a[2] = j
    BY Named
  <2> QED
    BY <1>1, <1>4, <2>1 DEF Changed, Exists, Socket
<1>5. PICK w \in Sent, l \in Nat : w = s.sent /\ l = Len(w) /\ DOMAIN w = 1 .. l /\ l < MaxSends
  BY DEF SocketType, Sent
<1>6. PICK q \in Seq(Nat) : q = pos[e] /\ Numbered(q, w) /\ DOMAIN q = 1 .. l + 1
  <2>1. PICK q \in Seq(Nat) : q = pos[e]
    BY DEF Streams
  <2>2. Numbered(q, w)
    <3>1. Numbered(pos[e], Written(e))
      BY DEF Streams
    <3> QED
      BY <1>1, <1>5, <2>1, <3>1
  <2>3. Len(q) = l + 1
    BY SMTT(30), <1>5, <2>2 DEF Numbered
  <2> QED
    BY <2>1, <2>2, <2>3
<1>7. PICK q2 \in Seq(Nat), w2 \in Sent :
         /\ q2 = Append(q, q[l + 1] + Len(p)) /\ w2 = Append(w, p) /\ Numbered(q2, w2)
         /\ \A x \in 1 .. l + 1 : q2[x] = q[x]
         /\ q2[l + 2] = q[l + 1] + Len(p)
  BY ZenonT(60), <1>5, <1>6, NumberedMore
<1>8. /\ Len(w2) = l + 1 /\ DOMAIN w2 = 1 .. l + 1 /\ w2[l + 1] = p
      /\ \A x \in 1 .. l : w2[x] = w[x]
      /\ l + 1 \in 1 .. l + 1 /\ Len(w2) <= MaxSends
  <2>1. w \in Seq(Payload) /\ Len(w) = l
    BY <1>5 DEF Sent
  <2>2. l + 1 <= MaxSends /\ l + 1 \in 1 .. l + 1
    <3>1. MaxSends \in Nat
      BY TcpAssumption
    <3> QED
      BY <1>5, <3>1
  <2>3. Len(w2) = l + 1 /\ DOMAIN w2 = 1 .. l + 1 /\ w2[l + 1] = p
    BY <1>7, <2>1
  <2>4. \A x \in 1 .. l : w2[x] = w[x]
    BY <1>7, <2>1
  <2> QED
    BY <2>2, <2>3, <2>4
<1>9. PICK p2 : p2 = [pos EXCEPT ![e] = q2]
  OBVIOUS
<1>10. /\ p2 \in [Endpoint -> Seq(Nat)] /\ p2[e] = q2
       /\ \A a \in Endpoint : a # e => p2[a] = pos[a]
  BY <1>7, <1>9 DEF Streams
<1>11. /\ Written(e)' = w2
       /\ \A a \in Endpoint : a # e => Written(a)' = Written(a)
  <2>1. Written(e)' = w2
    BY Zenon, <1>2, <1>3, <1>5, <1>7 DEF Written
  <2>2. ASSUME NEW a \in Endpoint, a # e PROVE Written(a)' = Written(a)
    <3>1. (Exists(a)' <=> Exists(a)) /\ (Exists(a) => Socket(a)' = Socket(a))
      BY <1>4, <2>2
    <3> QED
      BY <3>1 DEF Written
  <2> QED
    BY <2>1, <2>2
<1>12. ASSUME NEW a \in Endpoint PROVE IsLeft(a)' <=> IsLeft(a)
  <2>1. CASE a = e
    BY <1>1, <1>2, <1>3, <2>1 DEF IsLeft
  <2>2. CASE a # e
    <3>1. (Exists(a)' <=> Exists(a)) /\ (Exists(a) => Socket(a)' = Socket(a))
      BY <1>4, <2>2
    <3> QED
      BY <3>1 DEF IsLeft
  <2> QED
    BY <2>1, <2>2
<1>13. m.by = e /\ IsData(m) /\ m.seq = q[l + 1] % SeqSpace /\ m.data \in Arrivals(p)
  <2>1. Sender(pos, e)
    BY DEF Streams
  <2>2. s.seq = q[l + 1] % SeqSpace
    BY <1>1, <1>5, <1>6, <2>1 DEF Sender
  <2> QED
    BY <1>1, <2>2 DEF Segment, IsData
<1>14. ASSUME NEW x \in Nat PROVE Carries(p2, m, x)' <=> x = l + 1
  <2>1. q2[l + 1] = q[l + 1]
    <3>1. \A y \in 1 .. l + 1 : q2[y] = q[y]
      BY <1>7
    <3> QED
      BY <1>8, <3>1
  <2>2. CASE x = l + 1
    BY <1>8, <1>10, <1>11, <1>13, <2>1, <2>2 DEF Carries
  <2>3. ASSUME Carries(p2, m, x)' PROVE x = l + 1
    <3>1. x \in DOMAIN w2 /\ q2[x] % SeqSpace = q2[l + 1] % SeqSpace
      BY <1>10, <1>11, <1>13, <2>1, <2>3 DEF Carries
    <3>2. l + 1 \in DOMAIN w2 /\ Len(w2) <= MaxSends
      BY <1>8
    <3> QED
      BY <1>7, <3>1, <3>2, OneNumber
  <2> QED
    BY <2>2, <2>3
<1>15. ASSUME NEW a \in Host, NEW o \in DOMAIN net[a], NEW g, g = net[a][o], IsData(g),
              NEW x \in Nat
       PROVE  Carries(p2, g, x)' <=> Carries(pos, g, x)
  <2>1. PICK f \in Endpoint : f = g.by
    BY <1>15, Places DEF SegmentType
  <2>2. CASE f # e
    BY <1>10, <1>11, <2>1, <2>2 DEF Carries
  <2>3. CASE f = e
    <3>1. ASSUME NEW y \in Nat, Carries(pos, g, y) PROVE Carries(p2, g, y)' /\ y \in 1 .. l
      <4>1. y \in 1 .. l /\ g.seq = q[y] % SeqSpace /\ g.data \in Arrivals(w[y])
        BY <1>1, <1>5, <1>6, <2>1, <2>3, <3>1 DEF Carries
      <4>2. y \in 1 .. l + 1
        BY <1>5, <4>1
      <4>3. q2[y] = q[y] /\ w2[y] = w[y] /\ y \in DOMAIN w2
        <5>1. \A z \in 1 .. l + 1 : q2[z] = q[z]
          BY <1>7
        <5> QED
          BY <1>8, <4>1, <4>2, <5>1
      <4> QED
        BY <1>10, <1>11, <2>1, <2>3, <4>1, <4>3 DEF Carries
    <3>2. PICK y \in Nat : Carries(pos, g, y)
      BY <1>15 DEF Streams, Transit
    <3>3. ASSUME Carries(p2, g, x)' PROVE x = y
      <4>1. Carries(p2, g, y)'
        BY <3>1, <3>2
      <4>2. x \in DOMAIN w2 /\ y \in DOMAIN w2 /\ q2[x] % SeqSpace = q2[y] % SeqSpace
        BY <1>10, <1>11, <2>1, <2>3, <3>3, <4>1 DEF Carries
      <4>3. Len(w2) <= MaxSends
        BY <1>8
      <4> QED
        BY <1>7, <4>2, <4>3, OneNumber
    <3> QED
      BY <3>1, <3>2, <3>3
  <2> QED
    BY <2>2, <2>3
<1>16. ASSUME NEW a \in Host, NEW n \in DOMAIN net'[a], NEW g, g = net'[a][n]
       PROVE  \/ n \in DOMAIN net[a] /\ g = net[a][n]
              \/ a = Other(h) /\ g = m /\ n = Len(net[a]) + 1 /\ \A o \in DOMAIN net[a] : o < n
  <2>1. PICK out : out = <<m>>
    OBVIOUS
  <2>2. DOMAIN out = {1} /\ out[1] = m /\ Queued(h, 0, out)
    BY <2>1
  <2>3. n \in Nat
    <3>1. net'[a] \in Seq(SegmentType)
      BY DEF Types
    <3> QED
      BY <3>1
  <2>4. CASE \E o \in DOMAIN net[a] : net'[a][n] = net[a][o] /\ o = IF a = h THEN n + 0 ELSE n
    BY <1>16, <2>3, <2>4
  <2>5. CASE /\ a = Other(h) /\ \A o \in DOMAIN net[a] : o < n
             /\ \E x \in DOMAIN out : n = Len(net[a]) + x /\ net'[a][n] = out[x]
    BY <1>16, <2>2, <2>5
  <2>6. DOMAIN out \subseteq Nat
    BY <2>2
  <2> QED
    BY <2>2, <2>4, <2>5, <2>6, Positions
<1>17. ASSUME NEW a \in Endpoint PROVE Numbered(p2[a], Written(a)')
  <2>1. CASE a = e
    BY <1>7, <1>10, <1>11, <2>1
  <2>2. CASE a # e
    <3>1. Numbered(pos[a], Written(a))
      BY DEF Streams
    <3> QED
      BY <1>10, <1>11, <2>2, <3>1
  <2> QED
    BY <2>1, <2>2
<1>18. ASSUME NEW a \in Endpoint PROVE Sender(p2, a)'
  <2>1. Sender(pos, a)
    BY SMTT(30) DEF Streams
  <2>2. CASE a = e
    <3>1. s.seq = q[l + 1] % SeqSpace
      BY <1>13 DEF Segment
    <3>2. PICK v \in Nat, k \in Nat, n \in Nat \ {0} :
             v = q[l + 1] /\ k = Len(p) /\ n = SeqSpace
      <4>1. q[l + 1] \in Nat
        BY <1>6, <1>8
      <4> QED
        BY <4>1, WireTyped, TcpAssumption
    <3>3. ((v % n) + k) % n = (v + k) % n
      BY <3>2, RestOfSum
    <3>4. t.seq = q2[l + 2] % SeqSpace
      BY <1>2, <1>7, <3>1, <3>2, <3>3 DEF Plus
    <3>5. t.sent = w2 /\ Len(w2) + 1 = l + 2
      <4>1. t.sent = w2
        BY Zenon, <1>2, <1>5, <1>7
      <4>2. Len(w2) = l + 1
        BY <1>8
      <4> QED
        BY SMTT(30), <4>1, <4>2
    <3>6. t.seq = p2[e][Len(t.sent) + 1] % SeqSpace
      BY <1>10, <3>4, <3>5
    <3> QED
      BY <1>3, <2>2, <3>6 DEF Sender
  <2>3. CASE a # e
    <3>1. (Exists(a)' <=> Exists(a)) /\ (Exists(a) => Socket(a)' = Socket(a))
      BY <1>4, <2>3
    <3>2. p2[a] = pos[a]
      BY <1>10, <2>3
    <3> QED
      BY <2>1, <3>1, <3>2 DEF Sender
  <2> QED
    BY <2>2, <2>3
<1>19. ASSUME NEW a \in Endpoint, Exists(a)', NEW v, v = Socket(a)'
       PROVE  /\ Exists(a)
              /\ v.peer = Socket(a).peer /\ v.got = Socket(a).got /\ v.ack = Socket(a).ack
              /\ v.left = Socket(a).left /\ v.state = Socket(a).state
  <2>1. CASE a = e
    BY <1>1, <1>2, <1>3, <1>19, <2>1
  <2>2. CASE a # e
    BY <1>4, <1>19, <2>2
  <2> QED
    BY <2>1, <2>2
<1>20. ASSUME NEW f \in Endpoint
       PROVE  /\ Len(Written(f)) \in Nat /\ Len(Written(f)') \in Nat
              /\ Len(Written(f)) <= Len(Written(f)')
              /\ \A x \in 1 .. Len(Written(f)) + 1 : p2[f][x] = pos[f][x]
  <2>1. CASE f = e
    <3>1. Written(f) = w /\ Written(f)' = w2 /\ p2[f] = q2 /\ pos[f] = q
      BY <1>1, <1>5, <1>6, <1>10, <1>11, <2>1
    <3>2. Len(w) = l /\ Len(w2) = l + 1 /\ l <= l + 1
      BY <1>5, <1>8
    <3>3. \A x \in 1 .. l + 1 : q2[x] = q[x]
      BY <1>7
    <3> QED
      BY <1>5, <3>1, <3>2, <3>3
  <2>2. CASE f # e
    <3>1. Len(Written(f)) \in Nat
      BY WrittenIs DEF Sent
    <3>2. Written(f)' = Written(f) /\ p2[f] = pos[f]
      BY <1>10, <1>11, <2>2
    <3> QED
      BY <3>1, <3>2
  <2> QED
    BY <2>1, <2>2
<1>21. ASSUME NEW a \in Endpoint PROVE Receiver(p2, a)'
  <2> SUFFICES ASSUME Exists(a)', NEW v, v = Socket(a)', v.peer # Nobody
               PROVE  Receiver(p2, a)'
    BY DEF Receiver
  <2>1. PICK u : u = Socket(a)
    OBVIOUS
  <2>2. /\ Exists(a) /\ v.peer = u.peer /\ v.got = u.got /\ v.ack = u.ack
        /\ v.left = u.left /\ v.state = u.state
    BY SMTT(30), <1>19, <2>1
  <2>3. u \in SocketType
    BY <2>1, <2>2, Named, Places DEF Exists, Socket
  <2>4. PICK f \in Endpoint : f = u.peer
    BY <2>2, <2>3 DEF SocketType, Peers
  <2>5. PICK b \in Host : b = a[1]
    BY Named
  <2>6. PICK c \in Nat, z \in Nat : c = Len(u.got) /\ z = Len(Written(f)) /\ c <= z
    <3>1. Receiver(pos, a)
      BY DEF Streams
    <3>2. Len(u.got) <= Len(Written(f))
      BY <2>1, <2>2, <2>4, <3>1 DEF Receiver
    <3>3. Len(u.got) \in Nat
      BY <2>3 DEF SocketType
    <3> QED
      BY <1>20, <3>2, <3>3
  <2>7. Len(v.got) <= Len(Written(f)')
    BY <1>20, <2>2, <2>6
  <2>8. \/ v.left /\ v.state = "CLOSED"
        \/ Ended(b, f)
        \/ Expects(pos[f], u)
    <3>1. Receiver(pos, a)
      BY DEF Streams
    <3> QED
      BY <2>1, <2>2, <2>4, <2>5, <3>1 DEF Receiver
  <2>9. ASSUME Expects(pos[f], u) PROVE Expects(p2[f], v)
    <3>1. c + 1 \in 1 .. z + 1
      BY SMTT(30), <2>6
    <3>2. p2[f][Len(v.got) + 1] = pos[f][Len(u.got) + 1]
      BY <1>20, <2>2, <2>6, <3>1
    <3> QED
      BY <2>2, <2>9, <3>2 DEF Expects
  <2>10. ASSUME Ended(b, f) PROVE Ended(b, f)'
    <3>1. f # e /\ IsLeft(f)'
      BY <1>1, <1>12, <2>10 DEF Ended
    <3>2. ASSUME NEW n \in DOMAIN net'[b], NEW g, g = net'[b][n], IsData(g) PROVE g.by # f
      BY ZenonT(60), <1>13, <1>16, <2>10, <3>1, <3>2 DEF Ended
    <3>3. ASSUME NEW n \in DOMAIN net'[b], IsData(net[b][n])' PROVE net'[b][n].by # f
      BY <3>2, <3>3 DEF IsData
    <3> QED
      BY <3>1, <3>3 DEF Ended
  <2>11. ASSUME NEW n \in DOMAIN net'[b], NEW x \in Nat, NEW g, g = net'[b][n], IsData(g),
                g.by = f, Carries(p2, g, x)'
         PROVE  c < x
    <3>1. CASE n \in DOMAIN net[b] /\ g = net[b][n]
      <4>1. Carries(pos, g, x)
        BY <1>15, <2>11, <3>1
      <4>2. Receiver(pos, a)
        BY DEF Streams
      <4> QED
        BY <2>1, <2>2, <2>4, <2>5, <2>6, <2>11, <3>1, <4>1, <4>2 DEF Receiver
    <3>2. CASE g = m
      <4>1. x = l + 1 /\ f = e
        BY <1>13, <1>14, <2>11, <3>2
      <4>2. z = l
        BY <1>1, <1>5, <2>6, <4>1
      <4> QED
        BY SMTT(30), <1>5, <2>6, <4>1, <4>2
    <3> QED
      BY <1>16, <2>11, <3>1, <3>2
  <2>12. ASSUME NEW n \in DOMAIN net'[b], NEW x \in Nat,
                (IsData(net[b][n]) /\ net[b][n].by = f /\ Carries(p2, net[b][n], x))'
         PROVE  Len(v.got) < x
    <3>1. PICK g : g = net'[b][n]
      OBVIOUS
    <3>2. IsData(g) /\ g.by = f /\ Carries(p2, g, x)'
      BY <2>12, <3>1 DEF IsData, Carries
    <3> QED
      BY <2>2, <2>6, <2>11, <3>1, <3>2
  <2> QED
    BY <2>2, <2>4, <2>5, <2>7, <2>8, <2>9, <2>10, <2>12 DEF Receiver
<1>22. ASSUME NEW a \in Host PROVE Transit(p2, a)'
  <2>1. ASSUME NEW n \in DOMAIN net'[a], NEW g, g = net'[a][n], IsData(g)
        PROVE  \E x \in Nat : Carries(p2, g, x)'
    <3>1. CASE n \in DOMAIN net[a] /\ g = net[a][n]
      <4>1. PICK x \in Nat : Carries(pos, g, x)
        BY <2>1, <3>1 DEF Streams, Transit
      <4> QED
        BY <1>15, <2>1, <3>1, <4>1
    <3>2. CASE g = m
      <4>1. l + 1 \in Nat
        BY <1>5
      <4>2. Carries(p2, m, l + 1)'
        BY <1>14, <4>1
      <4> QED
        BY <3>2, <4>1, <4>2
    <3> QED
      BY <1>16, <2>1, <3>1, <3>2
  <2>2. ASSUME NEW o \in DOMAIN net'[a], NEW n \in DOMAIN net'[a], o < n,
               NEW g, g = net'[a][o], NEW k, k = net'[a][n],
               IsData(g), IsData(k), g.by = k.by,
               NEW x \in Nat, NEW y \in Nat, Carries(p2, g, x)', Carries(p2, k, y)'
        PROVE  x < y
    <3>1. o \in Nat /\ n \in Nat
      <4>1. net'[a] \in Seq(SegmentType)
        BY DEF Types
      <4> QED
        BY <4>1
    <3>2. CASE n \in DOMAIN net[a] /\ k = net[a][n]
      <4>1. o \in DOMAIN net[a] /\ g = net[a][o]
        <5>1. ~\A z \in DOMAIN net[a] : z < o
          BY <2>2, <3>1, <3>2
        <5> QED
          BY <1>16, <2>2, <5>1
      <4>2. Carries(pos, g, x) /\ Carries(pos, k, y)
        BY <1>15, <2>2, <3>2, <4>1
      <4> QED
        BY <2>2, <3>2, <4>1, <4>2 DEF Streams, Transit
    <3>3. CASE k = m /\ n = Len(net[a]) + 1
      <4>1. y = l + 1 /\ g.by = e
        BY <1>13, <1>14, <2>2, <3>3
      <4>2. o \in DOMAIN net[a] /\ g = net[a][o]
        <5>1. PICK c \in Nat : c = Len(net[a])
          BY Places
        <5>2. o # c + 1
          BY <2>2, <3>1, <3>3, <5>1
        <5>3. (o \in DOMAIN net[a] /\ g = net[a][o]) \/ o = Len(net[a]) + 1
          BY <1>16, <2>2
        <5> QED
          BY <5>1, <5>2, <5>3
      <4>3. Carries(pos, g, x)
        BY <1>15, <2>2, <4>2
      <4>4. x \in 1 .. l
        BY SMTT(30), <1>1, <1>5, <4>1, <4>3 DEF Carries
      <4> QED
        BY SMTT(30), <1>5, <4>1, <4>4
    <3> QED
      BY <1>16, <2>2, <3>2, <3>3
  <2>3. ASSUME NEW n \in DOMAIN net'[a], IsData(net[a][n])'
        PROVE  \E x \in Nat : Carries(p2, net[a][n], x)'
    <3>1. PICK g : g = net'[a][n]
      OBVIOUS
    <3>2. IsData(g)
      BY <2>3, <3>1 DEF IsData
    <3>3. PICK x \in Nat : Carries(p2, g, x)'
      BY <2>1, <3>1, <3>2
    <3> QED
      BY Zenon, <3>1, <3>3 DEF Carries
  <2>4. ASSUME NEW o \in DOMAIN net'[a], NEW n \in DOMAIN net'[a], o < n,
               IsData(net[a][o])', IsData(net[a][n])', net'[a][o].by = net'[a][n].by,
               NEW x \in Nat, NEW y \in Nat,
               Carries(p2, net[a][o], x)', Carries(p2, net[a][n], y)'
        PROVE  x < y
    <3>1. PICK g, k : g = net'[a][o] /\ k = net'[a][n]
      OBVIOUS
    <3>2. IsData(g) /\ IsData(k) /\ g.by = k.by
      BY SMTT(30), <2>4, <3>1 DEF IsData
    <3>3. Carries(p2, g, x)' /\ Carries(p2, k, y)'
      BY <2>4, <3>1 DEF Carries
    <3> QED
      BY <2>2, <2>4, <3>1, <3>2, <3>3
  <2> QED
    BY <2>3, <2>4 DEF Transit
<1>23. Streams(p2)'
  BY <1>10, <1>17, <1>18, <1>21, <1>22 DEF Streams
<1>24. SameNumbers(pos, p2)
  <2> SUFFICES ASSUME NEW a \in Endpoint, NEW x \in 1 .. Len(Written(a)) + 1
               PROVE  p2[a][x] = pos[a][x]
    BY DEF SameNumbers
  <2>1. CASE a = e
    BY <1>1, <1>5, <1>6, <1>7, <1>10, <2>1
  <2>2. CASE a # e
    BY <1>10, <2>2
  <2> QED
    BY <2>1, <2>2
<1> QED
  BY <1>23, <1>24

----------------------------------------------------------------------------
(* A host has called Send at least as often as any of its sockets sent.    *)
LEMMA SentOf ==
    ASSUME Types, Fits, NEW h \in Host, NEW i \in DOMAIN sockets[h]
    PROVE  /\ Len(sockets[h][i].sent) \in Nat /\ SendsOf(h) \in Nat
           /\ Len(sockets[h][i].sent) <= SendsOf(h)
<1> DEFINE Pairs == UNION {{j} \X DOMAIN sockets[h][j].sent : j \in DOMAIN sockets[h]}
           own == {i} \X DOMAIN sockets[h][i].sent
<1>1. ASSUME NEW j \in DOMAIN sockets[h]
      PROVE  /\ Len(sockets[h][j].sent) \in Nat
             /\ DOMAIN sockets[h][j].sent = 1 .. Len(sockets[h][j].sent)
             /\ DOMAIN sockets[h][j].sent \subseteq 1 .. MaxSends
  <2>1. sockets[h][j] \in SocketType
    BY Places
  <2>2. PICK w \in Seq(Payload) : w = sockets[h][j].sent
    BY <2>1 DEF SocketType, Sent
  <2>3. Len(w) <= MaxSends /\ MaxSends \in Nat
    BY <2>2, TcpAssumption DEF Fits
  <2> QED
    BY <2>2, <2>3
<1>2. IsFiniteSet((1 .. MaxSockets) \X (1 .. MaxSends))
  <2>1. 1 \in Int /\ MaxSockets \in Int /\ MaxSends \in Int
    BY TcpAssumption
  <2>2. IsFiniteSet(1 .. MaxSockets) /\ IsFiniteSet(1 .. MaxSends)
    BY <2>1, FS_Interval
  <2> QED
    BY <2>2, FS_Product
<1>3. Pairs \in SUBSET ((1 .. MaxSockets) \X (1 .. MaxSends))
  <2>1. \A j \in DOMAIN sockets[h] : j \in 1 .. MaxSockets
    BY Places
  <2> QED
    BY <1>1, <2>1
<1>4. IsFiniteSet(Pairs)
  BY <1>2, <1>3, FS_Subset
<1>5. own \in SUBSET Pairs
  OBVIOUS
<1>6. IsFiniteSet(own) /\ Cardinality(own) <= Cardinality(Pairs)
  <2> HIDE DEF own, Pairs
  <2> QED
    BY <1>4, <1>5, FS_Subset
<1>7. Cardinality(own) = Len(sockets[h][i].sent)
  <2>1. PICK l \in Nat :
           l = Len(sockets[h][i].sent) /\ DOMAIN sockets[h][i].sent = 1 .. l
    BY <1>1
  <2>2. IsFiniteSet({i}) /\ Cardinality({i}) = 1
    BY FS_Singleton
  <2>3. IsFiniteSet(1 .. l) /\ Cardinality(1 .. l) = IF 1 > l THEN 0 ELSE l - 1 + 1
    BY FS_Interval
  <2>4. PICK d : d = DOMAIN sockets[h][i].sent /\ IsFiniteSet(d) /\ Cardinality(d) = l
    BY <2>1, <2>3
  <2>5. Cardinality({i} \X d) = 1 * l
    BY <2>2, <2>4, FS_Product
  <2> QED
    BY <2>1, <2>4, <2>5
<1>8. SendsOf(h) = Cardinality(Pairs)
  BY DEF SendsOf
<1>9. Cardinality(Pairs) \in Nat
  BY <1>4, FS_CardinalityType
<1> HIDE DEF own, Pairs
<1> QED
  BY <1>1, <1>6, <1>7, <1>8, <1>9

(* A step in which nothing is sent, and one that sends.                    *)
LEMMA FitsKept ==
    ASSUME Types, Fits,
           \A a \in Host : \A j \in DOMAIN sockets'[a] :
              IF j \in DOMAIN sockets[a] THEN sockets'[a][j].sent = sockets[a][j].sent
                                         ELSE sockets'[a][j].sent = <<>>,
           \A a \in Host : DOMAIN sockets[a] \subseteq DOMAIN sockets'[a],
           \A a \in Host : app'[a] = app[a] \/
              (app'[a].call \in {"spin", "send"} =>
                 Len(sockets'[a][app'[a].on].sent) < MaxSends)
    PROVE  Fits'
<1>1. Len(<<>>) <= MaxSends
  BY TcpAssumption
<1>2. ASSUME NEW a \in Host, NEW j \in DOMAIN sockets'[a]
      PROVE  Len(sockets'[a][j].sent) <= MaxSends
  BY <1>1 DEF Fits
<1>3. ASSUME NEW a \in Host, app'[a].call \in {"spin", "send"}
      PROVE  Len(sockets'[a][app'[a].on].sent) < MaxSends
  <2> SUFFICES ASSUME app'[a] = app[a] PROVE Len(sockets'[a][app'[a].on].sent) < MaxSends
    BY <1>3
  <2>1. app[a] # Idle
    BY <1>3 DEF Idle
  <2>2. PICK j \in DOMAIN sockets[a] : j = app[a].on
    BY <2>1 DEF Types
  <2>3. Len(sockets[a][j].sent) < MaxSends
    BY <1>3, <2>2 DEF Fits
  <2>4. sockets'[a][j].sent = sockets[a][j].sent
    OBVIOUS
  <2> QED
    BY <2>2, <2>3, <2>4
<1> QED
  BY <1>2, <1>3 DEF Fits

(* Fits is inductive: CallSend looks how often the host has sent.          *)
LEMMA FitsStep ==
    ASSUME Types, Types', Handshake, Fits, [Next]_vars
    PROVE  Fits'
<1>1. ASSUME NEW h \in Host, NEW i \in DOMAIN sockets[h], NEW t, Changed(h, i, t),
             t.sent = sockets[h][i].sent,
             \A a \in Host : app'[a] = app[a] \/ app'[a].call \notin {"spin", "send"}
      PROVE  Fits'
  BY <1>1, FitsKept DEF Changed
<1>2. ASSUME NEW h \in Host, NEW c, app' = [app EXCEPT ![h] = c], c.call \notin {"spin", "send"}
      PROVE  \A a \in Host : app'[a] = app[a] \/ app'[a].call \notin {"spin", "send"}
  BY <1>2 DEF Types
<1>3. Idle.call \notin {"spin", "send"}
  BY DEF Idle
<1>4. ASSUME NEW h \in Host, Receive(h) PROVE Fits'
  <2>1. PICK i \in DOMAIN sockets[h], g \in SegmentType, out \in Seq(SegmentType) :
           Handled(h, i, g, out)
    BY <1>4, ReceiveIs
  <2>2. PICK r : r = React(sockets[h][i], g)
    OBVIOUS
  <2>3. Changed(h, i, r.sock)
    BY <2>1, <2>2 DEF Handled
  <2>4. r.sock.sent = sockets[h][i].sent
    <3>1. sockets[h][i] \in SocketType
      BY SMTT(30), Places
    <3> QED
      BY <2>2, <3>1, ReactIs DEF Reacts, Became
  <2>5. UNCHANGED app
    BY Zenon, <1>4 DEF Receive
  <2> QED
    BY <1>1, <2>3, <2>4, <2>5
<1>5. ASSUME UNCHANGED <<sockets, app>> PROVE Fits'
  BY <1>5, FitsKept
<1>6. ASSUME NEW h \in Host, NEW t, Grown(h, t), t.sent = <<>>, UNCHANGED app PROVE Fits'
  <2>1. ASSUME NEW a \in Host
        PROVE  /\ DOMAIN sockets[a] \subseteq DOMAIN sockets'[a]
               /\ \A j \in DOMAIN sockets'[a] :
                     IF j \in DOMAIN sockets[a] THEN sockets'[a][j].sent = sockets[a][j].sent
                                                ELSE sockets'[a][j].sent = <<>>
    <3>1. CASE a = h
      <4>1. PICK n \in Nat : n = Len(sockets[h]) /\ DOMAIN sockets[h] = 1 .. n
        BY Places
      <4>2. DOMAIN sockets'[h] = 1 .. n + 1 /\ sockets'[h][n + 1] = t
        BY <1>6, <4>1 DEF Grown
      <4>3. \A j \in 1 .. n + 1 : j \in 1 .. n \/ j = n + 1
        BY <4>1
      <4> QED
        BY <1>6, <3>1, <4>1, <4>2, <4>3 DEF Grown
    <3>2. CASE a = Other(h)
      BY <1>6, <3>2 DEF Grown
    <3> QED
      BY <3>1, <3>2, Hosts
  <2> QED
    BY <1>6, <2>1, FitsKept
<1>7. ASSUME NEW h \in Host, Connect(h) PROVE Fits'
  <2>1. PICK t : t = NewSocket("SYN_SENT", freePort[h], ListenPort)
    OBVIOUS
  <2>2. Grown(h, t) /\ UNCHANGED app
    BY <1>7, <2>1, ConnectIs DEF Connect
  <2>3. t.sent = <<>>
    BY <2>1 DEF NewSocket
  <2> QED
    BY <1>6, <2>2, <2>3
<1>8. ASSUME NEW h \in Host, Listen(h) PROVE Fits'
  <2>1. PICK t : t = NewSocket("LISTEN", ListenPort, NoPort)
    OBVIOUS
  <2>2. Grown(h, t) /\ UNCHANGED app
    BY <1>8, <2>1, ListenIs DEF Listen
  <2>3. t.sent = <<>>
    BY <2>1 DEF NewSocket
  <2> QED
    BY <1>6, <2>2, <2>3
<1>9. ASSUME NEW h \in Host, NEW i \in DOMAIN sockets[h], Bind(h, i) PROVE Fits'
  <2>1. PICK s \in SocketType : s = sockets[h][i]
    BY Places
  <2>2. PICK t : t = [s EXCEPT !.handler = TRUE]
    OBVIOUS
  <2>3. Changed(h, i, t) /\ UNCHANGED app
    BY <1>9, <2>1, <2>2, BindIs DEF Made, Bind
  <2>4. t.sent = s.sent
    BY <2>2 DEF SocketType
  <2> QED
    BY <1>1, <2>1, <2>3, <2>4
<1>10. ASSUME NEW h \in Host, NEW i \in DOMAIN sockets[h], CallSend(h, i) PROVE Fits'
  <2>1. /\ app' = [app EXCEPT ![h] = [call |-> "spin", on |-> i]] /\ SendsOf(h) < most.sends
        /\ UNCHANGED sockets
    BY <1>10 DEF CallSend
  <2>2. most.sends \in Nat /\ MaxSends \in Nat /\ most.sends <= MaxSends
    BY TcpAssumption DEF Types
  <2>3. Len(sockets[h][i].sent) < MaxSends
    BY <2>1, <2>2, SentOf
  <2>4. app'[h].on = i /\ \A a \in Host \ {h} : app'[a] = app[a]
    BY <2>1 DEF Types
  <2>5. \A a \in Host : app'[a] = app[a] \/ Len(sockets'[a][app'[a].on].sent) < MaxSends
    BY <2>1, <2>3, <2>4
  <2> QED
    BY <2>1, <2>5, FitsKept
<1>11. ASSUME NEW h \in Host, SpinEnds(h) PROVE Fits'
  <2>1. /\ app[h].call = "spin" /\ app' = [app EXCEPT ![h].call = "send"]
        /\ UNCHANGED sockets
    BY <1>11 DEF SpinEnds
  <2>2. app \in [Host -> {Idle} \cup CallType]
    BY DEF Types
  <2>3. app[h] \in CallType
    BY <2>1, <2>2 DEF Idle
  <2>4. app'[h].on = app[h].on /\ \A a \in Host \ {h} : app'[a] = app[a]
    <3>1. app'[h] = [app[h] EXCEPT !.call = "send"]
      BY <2>1, <2>2
    <3> QED
      BY <2>1, <2>2, <2>3, <3>1 DEF CallType
  <2>5. Len(sockets[h][app[h].on].sent) < MaxSends
    BY <2>1 DEF Fits
  <2>6. \A a \in Host : app'[a] = app[a] \/ Len(sockets'[a][app'[a].on].sent) < MaxSends
    BY <2>1, <2>4, <2>5
  <2> QED
    BY <2>1, <2>6, FitsKept
<1>12. ASSUME NEW h \in Host, Transmit(h) PROVE Fits'
  <2>1. app' = [app EXCEPT ![h] = Idle] /\ app[h].call = "send"
    BY <1>12 DEF Transmit
  <2>2. PICK i \in DOMAIN sockets[h], p \in Payload, wire \in Bytes :
           /\ app[h].on = i /\ wire \in Arrivals(p)
           /\ Made(h, i, [sockets[h][i] EXCEPT !.seq = Plus(@, Len(p)), !.sent = Append(@, p)],
                   <<Segment(h, i, sockets[h][i], {"PSH", "ACK"}, sockets[h][i].seq, wire)>>)
    BY <1>12, TransmitIs
  <2>3. PICK s \in SocketType : s = sockets[h][i]
    BY Places
  <2>4. PICK t : t = [s EXCEPT !.seq = Plus(s.seq, Len(p)), !.sent = Append(s.sent, p)]
    OBVIOUS
  <2>5. Changed(h, i, t)
    BY <2>2, <2>3, <2>4 DEF Made
  <2>6. t.sent = Append(s.sent, p)
    BY <2>4 DEF SocketType
  <2>7. Len(t.sent) <= MaxSends
    <3>1. PICK w \in Seq(Payload) : w = s.sent
      BY DEF SocketType, Sent
    <3>2. Len(w) < MaxSends /\ MaxSends \in Nat
      BY <2>1, <2>2, <2>3, <3>1, TcpAssumption DEF Fits
    <3>3. Len(Append(w, p)) = Len(w) + 1 /\ Len(w) \in Nat
      OBVIOUS
    <3> QED
      BY <2>6, <3>1, <3>2, <3>3
  <2>8. ASSUME NEW a \in Host, NEW j \in DOMAIN sockets'[a]
        PROVE  Len(sockets'[a][j].sent) <= MaxSends
    BY <2>5, <2>7 DEF Changed, Fits
  <2>9. ASSUME NEW a \in Host, app'[a].call \in {"spin", "send"}
        PROVE  Len(sockets'[a][app'[a].on].sent) < MaxSends
    <3>1. a # h /\ app'[a] = app[a] /\ app[a] # Idle
      BY <1>3, <2>1, <2>9 DEF Types
    <3>2. PICK j \in DOMAIN sockets[a] : j = app[a].on
      BY <3>1 DEF Types
    <3> QED
      BY <2>5, <2>9, <3>1, <3>2 DEF Changed, Fits
  <2> QED
    BY <2>8, <2>9 DEF Fits
<1>13. ASSUME NEW h \in Host, SendFin(h) PROVE Fits'
  <2>1. app' = [app EXCEPT ![h] = Idle]
    BY <1>13 DEF SendFin
  <2>2. PICK i \in DOMAIN sockets[h], s \in SocketType :
           s = sockets[h][i] /\ Changed(h, i, [s EXCEPT !.seq = Plus(s.seq, 1)])
    BY <1>13, SendFinIs, Places DEF Made
  <2>3. PICK t : t = [s EXCEPT !.seq = Plus(s.seq, 1)]
    OBVIOUS
  <2>4. t.sent = s.sent
    BY <2>3 DEF SocketType
  <2> QED
    BY <1>1, <1>2, <1>3, <2>1, <2>2, <2>3, <2>4
<1>14. ASSUME NEW h \in Host, NEW i \in DOMAIN sockets[h], CallDisconnect(h, i) PROVE Fits'
  <2>1. PICK c : c = [call |-> "disconnect", on |-> i]
    OBVIOUS
  <2>2. app' = [app EXCEPT ![h] = c] /\ c.call \notin {"spin", "send"}
    BY <1>14, <2>1 DEF CallDisconnect
  <2>3. PICK s \in SocketType : s = sockets[h][i]
    BY Places
  <2>4. PICK t : t = [s EXCEPT !.state = "FIN_WAIT1", !.left = TRUE]
    OBVIOUS
  <2>5. Changed(h, i, t)
    BY <1>14, <2>3, <2>4, DisconnectIs DEF Made
  <2>6. t.sent = s.sent
    BY <2>4 DEF SocketType
  <2> QED
    BY <1>1, <1>2, <2>2, <2>3, <2>5, <2>6
<1>15. ASSUME NEW h \in Host, ReceiveUnknown(h) \/ Lose(h) PROVE Fits'
  BY <1>5, <1>15 DEF ReceiveUnknown, Lose
<1>16. CASE UNCHANGED vars
  BY <1>5, <1>16 DEF vars
<1> QED
  BY <1>4, <1>7, <1>8, <1>9, <1>10, <1>11, <1>12, <1>13, <1>14, <1>15, <1>16 DEF Next

----------------------------------------------------------------------------
(* A step that sends no data and gives none.  No socket changes, one is    *)
(* made, or one changes in what does not matter here.                      *)
LEMMA SameSockets ==
    ASSUME Types, Types', Wires, NEW pos, Streams(pos), UNCHANGED sockets,
           NEW h \in Host, NEW d \in {0, 1}, Queued(h, d, <<>>)
    PROVE  Streams(pos)'
<1>2. PICK out : out = <<>>
  OBVIOUS
<1>3. Quietly(h, d, out)
  <2>1. DOMAIN out = {}
    BY <1>2
  <2>2. ASSUME NEW e \in Endpoint PROVE Written(e)' = Written(e) /\ IsLeft(e)' = IsLeft(e)
    BY DEF Written, IsLeft, Exists, Socket
  <2> QED
    BY <1>2, <2>1, <2>2 DEF Quietly
<1>4. ASSUME NEW e \in Endpoint PROVE Sender(pos, e)' /\ Receiver(pos, e)'
  <2>1. Exists(e)' => Exists(e) /\ Socket(e)' = Socket(e)
    BY DEF Exists, Socket
  <2> QED
    BY <1>3, <2>1, EndpointKept
<1> QED
  BY <1>3, <1>4, StreamStep

(* A step that makes a socket ...                                          *)
LEMMA NewSocketStep ==
    ASSUME Types, Types', Wires, NEW pos, Streams(pos), NEW h \in Host, NEW t, Grown(h, t),
           t.peer = Nobody, t.sent = <<>>,
           NEW out, Queued(h, 0, out), DOMAIN out \subseteq Nat,
           \A x \in DOMAIN out : ~IsData(out[x])
    PROVE  Streams(pos)'
<1>2. PICK n \in Nat : n = Len(sockets[h]) /\ DOMAIN sockets[h] = 1 .. n /\ n + 1 \notin 1 .. n
  BY Places
<1>3. ASSUME NEW e \in Endpoint
      PROVE  \/ (Exists(e)' <=> Exists(e)) /\ (Exists(e) => Socket(e)' = Socket(e))
             \/ ~Exists(e) /\ Exists(e)' /\ Socket(e)' = t
  <2>1. PICK a \in Host, j \in 1 .. MaxSockets : e[1] = a /\ e[2] = j
    BY Named
  <2>2. CASE a = h
    <3>1. DOMAIN sockets'[h] = 1 .. n + 1 /\ sockets'[h][n + 1] = t
      BY <1>2 DEF Grown
    <3>2. j \in 1 .. n + 1 <=> j \in 1 .. n \/ j = n + 1
      BY <1>2, <2>1
    <3>3. \A i \in 1 .. n : sockets'[h][i] = sockets[h][i]
      BY <1>2 DEF Grown
    <3> QED
      BY <1>2, <2>1, <2>2, <3>1, <3>2, <3>3 DEF Exists, Socket
  <2>3. CASE a = Other(h)
    BY <2>1, <2>3 DEF Grown, Exists, Socket
  <2> QED
    BY <2>1, <2>2, <2>3, Hosts
<1>4. Quietly(h, 0, out)
  <2>1. ASSUME NEW e \in Endpoint PROVE Written(e)' = Written(e) /\ (IsLeft(e) => IsLeft(e)')
    BY <1>3 DEF Written, IsLeft
  <2> QED
    BY <2>1 DEF Quietly
<1>5. ASSUME NEW e \in Endpoint PROVE Sender(pos, e)' /\ Receiver(pos, e)'
  <2>1. CASE Exists(e)' => Exists(e) /\ Socket(e)' = Socket(e)
    BY <1>4, <2>1, EndpointKept
  <2>2. CASE Socket(e)' = t
    BY <2>2 DEF Sender, Receiver
  <2> QED
    BY <1>3, <2>1, <2>2
<1> QED
  BY <1>4, <1>5, StreamStep

(* ... and one that changes a socket in what does not matter here.         *)
LEMMA OtherwiseSame ==
    ASSUME Types, Types', Wires, NEW pos, Streams(pos), NEW h \in Host, NEW i \in DOMAIN sockets[h],
           NEW s \in SocketType, s = sockets[h][i], NEW t, Changed(h, i, t),
           t.peer = s.peer, t.sent = s.sent, t.got = s.got, t.ack = s.ack,
           s.left => t.left /\ t.state = s.state, t.left \/ t.seq = s.seq,
           NEW out, Queued(h, 0, out), DOMAIN out \subseteq Nat,
           \A x \in DOMAIN out : ~IsData(out[x])
    PROVE  Streams(pos)'
<1>2. PICK f \in Endpoint : f = <<h, i>> /\ Exists(f) /\ Socket(f) = s /\ IsLeft(f) = s.left
  BY At
<1>3. Exists(f)' /\ Socket(f)' = t
  BY <1>2 DEF Changed, Exists, Socket
<1>4. ASSUME NEW e \in Endpoint, e # f
      PROVE  (Exists(e)' <=> Exists(e)) /\ (Exists(e) => Socket(e)' = Socket(e))
  <2>1. PICK b \in Host, j \in 1 .. MaxSockets : e = <<b, j>> /\ e[1] = b /\ e[2] = j
    BY Named
  <2> QED
    BY <1>2, <1>4, <2>1 DEF Changed, Exists, Socket
<1>5. Quietly(h, 0, out)
  <2>1. ASSUME NEW e \in Endpoint PROVE Written(e)' = Written(e) /\ (IsLeft(e) => IsLeft(e)')
    <3>1. CASE e = f
      BY <1>2, <1>3, <3>1 DEF Written, IsLeft
    <3>2. CASE e # f
      BY <1>4, <3>2 DEF Written, IsLeft
    <3> QED
      BY <3>1, <3>2
  <2> QED
    BY <2>1 DEF Quietly
<1>6. ASSUME NEW e \in Endpoint, e # f PROVE Sender(pos, e)' /\ Receiver(pos, e)'
  BY <1>4, <1>5, <1>6, EndpointKept
<1>7. Sender(pos, f)'
  <2>1. Sender(pos, f)
    BY DEF Streams
  <2>2. t.peer # Nobody /\ ~t.left => t.seq = pos[f][Len(t.sent) + 1] % SeqSpace
    BY <1>2, <2>1 DEF Sender, SocketType, Flag
  <2> QED
    BY <1>3, <2>2 DEF Sender
<1>8. Receiver(pos, f)'
  <2>1. Receiver(pos, f)
    BY DEF Streams
  <2>2. s.peer # Nobody => \/ t.left /\ t.state = "CLOSED"
                           \/ Ended(f[1], s.peer)
                           \/ Expects(pos[s.peer], t)
    <3> SUFFICES ASSUME s.peer # Nobody, Expects(pos[s.peer], s)
                 PROVE  Expects(pos[s.peer], t)
      BY <1>2, <2>1 DEF Receiver
    <3> QED
      BY DEF Expects
  <2> QED
    BY <1>2, <1>3, <1>5, <2>1, <2>2, ReceiverKept
<1> QED
  BY <1>5, <1>6, <1>7, <1>8, StreamStep

(* Every step keeps the numbers of what was sent and of what is awaited.   *)
LEMMA StreamsStep ==
    ASSUME NoReturn, CountedRight, DistinctPorts, Types, Types', Wiring, Handshake, Fits,
           NEW pos, Streams(pos), [Next]_vars
    PROVE  \E new : Streams(new)' /\ SameNumbers(pos, new)
<1> DEFINE Kept == \E new : Streams(new)' /\ SameNumbers(pos, new)
<1> SUFFICES Kept
  OBVIOUS
<1> USE DEF Wiring
<1>0. Streams(pos)' => Kept
  BY DEF SameNumbers
<1>1. ASSUME NEW h \in Host, Receive(h) PROVE Kept
  <2>1. PICK i \in DOMAIN sockets[h], g \in SegmentType, out \in Seq(SegmentType) :
           Handled(h, i, g, out)
    BY <1>1, ReceiveIs
  <2>2. Streams(pos)'
    BY <2>1, StreamHandled
  <2> QED
    BY <1>0, <2>2
<1>2. ASSUME NEW h \in Host, ReceiveUnknown(h) \/ Lose(h) PROVE Kept
  <2>1. /\ net[h] # <<>> /\ net' = [net EXCEPT ![h] = Tail(@)] /\ UNCHANGED sockets
    BY <1>2 DEF ReceiveUnknown, Lose
  <2> QED
    BY <1>0, <2>1, QueuedToo, SameSockets
<1>3. ASSUME NEW g PROVE LET out == <<g>> IN DOMAIN out = {1} /\ out[1] = g
  OBVIOUS
<1>4. DOMAIN <<>> = {}
  OBVIOUS
<1>5. ASSUME NEW h \in Host, Connect(h) PROVE Kept
  <2>1. PICK t : t = NewSocket("SYN_SENT", freePort[h], ListenPort)
    OBVIOUS
  <2>2. PICK g : g = Segment(h, Len(sockets[h]) + 1, t, {"SYN"}, Iss, <<>>)
    OBVIOUS
  <2>3. Grown(h, t) /\ Queued(h, 0, <<g>>)
    BY <1>5, <2>1, <2>2, ConnectIs
  <2>4. t.peer = Nobody /\ t.sent = <<>>
    BY <2>1 DEF NewSocket
  <2>5. ~IsData(g)
    BY <2>2, Kinds DEF Segment, IsData
  <2>6. PICK out : out = <<g>> /\ DOMAIN out = {1} /\ out[1] = g
    BY <1>3
  <2> QED
    BY <1>0, <2>3, <2>4, <2>5, <2>6, NewSocketStep
<1>6. ASSUME NEW h \in Host, Listen(h) PROVE Kept
  <2>1. PICK t : t = NewSocket("LISTEN", ListenPort, NoPort)
    OBVIOUS
  <2>2. Grown(h, t) /\ Queued(h, 0, <<>>)
    BY <1>6, <2>1, ListenIs
  <2>3. t.peer = Nobody /\ t.sent = <<>>
    BY <2>1 DEF NewSocket
  <2> QED
    BY <1>0, <1>4, <2>2, <2>3, NewSocketStep
<1>7. ASSUME NEW h \in Host, NEW i \in DOMAIN sockets[h], Bind(h, i) PROVE Kept
  <2>1. PICK s \in SocketType : s = sockets[h][i]
    BY Places
  <2>2. PICK t : t = [s EXCEPT !.handler = TRUE]
    OBVIOUS
  <2>3. /\ t.peer = s.peer /\ t.left = s.left /\ t.state = s.state
        /\ t.seq = s.seq /\ t.ack = s.ack /\ t.sent = s.sent /\ t.got = s.got
    BY <2>2 DEF SocketType
  <2>4. Changed(h, i, t) /\ Queued(h, 0, <<>>)
    BY <1>7, <2>1, <2>2, BindIs DEF Made
  <2> QED
    BY <1>0, <1>4, <2>1, <2>3, <2>4, OtherwiseSame
<1>8. ASSUME NEW h \in Host, NEW i \in DOMAIN sockets[h], CallSend(h, i) PROVE Kept
  BY <1>0, <1>8, QueuedToo, SameSockets DEF CallSend
<1>9. ASSUME NEW h \in Host, SpinEnds(h) PROVE Kept
  BY <1>0, <1>9, QueuedToo, SameSockets DEF SpinEnds
<1>10. ASSUME NEW h \in Host, Transmit(h) PROVE Kept
  <2>1. app[h].call = "send"
    BY <1>10 DEF Transmit
  <2>2. PICK i \in DOMAIN sockets[h], p \in Payload, wire \in Bytes :
           /\ app[h].on = i /\ wire \in Arrivals(p)
           /\ Made(h, i, [sockets[h][i] EXCEPT !.seq = Plus(@, Len(p)), !.sent = Append(@, p)],
                   <<Segment(h, i, sockets[h][i], {"PSH", "ACK"}, sockets[h][i].seq, wire)>>)
    BY <1>10, TransmitIs
  <2>3. PICK s \in SocketType : s = sockets[h][i]
    BY Places
  <2>4. PICK t : t = [s EXCEPT !.seq = Plus(s.seq, Len(p)), !.sent = Append(s.sent, p)]
    OBVIOUS
  <2>5. PICK m : m = Segment(h, i, s, {"PSH", "ACK"}, s.seq, wire)
    OBVIOUS
  <2>6. Changed(h, i, t) /\ Queued(h, 0, <<m>>)
    BY <2>2, <2>3, <2>4, <2>5 DEF Made
  <2>7. s.peer # Nobody /\ ~s.left /\ Len(s.sent) < MaxSends
    <3>1. Calls(h) /\ app[h].on = i /\ s = sockets[h][i]
      BY <2>2, <2>3 DEF Handshake
    <3>2. Mutual(h, i) /\ ~s.left
      BY <2>1, <3>1 DEF Calls
    <3>3. s.peer # Nobody
      <4>1. PICK j \in DOMAIN sockets[Other(h)] : s.peer = <<Other(h), j>>
        BY <3>1, <3>2 DEF Mutual
      <4>2. <<Other(h), j>> # Nobody
        BY DEF Nobody
      <4> QED
        BY <4>1, <4>2
    <3>4. Len(sockets[h][app[h].on].sent) < MaxSends
      BY <2>1 DEF Fits
    <3> QED
      BY <3>1, <3>2, <3>3, <3>4
  <2> QED
    BY <2>2, <2>3, <2>4, <2>5, <2>6, <2>7, StreamGrows
<1>11. ASSUME NEW h \in Host, SendFin(h) PROVE Kept
  <2>1. app[h].call = "disconnect"
    BY <1>11 DEF SendFin
  <2>2. PICK i \in DOMAIN sockets[h] :
           /\ app[h].on = i
           /\ Made(h, i, [sockets[h][i] EXCEPT !.seq = Plus(@, 1)],
                   <<Segment(h, i, sockets[h][i], {"FIN", "ACK"}, sockets[h][i].seq, <<>>)>>)
    BY <1>11, SendFinIs
  <2>3. PICK s \in SocketType : s = sockets[h][i]
    BY Places
  <2>4. PICK t : t = [s EXCEPT !.seq = Plus(s.seq, 1)]
    OBVIOUS
  <2>5. PICK g : g = Segment(h, i, s, {"FIN", "ACK"}, s.seq, <<>>)
    OBVIOUS
  <2>6. Changed(h, i, t) /\ Queued(h, 0, <<g>>)
    BY <2>2, <2>3, <2>4, <2>5 DEF Made
  <2>7. /\ t.peer = s.peer /\ t.left = s.left /\ t.state = s.state
        /\ t.sent = s.sent /\ t.got = s.got /\ t.ack = s.ack
    BY <2>4 DEF SocketType
  <2>8. s.left
    BY <2>1, <2>2, <2>3 DEF Handshake, Calls
  <2>9. ~IsData(g)
    BY <2>5, Kinds DEF Segment, IsData
  <2>10. PICK out : out = <<g>> /\ DOMAIN out = {1} /\ out[1] = g
    BY <1>3
  <2> QED
    <3>1. t.left /\ t.state = s.state
      BY <2>7, <2>8
    <3>2. Queued(h, 0, out) /\ DOMAIN out \subseteq Nat /\ \A x \in DOMAIN out : ~IsData(out[x])
      BY <2>6, <2>9, <2>10
    <3> QED
      BY <1>0, <2>3, <2>6, <2>7, <3>1, <3>2, OtherwiseSame
<1>12. ASSUME NEW h \in Host, NEW i \in DOMAIN sockets[h], CallDisconnect(h, i) PROVE Kept
  <2>1. PICK s \in SocketType : s = sockets[h][i]
    BY Places
  <2>2. PICK t : t = [s EXCEPT !.state = "FIN_WAIT1", !.left = TRUE]
    OBVIOUS
  <2>3. Changed(h, i, t) /\ Queued(h, 0, <<>>)
    BY <1>12, <2>1, <2>2, DisconnectIs DEF Made
  <2>4. /\ t.peer = s.peer /\ t.left /\ t.seq = s.seq /\ t.ack = s.ack
        /\ t.sent = s.sent /\ t.got = s.got
    BY <2>2 DEF SocketType
  <2>5. ~s.left
    BY <1>12, <2>1 DEF CallDisconnect
  <2> QED
    BY <1>0, <1>4, <2>1, <2>3, <2>4, <2>5, OtherwiseSame
<1>13. CASE UNCHANGED vars
  <2>1. UNCHANGED <<sockets, net>>
    BY <1>13 DEF vars
  <2>2. PICK h \in Host : TRUE
    BY TcpAssumption
  <2> QED
    BY <1>0, <2>1, <2>2, QueuedToo, SameSockets
<1> QED
  BY <1>1, <1>2, <1>5, <1>6, <1>7, <1>8, <1>9, <1>10, <1>11, <1>12, <1>13 DEF Next

(* Nothing is connected, called or sent at first.                          *)
LEMMA StreamInit ==
    ASSUME NoReturn, Init
    PROVE  Handshake /\ Fits /\ InStream
<1>1. \A h \in Host : /\ DOMAIN sockets[h] = {} /\ DOMAIN net[h] = {} /\ app[h] = Idle
  BY DEF Init
<1>2. Handshake
  BY <1>1 DEF Handshake, Queues, Calls, Idle
<1>3. Fits
  BY <1>1 DEF Fits, Idle
<1>4. PICK q \in Seq(Nat) : q = <<Iss + 1>> /\ Len(q) = 1 /\ DOMAIN q = {1} /\ q[1] = Iss + 1
  <2>1. Iss + 1 \in Nat
    BY TcpAssumption
  <2>2. PICK q : q = <<Iss + 1>>
    OBVIOUS
  <2>3. q \in Seq(Nat) /\ Len(q) = 1 /\ DOMAIN q = {1} /\ q[1] = Iss + 1
    BY <2>1, <2>2
  <2> QED
    BY <2>2, <2>3
<1>5. PICK pos : pos = [e \in Endpoint |-> q]
  OBVIOUS
<1>6. ASSUME NEW e \in Endpoint PROVE ~Exists(e) /\ Written(e) = <<>>
  <2>1. e[1] \in Host
    BY Named
  <2> QED
    BY <1>1, <2>1 DEF Exists, Written
<1>7. Numbered(q, <<>>)
  <2>1. DOMAIN <<>> = {} /\ Len(<<>>) = 0
    OBVIOUS
  <2>2. \A x \in DOMAIN q : q[x] <= Iss + 1 + (x - 1) * Longest
    <3>1. (1 - 1) * Longest = 0
      BY LongestIs
    <3> QED
      BY <1>4, <3>1, TcpAssumption
  <2> QED
    BY <1>4, <2>1, <2>2 DEF Numbered
<1>8. Streams(pos)
  <2>1. \A e \in Endpoint : Numbered(pos[e], Written(e)) /\ Sender(pos, e) /\ Receiver(pos, e)
    BY <1>5, <1>6, <1>7 DEF Sender, Receiver
  <2>2. \A a \in Host : Transit(pos, a)
    BY <1>1 DEF Transit
  <2> QED
    BY <1>4, <1>5, <2>1, <2>2 DEF Streams
<1> QED
  BY <1>2, <1>3, <1>8 DEF InStream

----------------------------------------------------------------------------
(* The steps of Stream, socket by socket.                                  *)
PeerOf(e) == IF Exists(e) THEN Socket(e).peer ELSE Nobody
GotOf(e) == IF Exists(e) THEN Socket(e).got ELSE <<>>

(* The variables of Stream, before and after a step.                       *)
LEMMA FieldsAre ==
    /\ Field("peer", Nobody) = [e \in Endpoint |-> PeerOf(e)]
    /\ Field("sent", <<>>) = [e \in Endpoint |-> Written(e)]
    /\ Field("got", <<>>) = [e \in Endpoint |-> GotOf(e)]
    /\ Field("peer", Nobody)' = [e \in Endpoint |-> PeerOf(e)']
    /\ Field("sent", <<>>)' = [e \in Endpoint |-> Written(e)']
    /\ Field("got", <<>>)' = [e \in Endpoint |-> GotOf(e)']
BY DEF Field, PeerOf, Written, GotOf

(* A step that is nothing to Stream ...                                    *)
LEMMA StutterIs ==
    ASSUME \A a \in Endpoint : /\ PeerOf(a)' = PeerOf(a) /\ Written(a)' = Written(a)
                               /\ GotOf(a)' = GotOf(a)
    PROVE  UNCHANGED S!vars
BY FieldsAre DEF S!vars

(* ... one that connects a socket ...                                      *)
LEMMA PairIs ==
    ASSUME NEW e \in Endpoint, PeerOf(e) = Nobody, PeerOf(e)' \in Endpoint,
           \A a \in Endpoint : /\ a # e => PeerOf(a)' = PeerOf(a)
                               /\ Written(a)' = Written(a) /\ GotOf(a)' = GotOf(a)
    PROVE  S!Next
<1>1. S!Pair(e, PeerOf(e)')
  BY FieldsAre DEF S!Pair
<1> QED
  BY <1>1 DEF S!Next

(* ... and one that sends.                                                 *)
LEMMA WriteIs ==
    ASSUME NEW e \in Endpoint, NEW p \in Payload, Written(e)' = Append(Written(e), p),
           \A a \in Endpoint : /\ a # e => Written(a)' = Written(a)
                               /\ PeerOf(a)' = PeerOf(a) /\ GotOf(a)' = GotOf(a)
    PROVE  S!Next
<1>1. S!Write(e, p)
  BY FieldsAre DEF S!Write
<1> QED
  BY <1>1 DEF S!Next

(* A message arrives whole, or it is one of those that are cut.            *)
LEMMA WirePrefix ==
    ASSUME NEW p \in Payload, NEW w \in Arrivals(p)
    PROVE  IsPrefix(p, w) \/ (IsCut(p) /\ IsPrefix(w, p))
<1>1. p \in Seq(Nat)
  BY TcpAssumption
<1>2. CASE \E z \in Bytes : w = p \o z
  <2>1. PICK z \in Seq(Nat) : w = p \o z
    BY <1>2 DEF Bytes
  <2> QED
    BY <1>1, <2>1 DEF IsPrefix
<1>3. CASE IsCut(p) /\ \E n \in 0 .. Len(p) : w = SubSeq(p, 1, n)
  <2>1. PICK n \in 0 .. Len(p) : w = SubSeq(p, 1, n)
    BY <1>3
  <2>2. Len(w) = n /\ w = SubSeq(p, 1, Len(w)) /\ Len(w) <= Len(p)
    BY <1>1, <2>1
  <2>3. IsPrefix(w, p)
    BY <1>1, <2>1, <2>2 DEF IsPrefix
  <2> QED
    BY <1>3, <2>3
<1> QED
  BY <1>2, <1>3, ArrivalsAre

(* What a delivery adds is added at the end.                               *)
LEMMA AppendIs ==
    ASSUME NEW w \in Got, NEW d \in Bytes, NEW v, v = Append(w, d)
    PROVE  IsPrefix(w, v) /\ Last(v) = d /\ Len(v) = Len(w) + 1
<1>1. w \in Seq(Bytes) /\ v \in Seq(Bytes) /\ Len(v) = Len(w) + 1 /\ v[Len(w) + 1] = d
  BY DEF Got
<1>2. \A n \in 1 .. Len(w) : v[n] = w[n]
  BY DEF Got
<1> QED
  BY <1>1, <1>2 DEF IsPrefix, Last

(* A delivery of the next message.                                         *)
LEMMA ReadIs ==
    ASSUME NEW e \in Endpoint, NEW f \in Endpoint, PeerOf(e) = f, f # Nobody,
           GotOf(e) \in Got, NEW d \in Bytes, NEW p \in Payload, d \in Arrivals(p),
           GotOf(e)' = Append(GotOf(e), d), Len(GotOf(e)) < Len(Written(f)),
           Written(f)[Len(GotOf(e)) + 1] = p,
           \A a \in Endpoint : /\ a # e => GotOf(a)' = GotOf(a)
                               /\ PeerOf(a)' = PeerOf(a) /\ Written(a)' = Written(a)
    PROVE  S!Next
<1>1. PICK w, v : w \in Got /\ w = GotOf(e) /\ v = GotOf(e)' /\ v = Append(w, d)
  OBVIOUS
<1>2. /\ IsPrefix(w, v) /\ Last(v) = d /\ Len(v) = Len(w) + 1
      /\ IsPrefix(p, d) \/ (IsCut(p) /\ IsPrefix(d, p))
  BY <1>1, WirePrefix, AppendIs
<1>3. /\ S!IsPrefix(w, v) /\ S!Last(v) = d
      /\ S!IsPrefix(p, d) \/ (p \in {c \in Payload : IsCut(c)} /\ S!IsPrefix(d, p))
  BY <1>2 DEF IsPrefix, Last, S!IsPrefix, S!Last
<1>4. PICK P, W, G, H :
         /\ P = Field("peer", Nobody) /\ W = Field("sent", <<>>) /\ G = Field("got", <<>>)
         /\ H = Field("got", <<>>)'
  OBVIOUS
<1>5. P[e] = f /\ W[f][Len(w) + 1] = p /\ G[e] = w /\ H[e] = v /\ Len(w) < Len(W[f])
  BY <1>1, <1>4, FieldsAre
<1>6. /\ \A a \in Endpoint \ {e} : H[a] = G[a]
      /\ P = Field("peer", Nobody)' /\ W = Field("sent", <<>>)'
  BY <1>4, FieldsAre
<1>7. S!Read(e)
  BY <1>2, <1>3, <1>4, <1>5, <1>6 DEF S!Read
<1> QED
  BY <1>7 DEF S!Next

(* What a changed socket and a new one are to Stream.                      *)
LEMMA OneChanged ==
    ASSUME Types, NEW h \in Host, NEW i \in DOMAIN sockets[h], NEW s, s = sockets[h][i],
           NEW t, Changed(h, i, t)
    PROVE  \E e \in Endpoint :
              /\ PeerOf(e) = s.peer /\ Written(e) = s.sent /\ GotOf(e) = s.got
              /\ PeerOf(e)' = t.peer /\ Written(e)' = t.sent /\ GotOf(e)' = t.got
              /\ \A a \in Endpoint : a # e =>
                    /\ PeerOf(a)' = PeerOf(a) /\ Written(a)' = Written(a)
                    /\ GotOf(a)' = GotOf(a)
<1>1. PICK e \in Endpoint : e = <<h, i>> /\ Exists(e) /\ Socket(e) = s
  BY At
<1>2. Exists(e)' /\ Socket(e)' = t
  BY <1>1 DEF Changed, Exists, Socket
<1>3. ASSUME NEW a \in Endpoint, a # e
      PROVE  PeerOf(a)' = PeerOf(a) /\ Written(a)' = Written(a) /\ GotOf(a)' = GotOf(a)
  <2>1. PICK b \in Host, j \in 1 .. MaxSockets : a = <<b, j>> /\ a[1] = b /\ a[2] = j
    BY Named
  <2>2. (Exists(a)' <=> Exists(a)) /\ (Exists(a) => Socket(a)' = Socket(a))
    BY <1>1, <1>3, <2>1 DEF Changed, Exists, Socket
  <2> QED
    BY <2>2 DEF PeerOf, Written, GotOf
<1> QED
  BY <1>1, <1>2, <1>3 DEF PeerOf, Written, GotOf

(* A new socket is what Stream takes a missing one for.                    *)
LEMMA OneMade ==
    ASSUME Types, NEW h \in Host, NEW t, Grown(h, t), t.peer = Nobody, t.sent = <<>>,
           t.got = <<>>, NEW e \in Endpoint
    PROVE  PeerOf(e)' = PeerOf(e) /\ Written(e)' = Written(e) /\ GotOf(e)' = GotOf(e)
<1>1. PICK n \in Nat : n = Len(sockets[h]) /\ DOMAIN sockets[h] = 1 .. n /\ n + 1 \notin 1 .. n
  BY Places
<1>2. PICK a \in Host, j \in 1 .. MaxSockets : e[1] = a /\ e[2] = j
  BY Named
<1>3. CASE a = h
  <2>1. DOMAIN sockets'[h] = 1 .. n + 1 /\ sockets'[h][n + 1] = t
    BY <1>1 DEF Grown
  <2>2. j \in 1 .. n + 1 <=> j \in 1 .. n \/ j = n + 1
    BY <1>1, <1>2
  <2>3. \A i \in 1 .. n : sockets'[h][i] = sockets[h][i]
    BY <1>1 DEF Grown
  <2>4. \/ (Exists(e)' <=> Exists(e)) /\ (Exists(e) => Socket(e)' = Socket(e))
        \/ ~Exists(e) /\ Exists(e)' /\ Socket(e)' = t
    BY <1>1, <1>2, <1>3, <2>1, <2>2, <2>3 DEF Exists, Socket
  <2> QED
    BY <2>4 DEF PeerOf, Written, GotOf
<1>4. CASE a = Other(h)
  BY <1>2, <1>4 DEF Grown, PeerOf, Written, GotOf, Exists, Socket
<1> QED
  BY <1>2, <1>3, <1>4, Hosts

(* Every step is one of Stream, or nothing to it.                          *)
LEMMA StreamNext ==
    ASSUME NoReturn, DistinctPorts, Types, Types', Wiring, Handshake, Fits, InStream, [Next]_vars
    PROVE  [S!Next]_(S!vars)
<1> USE DEF Wiring
<1>1. ASSUME NEW h \in Host, NEW i \in DOMAIN sockets[h], NEW s, s = sockets[h][i],
             NEW t, Changed(h, i, t), t.peer = s.peer, t.sent = s.sent, t.got = s.got
      PROVE  UNCHANGED S!vars
  <2>1. PICK e \in Endpoint :
           /\ PeerOf(e) = s.peer /\ Written(e) = s.sent /\ GotOf(e) = s.got
           /\ PeerOf(e)' = t.peer /\ Written(e)' = t.sent /\ GotOf(e)' = t.got
           /\ \A a \in Endpoint : a # e =>
                 PeerOf(a)' = PeerOf(a) /\ Written(a)' = Written(a) /\ GotOf(a)' = GotOf(a)
    BY <1>1, OneChanged
  <2>2. ASSUME NEW a \in Endpoint
        PROVE  PeerOf(a)' = PeerOf(a) /\ Written(a)' = Written(a) /\ GotOf(a)' = GotOf(a)
    BY <1>1, <2>1
  <2> QED
    BY <2>2, StutterIs
<1>2. ASSUME UNCHANGED sockets PROVE UNCHANGED S!vars
  <2>1. ASSUME NEW a \in Endpoint
        PROVE  PeerOf(a)' = PeerOf(a) /\ Written(a)' = Written(a) /\ GotOf(a)' = GotOf(a)
    BY <1>2 DEF PeerOf, Written, GotOf, Exists, Socket
  <2> QED
    BY <2>1, StutterIs
<1>3. ASSUME NEW h \in Host, Receive(h) PROVE [S!Next]_(S!vars)
  <2>1. PICK i \in DOMAIN sockets[h], g \in SegmentType, out \in Seq(SegmentType) :
           Handled(h, i, g, out)
    BY <1>3, ReceiveIs
  <2>2. PICK s \in SocketType : s = sockets[h][i]
    BY Places
  <2>3. PICK r : r = React(s, g)
    OBVIOUS
  <2>4. PICK t : t = r.sock
    OBVIOUS
  <2>5. Reacts(s, g, r)
    BY <2>3, ReactIs
  <2>6. net[h] # <<>> /\ g = net[h][1] /\ Matches(s, g) /\ Changed(h, i, t)
    BY <2>1, <2>2, <2>3, <2>4 DEF Handled
  <2>7. PICK e \in Endpoint :
           /\ PeerOf(e) = s.peer /\ Written(e) = s.sent /\ GotOf(e) = s.got
           /\ PeerOf(e)' = t.peer /\ Written(e)' = t.sent /\ GotOf(e)' = t.got
           /\ \A a \in Endpoint : a # e =>
                 PeerOf(a)' = PeerOf(a) /\ Written(a)' = Written(a) /\ GotOf(a)' = GotOf(a)
    BY <2>2, <2>6, OneChanged
  <2>8. g.by \in Endpoint /\ g.data \in Bytes /\ s.got \in Got
    BY DEF SegmentType, SocketType
  <2>9. CASE s.state \in {"LISTEN", "SYN_SENT"} /\ t.peer = g.by /\ t.sent = s.sent /\ t.got = s.got
    <3>1. s.peer = Nobody
      BY <2>2, <2>9, Unpaired
    <3> QED
      BY <2>7, <2>8, <2>9, <3>1, PairIs
  <2>10. CASE /\ TakesData(s, g) /\ t.peer = s.peer /\ t.sent = s.sent
              /\ t.got = Append(s.got, g.data)
    <3>1. s.state # "LISTEN"
      <4> SUFFICES ASSUME s.state = "LISTEN" PROVE FALSE
        OBVIOUS
      <4>1. Accepts(s, g)
        BY <2>1, <2>2, OnlySyn
      <4>2. g.flags = {"SYN"} /\ g.flags = {"PSH", "ACK"}
        BY <2>10, <4>1 DEF TakesData, Accepts
      <4> QED
        BY <4>2, Kinds
    <3>2. s.state \in Talking \ {"LISTEN"} /\ IsData(g) /\ g.seq = s.ack
      BY <2>10, <3>1 DEF TakesData, IsData
    <3>3. PICK pos : Streams(pos)
      BY DEF InStream
    <3>4. PICK f \in Endpoint : f = g.by
      BY <2>8
    <3>5. PICK x \in Nat : x = Len(s.got) + 1 /\ Carries(pos, g, x) /\ s.peer = f /\ f # Nobody
      BY <2>2, <2>6, <3>2, <3>3, <3>4, Delivers
    <3>6. PICK w \in Sent : w = Written(f)
      BY WrittenIs
    <3>7. x \in DOMAIN w /\ g.data \in Arrivals(w[x])
      BY <3>4, <3>5, <3>6 DEF Carries
    <3>8. PICK p \in Payload : p = w[x] /\ g.data \in Arrivals(p)
      BY <3>6, <3>7 DEF Sent
    <3>9. Len(s.got) < Len(w)
      <4>1. PICK n \in Nat : n = Len(s.got)
        BY <2>8 DEF Got
      <4>2. x \in 1 .. Len(w) /\ Len(w) \in Nat
        BY <3>6, <3>7 DEF Sent
      <4> QED
        BY <3>5, <4>1, <4>2
    <3>10. Written(f)[Len(GotOf(e)) + 1] = p
      BY <2>7, <3>5, <3>6, <3>8
    <3>11. \A a \in Endpoint : /\ a # e => GotOf(a)' = GotOf(a)
                               /\ PeerOf(a)' = PeerOf(a) /\ Written(a)' = Written(a)
      BY <2>7, <2>10
    <3>12. GotOf(e)' = Append(GotOf(e), g.data) /\ GotOf(e) \in Got
      BY <2>7, <2>8, <2>10
    <3>13. Len(GotOf(e)) < Len(Written(f)) /\ PeerOf(e) = f
      BY <2>7, <3>5, <3>6, <3>9
    <3>14. S!Next
      BY <2>8, <3>5, <3>8, <3>10, <3>11, <3>12, <3>13, ReadIs
    <3> QED
      BY <3>14
  <2>11. CASE t.peer = s.peer /\ t.sent = s.sent /\ t.got = s.got
    BY <1>1, <2>2, <2>6, <2>11
  <2>12. \/ s.state \in {"LISTEN", "SYN_SENT"} /\ t.peer = g.by /\ t.sent = s.sent /\ t.got = s.got
         \/ /\ TakesData(s, g) /\ t.peer = s.peer /\ t.sent = s.sent
            /\ t.got = Append(s.got, g.data)
         \/ t.peer = s.peer /\ t.sent = s.sent /\ t.got = s.got
    BY <2>4, <2>5 DEF Reacts, Became, Accepts, Connects
  <2> QED
    BY <2>9, <2>10, <2>11, <2>12
<1>4. ASSUME NEW h \in Host, NEW t, Grown(h, t), t.peer = Nobody, t.sent = <<>>, t.got = <<>>
      PROVE  UNCHANGED S!vars
  BY <1>4, OneMade, StutterIs
<1>5. ASSUME NEW h \in Host, Connect(h) \/ Listen(h) PROVE UNCHANGED S!vars
  <2>1. \A x, l, r : LET t == NewSocket(x, l, r)
                     IN  t.peer = Nobody /\ t.sent = <<>> /\ t.got = <<>>
    BY DEF NewSocket
  <2>2. \/ Grown(h, NewSocket("SYN_SENT", freePort[h], ListenPort))
        \/ Grown(h, NewSocket("LISTEN", ListenPort, NoPort))
    BY <1>5, ConnectIs, ListenIs
  <2> QED
    BY <1>4, <2>1, <2>2
<1>6. ASSUME NEW h \in Host, NEW i \in DOMAIN sockets[h], Bind(h, i) PROVE UNCHANGED S!vars
  <2>1. PICK s \in SocketType :
           s = sockets[h][i] /\ Changed(h, i, [s EXCEPT !.handler = TRUE])
    BY <1>6, BindIs, Places DEF Made
  <2>2. PICK t : t = [s EXCEPT !.handler = TRUE]
    OBVIOUS
  <2>3. t.peer = s.peer /\ t.sent = s.sent /\ t.got = s.got
    BY <2>2 DEF SocketType
  <2> QED
    BY <1>1, <2>1, <2>2, <2>3
<1>7. ASSUME NEW h \in Host, NEW i \in DOMAIN sockets[h], CallDisconnect(h, i)
      PROVE  UNCHANGED S!vars
  <2>1. PICK s \in SocketType :
           /\ s = sockets[h][i]
           /\ Changed(h, i, [s EXCEPT !.state = "FIN_WAIT1", !.left = TRUE])
    BY <1>7, DisconnectIs, Places DEF Made
  <2>2. PICK t : t = [s EXCEPT !.state = "FIN_WAIT1", !.left = TRUE]
    OBVIOUS
  <2>3. t.peer = s.peer /\ t.sent = s.sent /\ t.got = s.got
    BY <2>2 DEF SocketType
  <2> QED
    BY <1>1, <2>1, <2>2, <2>3
<1>8. ASSUME NEW h \in Host, SendFin(h) PROVE UNCHANGED S!vars
  <2>1. PICK i \in DOMAIN sockets[h], s \in SocketType :
           s = sockets[h][i] /\ Changed(h, i, [s EXCEPT !.seq = Plus(s.seq, 1)])
    BY <1>8, SendFinIs, Places DEF Made
  <2>2. PICK t : t = [s EXCEPT !.seq = Plus(s.seq, 1)]
    OBVIOUS
  <2>3. t.peer = s.peer /\ t.sent = s.sent /\ t.got = s.got
    BY <2>2 DEF SocketType
  <2> QED
    BY <1>1, <2>1, <2>2, <2>3
<1>9. ASSUME NEW h \in Host, Transmit(h) PROVE [S!Next]_(S!vars)
  <2>1. PICK i \in DOMAIN sockets[h], p \in Payload, wire \in Bytes :
           /\ app[h].on = i /\ wire \in Arrivals(p)
           /\ Made(h, i, [sockets[h][i] EXCEPT !.seq = Plus(@, Len(p)), !.sent = Append(@, p)],
                   <<Segment(h, i, sockets[h][i], {"PSH", "ACK"}, sockets[h][i].seq, wire)>>)
    BY <1>9, TransmitIs
  <2>2. PICK s \in SocketType : s = sockets[h][i]
    BY Places
  <2>3. PICK t : t = [s EXCEPT !.seq = Plus(s.seq, Len(p)), !.sent = Append(s.sent, p)]
    OBVIOUS
  <2>4. Changed(h, i, t)
    BY <2>1, <2>2, <2>3 DEF Made
  <2>5. t.peer = s.peer /\ t.got = s.got /\ t.sent = Append(s.sent, p)
    BY <2>3 DEF SocketType
  <2>6. PICK e \in Endpoint :
           /\ PeerOf(e) = s.peer /\ Written(e) = s.sent /\ GotOf(e) = s.got
           /\ PeerOf(e)' = t.peer /\ Written(e)' = t.sent /\ GotOf(e)' = t.got
           /\ \A a \in Endpoint : a # e =>
                 PeerOf(a)' = PeerOf(a) /\ Written(a)' = Written(a) /\ GotOf(a)' = GotOf(a)
    BY <2>2, <2>4, OneChanged
  <2>7. /\ Written(e)' = Append(Written(e), p)
        /\ \A a \in Endpoint : /\ a # e => Written(a)' = Written(a)
                               /\ PeerOf(a)' = PeerOf(a) /\ GotOf(a)' = GotOf(a)
    BY <2>5, <2>6
  <2>8. S!Next
    BY <2>7, WriteIs
  <2> QED
    BY <2>8
<1>10. ASSUME NEW h \in Host, ReceiveUnknown(h) \/ Lose(h) \/ SpinEnds(h) PROVE UNCHANGED S!vars
  BY <1>2, <1>10 DEF ReceiveUnknown, Lose, SpinEnds
<1>11. ASSUME NEW h \in Host, NEW i \in DOMAIN sockets[h], CallSend(h, i) PROVE UNCHANGED S!vars
  BY <1>2, <1>11 DEF CallSend
<1>12. CASE UNCHANGED vars
  BY <1>2, <1>12 DEF vars
<1>13. UNCHANGED S!vars \/ [S!Next]_(S!vars)
  BY <1>3, <1>5, <1>6, <1>7, <1>8, <1>9, <1>10, <1>11, <1>12 DEF Next
<1> QED
  BY <1>13

(* No socket exists at first.                                              *)
LEMMA StreamStart == ASSUME Init PROVE S!Init
<1>1. \A h \in Host : DOMAIN sockets[h] = {}
  BY DEF Init
<1>2. ASSUME NEW e \in Endpoint PROVE PeerOf(e) = Nobody /\ Written(e) = <<>> /\ GotOf(e) = <<>>
  <2>1. ~Exists(e)
    BY <1>1, Named DEF Exists
  <2> QED
    BY <2>1 DEF PeerOf, Written, GotOf
<1> QED
  BY <1>2, FieldsAre DEF S!Init

(* What Stream promises of a connection, TCP does: messages in order, each *)
(* once, each whole unless IPv4 cuts it for its totalLength ...            *)
THEOREM ConnectionsAreStreams ==
    DistinctPorts /\ CountedRight /\ NoReturn => (Spec => ImplementsStream)
<1> SUFFICES ASSUME DistinctPorts, CountedRight, NoReturn PROVE Spec => ImplementsStream
  OBVIOUS
<1> DEFINE Inv == Types /\ Wiring /\ Handshake /\ Fits /\ InStream
<1>1. Init => Inv /\ S!Init
  BY InitIs, StreamInit, StreamStart
<1>2. Inv /\ [Next]_vars => Inv'
  <2> SUFFICES ASSUME Inv, [Next]_vars PROVE Inv'
    OBVIOUS
  <2>1. Types'
    BY TypesStep
  <2>2. Wiring' /\ Handshake' /\ Fits' /\ InStream'
    <3>1. Wiring' /\ Handshake' /\ Fits'
      BY <2>1, WiringStep, HandshakeStep, FitsStep
    <3>2. PICK pos : Streams(pos)
      BY DEF InStream
    <3>3. PICK new : Streams(new)'
      BY <2>1, <3>2, StreamsStep
    <3> QED
      BY <3>1, <3>3 DEF InStream
  <2> QED
    BY <2>1, <2>2
<1>3. Inv /\ Inv' /\ [Next]_vars => [S!Next]_(S!vars)
  BY StreamNext
<1> HIDE DEF Inv
<1> QED
  BY <1>1, <1>2, <1>3, PTL DEF Spec, ImplementsStream, S!Spec

----------------------------------------------------------------------------
(***************************************************************************)
(* On a link that loses nothing.  A socket waits for nothing that is not   *)
(* on its way: all that its peer sent and that it was not given is in the  *)
(* queue to it, while it is connected and has refused nothing.             *)
OnWay(pos, a, f, x) ==
    \E n \in DOMAIN net[a] :
       IsData(net[a][n]) /\ net[a][n].by = f /\ Carries(pos, net[a][n], x)

(* The ACK of the SYN|ACK, before all data.                                *)
Announced(a, f) ==
    \E m \in DOMAIN net[a] :
       /\ net[a][m].by = f /\ net[a][m].flags = {"ACK"}
       /\ \A n \in DOMAIN net[a] : n <= m /\ IsData(net[a][n]) => net[a][n].by # f

Miscounted(f) ==
    \E x \in DOMAIN Written(f) : Last(Written(f)[x]) = 0 \/ IsCut(Written(f)[x])

Receiving == {"SYN_RECEIVED", "ESTABLISHED"}

Opening(h, i) ==
    sockets[h][i].state = "SYN_RECEIVED" /\ Mutual(h, i) => Announced(h, sockets[h][i].peer)

Awaiting(pos, h, s) ==
    s.state \in Receiving /\ s.refused = "no" =>
       \A x \in Nat : Len(s.got) < x /\ x <= Len(Written(s.peer)) => OnWay(pos, h, s.peer, x)

Counting(pos, s) ==
    s.state \in Receiving =>
       Miscounted(s.peer) \/ s.ack = pos[s.peer][Len(s.got) + 1] % SeqSpace

Finished(s) ==
    s.state = "CLOSE_WAIT" =>
       IsLeft(s.peer) /\ (s.refused = "no" => Len(s.got) = Len(Written(s.peer)))

Faultless(s) ==
    s.refused = "order" => s.left \/ (s.peer \in Endpoint /\ Miscounted(s.peer))

Whole(pos, h, i) ==
    /\ Opening(h, i)
    /\ Awaiting(pos, h, sockets[h][i])
    /\ Counting(pos, sockets[h][i])
    /\ Finished(sockets[h][i])
    /\ Faultless(sockets[h][i])

Complete(pos) == \A h \in Host : \A i \in DOMAIN sockets[h] : Whole(pos, h, i)

(* A step that takes nothing back: at most one segment leaves a queue, and *)
(* what was written since is on its way.                                   *)
Proceeds(h, d, out, pos, new) ==
    /\ Queued(h, d, out) /\ DOMAIN out \subseteq Nat /\ SameNumbers(pos, new)
    /\ \A f \in Endpoint :
          /\ IsLeft(f) => IsLeft(f)' /\ Written(f)' = Written(f)
          /\ Len(Written(f)) <= Len(Written(f)')
          /\ \A x \in DOMAIN Written(f) :
                x \in DOMAIN Written(f)' /\ Written(f)'[x] = Written(f)[x]
          /\ \A x \in Nat : Len(Written(f)) < x /\ x <= Len(Written(f)')
                               => OnWay(new, Other(f[1]), f, x)'

(* A segment that is not taken stays, one place nearer in the queue that   *)
(* one was taken from.                                                     *)
LEMMA StaysAt ==
    ASSUME Types, Types', NEW h \in Host, NEW d \in {0, 1}, NEW out \in Seq(SegmentType),
           Queued(h, d, out), NEW a \in Host, NEW n \in DOMAIN net[a], a # h \/ n > d
    PROVE  \E m \in DOMAIN net'[a] : net'[a][m] = net[a][n] /\ m = IF a = h THEN n - d ELSE n
<1> DEFINE k == Other(h)
<1>1. k \in Host /\ k # h /\ (a = h \/ a = k)
  BY Hosts
<1>2. /\ Len(net[a]) \in Nat /\ DOMAIN net[a] = 1 .. Len(net[a])
      /\ Len(net'[a]) \in Nat /\ DOMAIN net'[a] = 1 .. Len(net'[a])
  BY DEF Types
<1>3. CASE a = h
  <2>1. Len(net'[a]) = Len(net[a]) - d
    BY <1>3 DEF Queued
  <2>2. n - d \in DOMAIN net'[a]
    BY <1>2, <1>3, <2>1
  <2>3. net'[a][n - d] = net[a][(n - d) + d]
    BY <1>3, <2>2 DEF Queued
  <2>4. (n - d) + d = n
    BY <1>2
  <2> QED
    BY <1>3, <2>2, <2>3, <2>4
<1>4. CASE a = k
  <2>1. Len(net'[a]) = Len(net[a]) + Len(out)
    BY <1>4 DEF Queued
  <2>2. n \in DOMAIN net'[a]
    <3>1. Len(out) \in Nat
      OBVIOUS
    <3> QED
      BY <1>2, <2>1, <3>1
  <2>3. n <= Len(net[a])
    BY <1>2
  <2>4. \A x \in DOMAIN net'[a] : x <= Len(net[a]) => net'[a][x] = net[a][x]
    BY <1>4 DEF Queued
  <2> QED
    BY <1>1, <1>4, <2>2, <2>3, <2>4
<1> QED
  BY <1>1, <1>3, <1>4

(* A message keeps its number and its content.                             *)
LEMMA CarriesKept ==
    ASSUME NEW h, NEW d, NEW out, NEW pos, NEW new, Proceeds(h, d, out, pos, new),
           Types, Fits, NEW g, g.by \in Endpoint, NEW x, Carries(pos, g, x)
    PROVE  Carries(new, g, x)'
<1>1. PICK f \in Endpoint : f = g.by
  OBVIOUS
<1>2. x \in DOMAIN Written(f) /\ g.seq = pos[f][x] % SeqSpace /\ g.data \in Arrivals(Written(f)[x])
  BY <1>1 DEF Carries
<1>3. x \in 1 .. Len(Written(f)) + 1
  <2>1. x \in Nat /\ x >= 1 /\ x <= Len(Written(f)) /\ Written(f) \in Sent
    BY <1>2, WrittenIs
  <2>2. Len(Written(f)) \in Nat
    BY <2>1 DEF Sent
  <2> QED
    BY <2>1, <2>2
<1>4. new[f][x] = pos[f][x]
  BY <1>3 DEF Proceeds, SameNumbers
<1>5. x \in DOMAIN Written(f)' /\ Written(f)'[x] = Written(f)[x]
  BY <1>2 DEF Proceeds
<1>6. /\ x \in DOMAIN Written(f)' /\ g.seq = new[f][x] % SeqSpace
      /\ g.data \in Arrivals(Written(f)'[x])
  BY <1>2, <1>4, <1>5
<1> QED
  BY <1>1, <1>6 DEF Carries

(* What is on its way stays so, unless it is what is taken ...             *)
LEMMA OnWayKept ==
    ASSUME Types, Types', Fits, Wires, NEW h \in Host, NEW d \in {0, 1},
           NEW out \in Seq(SegmentType), NEW pos, NEW new, Proceeds(h, d, out, pos, new),
           NEW a \in Host, NEW f \in Endpoint, NEW x \in Nat, OnWay(pos, a, f, x),
           a = h /\ d = 1 /\ net[h][1].by = f /\ IsData(net[h][1]) => ~Carries(pos, net[h][1], x)
    PROVE  OnWay(new, a, f, x)'
<1>1. PICK n \in DOMAIN net[a] :
         IsData(net[a][n]) /\ net[a][n].by = f /\ Carries(pos, net[a][n], x)
  BY DEF OnWay
<1>2. PICK g \in SegmentType : g = net[a][n]
  BY Places
<1>3. a # h \/ n > d
  <2>1. n \in Nat /\ n >= 1
    BY Places
  <2>2. ~(a = h /\ d = 1 /\ n = 1)
    BY <1>1
  <2> QED
    BY <2>1, <2>2
<1>4. PICK m \in DOMAIN net'[a] : net'[a][m] = g
  BY <1>2, <1>3, StaysAt DEF Proceeds
<1>5. Carries(new, g, x)'
  BY <1>1, <1>2, CarriesKept
<1>6. IsData(g) /\ g.by = f
  BY <1>1, <1>2
<1> QED
  BY <1>4, <1>5, <1>6 DEF OnWay, IsData, Carries

(* ... and so does an ACK with no data before it.                          *)
LEMMA AnnouncedKept ==
    ASSUME Types, Types', NEW h \in Host, NEW d \in {0, 1}, NEW out \in Seq(SegmentType),
           Queued(h, d, out), NEW a \in Host, NEW f, Announced(a, f),
           a = h /\ d = 1 => net[h][1].by # f \/ net[h][1].flags # {"ACK"}
    PROVE  Announced(a, f)'
<1>1. PICK m \in DOMAIN net[a] :
         /\ net[a][m].by = f /\ net[a][m].flags = {"ACK"}
         /\ \A n \in DOMAIN net[a] : n <= m /\ IsData(net[a][n]) => net[a][n].by # f
  BY DEF Announced
<1>2. m \in Nat /\ m >= 1
  BY Places
<1>3. a # h \/ m > d
  <2>1. ~(a = h /\ d = 1 /\ m = 1)
    BY <1>1
  <2> QED
    BY <1>2, <2>1
<1>4. PICK z \in DOMAIN net'[a] : net'[a][z] = net[a][m] /\ z = IF a = h THEN m - d ELSE m
  BY <1>3, StaysAt
<1>5. z \in Int
  BY <1>2, <1>4
<1>6. ASSUME NEW n \in DOMAIN net'[a], n <= z, IsData(net'[a][n])
      PROVE  net'[a][n].by # f
  <2>1. n \in Int /\ DOMAIN out \subseteq Nat
    <3>1. net'[a] \in Seq(SegmentType)
      BY DEF Types
    <3> QED
      BY <3>1
  <2>2. CASE \E l \in DOMAIN net[a] : net'[a][n] = net[a][l] /\ l = IF a = h THEN n + d ELSE n
    <3>1. PICK l \in DOMAIN net[a] : net'[a][n] = net[a][l] /\ l = IF a = h THEN n + d ELSE n
      BY <2>2
    <3>2. l <= m
      BY <1>2, <1>4, <1>6, <2>1, <3>1
    <3>3. IsData(net[a][l])
      BY <1>6, <3>1
    <3> QED
      BY <1>1, <3>1, <3>2, <3>3
  <2>3. CASE a = Other(h) /\ \A l \in DOMAIN net[a] : l < n
    <3>1. m < n /\ a # h
      BY <2>3, Hosts
    <3>2. z = m
      BY <1>4, <3>1
    <3> QED
      BY <1>2, <1>6, <2>1, <3>1, <3>2
  <2> QED
    BY <2>1, <2>2, <2>3, Positions
<1>7. net'[a][z].by = f /\ net'[a][z].flags = {"ACK"}
  BY <1>1, <1>4
<1> QED
  BY <1>6, <1>7 DEF Announced, IsData

(* A message that is not counted in full has been sent for good.           *)
LEMMA MiscountedKept ==
    ASSUME NEW h, NEW d, NEW out, NEW pos, NEW new, Proceeds(h, d, out, pos, new),
           NEW f \in Endpoint, Miscounted(f)
    PROVE  Miscounted(f)'
<1>1. PICK x \in DOMAIN Written(f) : Last(Written(f)[x]) = 0 \/ IsCut(Written(f)[x])
  BY DEF Miscounted
<1>2. x \in DOMAIN Written(f)' /\ Written(f)'[x] = Written(f)[x]
  BY DEF Proceeds
<1> QED
  BY <1>1, <1>2 DEF Miscounted

(* A socket that has been answered has a peer.                             *)
LEMMA Partner ==
    ASSUME Types, Wires, Handshake, NEW h \in Host, NEW i \in DOMAIN sockets[h],
           sockets[h][i].state \in Receiving \cup {"CLOSE_WAIT"}
    PROVE  \E j \in DOMAIN sockets[Other(h)] :
              /\ sockets[h][i].peer = <<Other(h), j>> /\ <<Other(h), j>> \in Endpoint
              /\ Exists(<<Other(h), j>>)
<1>1. Linked(h, i) /\ Settled(h, i)
  BY DEF Wires, Handshake
<1>2. \E j \in DOMAIN sockets[Other(h)] : sockets[h][i].peer = <<Other(h), j>>
  BY <1>1 DEF Linked, Waiter, Opener, Accepter, Calling, Settled, Mutual, Receiving
<1> QED
  BY <1>2, At, Hosts

(* What a step may do to a socket and its queue without spoiling Whole.    *)
Spared(h, d, a, c, s, t) ==
    /\ t.peer = s.peer /\ t.got = s.got /\ (s.left => t.left)
    /\ t.state \in Receiving => t.ack = s.ack
    /\ \/ t.state = s.state
       \/ t.state \notin Receiving \cup {"CLOSE_WAIT"}
       \/ s.state = "SYN_RECEIVED" /\ t.state = "ESTABLISHED"
    /\ t.refused = s.refused \/ t.refused # "no"
    /\ t.state = "SYN_RECEIVED" /\ Mutual(a, c)' => Mutual(a, c) \/ Announced(a, t.peer)'
    /\ a = h /\ d = 1 /\ net[h][1].by = s.peer =>
          /\ IsData(net[h][1]) => t.refused # "no" \/ t.state \notin Receiving
          /\ net[h][1].flags = {"ACK"} => t.state # "SYN_RECEIVED"

(* A socket that is spared stays whole.                                    *)
LEMMA WholeKept ==
    ASSUME Types, Types', Fits, Wires, Handshake, NEW h \in Host, NEW d \in {0, 1},
           NEW out \in Seq(SegmentType), NEW pos, NEW new, Streams(pos),
           Proceeds(h, d, out, pos, new),
           NEW a \in Host, NEW c \in DOMAIN sockets[a], Whole(pos, a, c),
           NEW s \in SocketType, s = sockets[a][c], NEW t, t = sockets'[a][c],
           Spared(h, d, a, c, s, t),
           t.refused # s.refused => Faultless(t)'
    PROVE  Whole(new, a, c)'
<1>1. /\ Opening(a, c) /\ Awaiting(pos, a, s) /\ Counting(pos, s)
      /\ Finished(s) /\ Faultless(s)
  BY DEF Whole
<1>2. /\ t.peer = s.peer /\ t.got = s.got
      /\ t.state \in Receiving => t.ack = s.ack /\ s.state \in Receiving
      /\ t.state \in {"SYN_RECEIVED", "CLOSE_WAIT"} => s.state = t.state
  BY DEF Spared, Receiving
<1>3. ASSUME s.state \in Receiving \cup {"CLOSE_WAIT"}
      PROVE  /\ s.peer \in Endpoint /\ Exists(s.peer) /\ Other(s.peer[1]) = a
  <2>1. PICK j \in DOMAIN sockets[Other(a)] :
           /\ sockets[a][c].peer = <<Other(a), j>> /\ <<Other(a), j>> \in Endpoint
           /\ Exists(<<Other(a), j>>)
    BY <1>3, Partner
  <2>2. Other(Other(a)) = a
    BY Hosts
  <2> QED
    BY <2>1, <2>2
<1>4. Opening(a, c)'
  <2> SUFFICES ASSUME t.state = "SYN_RECEIVED", Mutual(a, c)', ~Announced(a, t.peer)'
               PROVE  Announced(a, t.peer)'
    BY <1>2 DEF Opening
  <2>1. s.state = "SYN_RECEIVED" /\ Mutual(a, c)
    BY <1>2 DEF Spared
  <2>2. Announced(a, s.peer)
    BY <1>1, <2>1 DEF Opening
  <2>3. a = h /\ d = 1 => net[h][1].by # s.peer \/ net[h][1].flags # {"ACK"}
    BY DEF Spared
  <2>4. PICK f : f = s.peer
    OBVIOUS
  <2>5. Announced(a, f)'
    BY <2>2, <2>3, <2>4, AnnouncedKept DEF Proceeds
  <2> QED
    BY <1>2, <2>4, <2>5 DEF Announced
<1>5. Awaiting(new, a, t)'
  <2> SUFFICES ASSUME t.state \in Receiving, t.refused = "no", NEW x \in Nat,
                      Len(t.got) < x, x <= Len(Written(t.peer)')
               PROVE  OnWay(new, a, t.peer, x)'
    BY DEF Awaiting
  <2>1. s.state \in Receiving /\ s.refused = "no"
    BY <1>2 DEF Spared
  <2>2. PICK f \in Endpoint : f = s.peer /\ Other(f[1]) = a
    BY <1>3, <2>1
  <2>3. CASE x <= Len(Written(f))
    <3>1. OnWay(pos, a, f, x)
      BY <1>1, <1>2, <2>1, <2>2, <2>3 DEF Awaiting
    <3>2. ~(a = h /\ d = 1 /\ net[h][1].by = f /\ IsData(net[h][1]))
      BY <2>2 DEF Spared
    <3>3. OnWay(new, a, f, x)'
      BY <3>1, <3>2, OnWayKept
    <3> QED
      BY <1>2, <2>2, <3>3
  <2>4. CASE ~(x <= Len(Written(f)))
    <3>1. Len(Written(f)) < x
      <4>1. Written(f) \in Sent
        BY WrittenIs
      <4>2. Len(Written(f)) \in Nat
        BY <4>1 DEF Sent
      <4> QED
        BY <2>4, <4>2
    <3>2. x <= Len(Written(f)')
      BY <1>2, <2>2
    <3>3. OnWay(new, Other(f[1]), f, x)'
      BY <3>1, <3>2 DEF Proceeds
    <3> QED
      BY <1>2, <2>2, <3>3
  <2> QED
    BY <2>3, <2>4
<1>6. Counting(new, t)'
  <2> SUFFICES ASSUME t.state \in Receiving, ~Miscounted(t.peer)'
               PROVE  t.ack = new[t.peer][Len(t.got) + 1] % SeqSpace
    BY DEF Counting
  <2>1. s.state \in Receiving
    BY <1>2
  <2>2. PICK f \in Endpoint : f = s.peer
    BY <1>3, <2>1
  <2>3. ~Miscounted(f)
    BY <1>2, <2>2, MiscountedKept
  <2>4. s.ack = pos[f][Len(s.got) + 1] % SeqSpace
    BY <1>1, <2>1, <2>2, <2>3 DEF Counting
  <2>5. new[f][Len(s.got) + 1] = pos[f][Len(s.got) + 1]
    <3>1. Len(s.got) \in Nat
      BY DEF SocketType, Got
    <3>2. Len(s.got) <= Len(Written(f))
      <4>1. Receiver(pos, <<a, c>>) /\ Exists(<<a, c>>) /\ Socket(<<a, c>>) = s
        BY At DEF Streams
      <4> QED
        BY <2>2, <4>1, NobodyIsNone DEF Receiver
    <3>3. Written(f) \in Sent
      BY WrittenIs
    <3>4. Len(s.got) + 1 \in 1 .. Len(Written(f)) + 1
      BY <3>1, <3>2, <3>3 DEF Sent
    <3> QED
      BY <3>4 DEF Proceeds, SameNumbers
  <2> QED
    BY <1>2, <2>2, <2>4, <2>5
<1>7. Finished(t)'
  <2> SUFFICES ASSUME t.state = "CLOSE_WAIT"
               PROVE  /\ IsLeft(t.peer)'
                      /\ t.refused = "no" => Len(t.got) = Len(Written(t.peer)')
    BY DEF Finished
  <2>1. s.state = "CLOSE_WAIT"
    BY <1>2
  <2>2. PICK f \in Endpoint : f = s.peer
    BY <1>3, <2>1
  <2>3. IsLeft(f) /\ (s.refused = "no" => Len(s.got) = Len(Written(f)))
    BY <1>1, <2>1, <2>2 DEF Finished
  <2>4. IsLeft(f)' /\ Written(f)' = Written(f)
    BY <2>3 DEF Proceeds
  <2>5. t.refused = "no" => s.refused = "no"
    BY DEF Spared
  <2> QED
    BY <1>2, <2>2, <2>3, <2>4, <2>5
<1>8. Faultless(t)'
  <2>1. CASE t.refused = s.refused
    <3> SUFFICES ASSUME s.refused = "order", ~t.left
                 PROVE  t.peer \in Endpoint /\ Miscounted(t.peer)'
      BY <2>1 DEF Faultless
    <3>1. s.peer \in Endpoint /\ Miscounted(s.peer)
      BY <1>1 DEF Faultless, Spared
    <3>2. PICK f \in Endpoint : f = s.peer
      BY <3>1
    <3>3. Miscounted(f)'
      BY <3>1, <3>2, MiscountedKept
    <3> QED
      BY <1>2, <3>2, <3>3
  <2> QED
    BY <2>1
<1> QED
  BY <1>4, <1>5, <1>6, <1>7, <1>8 DEF Whole

(* A segment from the peer of a connected socket matches that socket.      *)
LEMMA PeerMatches ==
    ASSUME DistinctPorts, Types, Wires, Handshake, NEW h \in Host, NEW c \in DOMAIN sockets[h],
           sockets[h][c].state \in Receiving \cup {"CLOSE_WAIT"},
           NEW g, NEW j \in DOMAIN sockets[Other(h)], From(h, g, j),
           g.by = sockets[h][c].peer
    PROVE  Matches(sockets[h][c], g)
<1>1. PICK k \in Host : k = Other(h) /\ h = Other(k)
  BY Hosts
<1>2. PICK s, u : s = sockets[h][c] /\ u = sockets[k][j]
  OBVIOUS
<1>3. /\ g.src = u.lport /\ g.dst = u.rport /\ s.peer = <<k, j>> /\ u.state # "LISTEN"
      /\ s.state \in Receiving \cup {"CLOSE_WAIT"} /\ s.peer # Nobody
  <2>1. <<k, j>> \in Endpoint
    BY <1>1, At
  <2> QED
    BY <1>1, <1>2, <2>1, NobodyIsNone DEF From
<1>4. Linked(h, c) /\ Linked(k, j)
  BY <1>1 DEF Wires
<1>5. CASE Accepter(s) /\ Calling(h, c)
  <2>1. PICK z \in DOMAIN sockets[k] :
           s.peer = <<k, z>> /\ Opener(sockets[k][z]) /\ s.rport = sockets[k][z].lport
    BY <1>1, <1>2, <1>5 DEF Calling
  <2>2. z = j
    BY <1>3, <2>1
  <2> QED
    BY <1>2, <1>3, <1>5, <2>1, <2>2 DEF Matches, Opener, Accepter
<1>6. CASE Opener(s) /\ Answered(h, c)
  <2>1. Accepter(u) /\ u.peer = <<h, c>>
    <3>1. PICK z \in DOMAIN sockets[k] :
             /\ s.peer = <<k, z>> /\ Accepter(sockets[k][z])
             /\ sockets[k][z].peer = <<h, c>>
      BY <1>1, <1>2, <1>6 DEF Answered
    <3>2. z = j
      BY <1>3, <3>1
    <3> QED
      BY <1>2, <3>1, <3>2
  <2>2. Calling(k, j)
    BY <1>1, <1>2, <1>3, <1>4, <2>1, Apart DEF Linked, Waiter
  <2>3. u.rport = s.lport
    <3>1. PICK z \in DOMAIN sockets[h] : u.peer = <<h, z>> /\ u.rport = sockets[h][z].lport
      BY <1>1, <1>2, <2>2 DEF Calling
    <3>2. z = c
      BY <2>1, <3>1
    <3> QED
      BY <1>2, <3>1, <3>2
  <2> QED
    BY <1>2, <1>3, <1>6, <2>1, <2>3 DEF Matches, Opener, Accepter
<1> QED
  BY <1>2, <1>3, <1>4, <1>5, <1>6 DEF Linked, Waiter

(* No other socket takes it ...                                            *)
LEMMA Belongs ==
    ASSUME DistinctPorts, Types, Wires, Handshake, NEW h \in Host, NEW c \in DOMAIN sockets[h],
           sockets[h][c].state \in Receiving \cup {"CLOSE_WAIT"},
           NEW g \in SegmentType, NEW j \in DOMAIN sockets[Other(h)], From(h, g, j),
           g.by = sockets[h][c].peer,
           NEW i \in DOMAIN sockets[h], Matches(sockets[h][i], g)
    PROVE  i = c
<1> SUFFICES ASSUME i # c PROVE FALSE
  OBVIOUS
<1>1. PICK k \in Host : k = Other(h) /\ h = Other(k)
  BY Hosts
<1>2. PICK s, u, t : s = sockets[h][c] /\ u = sockets[k][j] /\ t = sockets[h][i]
  OBVIOUS
<1>3. /\ g.src = u.lport /\ g.dst = u.rport /\ s.peer = <<k, j>> /\ g.by = <<k, j>>
      /\ s.state \in Receiving \cup {"CLOSE_WAIT"} /\ s.peer # Nobody
  <2>1. <<k, j>> \in Endpoint
    BY <1>1, At
  <2> QED
    BY <1>1, <1>2, <2>1, NobodyIsNone DEF From
<1>4. t.state # "LISTEN"
  <2> SUFFICES ASSUME t.state = "LISTEN" PROVE FALSE
    OBVIOUS
  <2>1. Waiter(t)
    BY <1>2 DEF Wires, Linked, Opener, Accepter
  <2>2. u.lport \in Nat
    BY <1>1, <1>2, Places DEF SocketType
  <2>3. g.flags \cap {"SYN", "ACK"} = {"SYN"}
    BY <1>2, <1>3, <2>1, <2>2 DEF Matches, Waiter, NoPort
  <2>4. "SYN" \in g.flags /\ "ACK" \notin g.flags
    BY <2>3
  <2>5. g.flags = {"SYN"}
    BY <2>4 DEF SegmentType, FlagSets
  <2> QED
    BY <1>2, <1>3, <2>5 DEF From
<1>5. IF u.lport = ListenPort THEN u.peer = <<h, i>> ELSE t.peer = <<k, j>>
  BY <1>1, <1>2, <1>4, Meets
<1>6. CASE t.peer = <<k, j>>
  <2>1. Distinct(h, i, c)
    BY SMTT(30) DEF Wires
  <2> QED
    BY <1>2, <1>3, <1>6, <2>1 DEF Distinct
<1>7. CASE u.lport = ListenPort /\ u.peer = <<h, i>>
  <2>1. Linked(h, c) /\ Settled(h, c)
    BY DEF Wires, Handshake
  <2>2. ~Opener(u)
    BY <1>7, Apart
  <2>3. CASE Accepter(s) /\ Calling(h, c)
    BY <1>1, <1>2, <1>3, <2>2, <2>3 DEF Calling
  <2>4. CASE Opener(s) /\ Answered(h, c)
    BY <1>1, <1>2, <1>3, <1>7, <2>4 DEF Answered
  <2> QED
    BY <1>2, <1>3, <2>1, <2>3, <2>4 DEF Linked, Waiter
<1> QED
  BY <1>5, <1>6, <1>7

(* A set of natural numbers has a least one.                               *)
LEMMA LeastOne ==
    ASSUME NEW T \in SUBSET Nat, T # {}
    PROVE  \E m \in T : \A k \in T : m <= k
<1> DEFINE R == OpToRel(<, Nat)
<1>1. \A x, y \in Nat : <<y, x>> \in R <=> y < x
  BY DEF OpToRel
<1>2. IsWellFoundedOn(R, Nat)
  BY NatLessThanWellFounded
<1> HIDE DEF R
<1>3. PICK m \in T : \A y \in T : ~(<<y, m>> \in R)
  BY <1>2, WFMin
<1>4. \A y \in T : y \in Nat /\ m \in Nat /\ ~(y < m)
  BY <1>1, <1>3
<1> QED
  BY <1>4

(* ... and that one does.                                                  *)
LEMMA Unhandled ==
    ASSUME DistinctPorts, Types, Wires, Handshake, NEW h \in Host, net[h] # <<>>,
           Lookup(h, Head(net[h])) = {}, NEW c \in DOMAIN sockets[h],
           sockets[h][c].state \in Receiving \cup {"CLOSE_WAIT"}
    PROVE  net[h][1].by # sockets[h][c].peer
<1> SUFFICES ASSUME net[h][1].by = sockets[h][c].peer PROVE FALSE
  OBVIOUS
<1>1. PICK g \in SegmentType : g = net[h][1] /\ Head(net[h]) = g /\ 1 \in DOMAIN net[h]
  BY Places
<1>2. PICK j \in DOMAIN sockets[Other(h)] : From(h, g, j)
  BY <1>1 DEF Wires, Genuine
<1>3. Matches(sockets[h][c], g)
  BY <1>1, <1>2, PeerMatches
<1> DEFINE T == {i \in DOMAIN sockets[h] : Matches(sockets[h][i], g)}
<1>4. T \in SUBSET Nat /\ T # {}
  BY <1>3, Places
<1>5. PICK m \in T : \A i \in T : m <= i
  <2> HIDE DEF T
  <2> QED
    BY <1>4, LeastOne
<1>6. \A i \in 1 .. m - 1 : ~Matches(sockets[h][i], g)
  <2> SUFFICES ASSUME NEW i \in 1 .. m - 1, Matches(sockets[h][i], g) PROVE FALSE
    OBVIOUS
  <2>1. i \in DOMAIN sockets[h] /\ m \in Nat /\ i \in Nat
    BY <1>4, Places
  <2>2. i \in T
    BY <2>1
  <2> QED
    BY <1>5, <2>1, <2>2
<1>7. m \in Lookup(h, g)
  BY <1>6 DEF Lookup
<1> QED
  BY <1>1, <1>7

(* A socket that sends RST has refused the segment, one that does not has  *)
(* not.                                                                    *)
LEMMA RefusedIs ==
    ASSUME NEW s \in SocketType, NEW g \in SegmentType, NEW r, r = React(s, g)
    PROVE  IF Says(r.out, {"RST"})
           THEN \E why \in {"state", "order", "handler"} :
                   /\ Rejects(s, g, why)
                   /\ r.sock.refused = IF s.refused = "no" THEN why ELSE s.refused
           ELSE r.sock.refused = s.refused
<1>1. ASSUME NEW t, NEW f, r = Replying(t, f)
      PROVE  r.sock = t /\ DOMAIN r.out = {1} /\ r.out[1].flags = f
  BY <1>1 DEF Replying
<1>2. ASSUME NEW t, r = Silently(t)
      PROVE  r.sock = t /\ DOMAIN r.out = {}
  BY <1>2 DEF Silently
<1>3. CASE Accepts(s, g)
  <2> DEFINE t == [s EXCEPT !.state = "SYN_RECEIVED", !.rport = g.src, !.ack = Plus(g.seq, 1),
                            !.seq = Plus(Iss, 1), !.peer = g.by]
             o == <<[flags |-> {"SYN", "ACK"}, seq |-> Iss]>>
  <2>1. r = [sock |-> t, out |-> o]
    BY <1>3 DEF Accepts
  <2>2. t.refused = s.refused
    BY DEF SocketType
  <2>3. o[1].flags # {"RST"}
    BY Kinds
  <2> HIDE DEF t, o
  <2>4. r.sock = t /\ r.out = o
    BY <2>1
  <2> QED
    BY <2>2, <2>3, <2>4 DEF Says
<1>4. CASE Connects(s, g)
  <2> DEFINE t == [s EXCEPT !.state = "ESTABLISHED", !.ack = Plus(g.seq, 1),
                            !.seq = Plus(@, 1), !.peer = g.by]
  <2>1. r = Replying(t, {"ACK"})
    BY <1>4 DEF Connects
  <2>2. t.refused = s.refused
    BY DEF SocketType
  <2> HIDE DEF t
  <2> QED
    BY <1>1, <2>1, <2>2, Kinds DEF Says
<1>5. CASE TakesData(s, g)
  <2> DEFINE t == [s EXCEPT !.got = Append(@, g.data), !.ack = Plus(@, Advance(g.data))]
  <2>1. r = Replying(t, {"ACK"})
    BY <1>5 DEF TakesData
  <2>2. t.refused = s.refused
    BY DEF SocketType
  <2> HIDE DEF t
  <2> QED
    BY <1>1, <2>1, <2>2, Kinds DEF Says
<1>6. ASSUME NEW why \in {"state", "order", "handler"}, Rejects(s, g, why)
      PROVE  /\ Says(r.out, {"RST"})
             /\ r.sock.refused = IF s.refused = "no" THEN why ELSE s.refused
  <2> DEFINE t == [s EXCEPT !.refused = IF @ = "no" THEN why ELSE @]
  <2>1. r = Replying(t, {"RST"})
    BY <1>6 DEF Rejects, Refuse
  <2>2. t.refused = IF s.refused = "no" THEN why ELSE s.refused
    BY DEF SocketType
  <2> HIDE DEF t
  <2> QED
    BY <1>1, <2>1, <2>2 DEF Says
<1>7. ASSUME NEW x, r = Silently([s EXCEPT !.state = x])
      PROVE  r.sock.refused = s.refused /\ DOMAIN r.out = {}
  <2> DEFINE t == [s EXCEPT !.state = x]
  <2>1. t.refused = s.refused
    BY DEF SocketType
  <2> HIDE DEF t
  <2> QED
    BY <1>2, <1>7, <2>1 DEF t
<1>8. CASE Opens(s, g) \/ HalfCloses(s, g) \/ Closes(s, g)
  <2>1. r.sock.refused = s.refused /\ DOMAIN r.out = {}
    BY <1>7, <1>8 DEF Opens, HalfCloses, Closes
  <2> QED
    BY <2>1 DEF Says
<1>9. CASE Ignores(s, g)
  <2>1. r = Silently(s)
    BY <1>9 DEF Ignores
  <2> QED
    BY <1>2, <2>1 DEF Says
<1>10. CASE FollowsFin(s, g)
  <2> DEFINE t == [s EXCEPT !.state = "CLOSE_WAIT", !.ack = Plus(@, 1)]
             o == <<[flags |-> {"ACK"}, seq |-> s.seq], [flags |-> {"FIN", "ACK"}, seq |-> s.seq]>>
  <2>1. r = [sock |-> t, out |-> o]
    BY <1>10 DEF FollowsFin
  <2>2. t.refused = s.refused
    BY DEF SocketType
  <2>3. o[1].flags # {"RST"}
    BY Kinds
  <2> HIDE DEF t, o
  <2>4. r.sock = t /\ r.out = o
    BY <2>1
  <2> QED
    BY <2>2, <2>3, <2>4 DEF Says
<1>11. CASE EndsByFin(s, g)
  <2> DEFINE t == [s EXCEPT !.state = "CLOSED", !.ack = Plus(@, 1)]
  <2>1. r = Replying(t, {"ACK"})
    BY <1>11 DEF EndsByFin
  <2>2. t.refused = s.refused
    BY DEF SocketType
  <2> HIDE DEF t
  <2> QED
    BY <1>1, <2>1, <2>2, Kinds DEF Says
<1> QED
  BY <1>3, <1>4, <1>5, <1>6, <1>8, <1>9, <1>10, <1>11, Outcomes

(* A step that sends no data takes nothing back.                           *)
LEMMA QuietProceeds ==
    ASSUME Types, Fits, NEW h \in Host, NEW d \in {0, 1}, NEW out, Quietly(h, d, out),
           NEW pos, NEW new, SameNumbers(pos, new)
    PROVE  Proceeds(h, d, out, pos, new)
<1>1. ASSUME NEW f \in Endpoint
      PROVE  /\ IsLeft(f) => IsLeft(f)' /\ Written(f)' = Written(f)
             /\ Len(Written(f)) <= Len(Written(f)')
             /\ \A x \in DOMAIN Written(f) :
                   x \in DOMAIN Written(f)' /\ Written(f)'[x] = Written(f)[x]
             /\ \A x \in Nat : ~(Len(Written(f)) < x /\ x <= Len(Written(f)'))
  <2>1. Written(f)' = Written(f) /\ (IsLeft(f) => IsLeft(f)')
    BY DEF Quietly
  <2>2. Len(Written(f)) \in Nat
    BY WrittenIs DEF Sent
  <2> QED
    BY <2>1, <2>2
<1> QED
  BY <1>1 DEF Quietly, Proceeds

(* A message that is whole and does not end in a zero byte is counted in   *)
(* full.                                                                   *)
LEMMA CountsAll ==
    ASSUME CountedRight, NEW p \in Payload, Last(p) # 0, ~IsCut(p), NEW w \in Arrivals(p)
    PROVE  Advance(w) = Len(p)
<1>1. PICK n \in Nat : n = Len(p) /\ n > 0
  BY WireTyped DEF CountedRight
<1>2. p \in Seq(Nat) /\ p[n] # 0
  BY <1>1, TcpAssumption DEF Last
<1>3. PICK data \in Bytes : data = w
  BY WireTyped
<1>4. n \in DOMAIN data /\ data[n] = p[n]
  <2>1. PICK z \in Seq(Nat) : data = p \o z
    BY <1>3, ArrivalsAre DEF Bytes
  <2> QED
    BY <1>1, <1>2, <2>1
<1> DEFINE full == {k \in DOMAIN data : data[k] # 0}
<1>5. n \in full /\ full \in SUBSET (1 .. Len(data)) /\ Len(data) \in Nat
  BY <1>2, <1>4 DEF Bytes
<1>6. Advance(data) = Max(full)
  BY <1>5 DEF Advance
<1>7. Max(full) \in full /\ \A k \in full : k <= Max(full)
  <2> HIDE DEF full
  <2> QED
    BY <1>5, LastOne
<1>8. Max(full) <= n
  BY <1>1, <1>3, <1>6 DEF CountedRight
<1>9. Max(full) \in Nat /\ n <= Max(full)
  BY <1>5, <1>7
<1> QED
  BY <1>1, <1>3, <1>6, <1>8, <1>9

(* A message has one number only.                                          *)
LEMMA CarriesOne ==
    ASSUME NoReturn, Types, Fits, NEW pos, Streams(pos), NEW g, g.by \in Endpoint,
           NEW x, NEW y, Carries(pos, g, x), Carries(pos, g, y)
    PROVE  x = y
<1>1. PICK f \in Endpoint : f = g.by
  OBVIOUS
<1>2. PICK q \in Seq(Nat), w \in Sent :
         q = pos[f] /\ w = Written(f) /\ Numbered(q, w) /\ Len(w) <= MaxSends
  BY WrittenIs DEF Streams
<1>3. /\ x \in DOMAIN w /\ y \in DOMAIN w
      /\ g.seq = q[x] % SeqSpace /\ g.seq = q[y] % SeqSpace
  BY <1>1, <1>2 DEF Carries
<1> QED
  BY <1>2, <1>3, OneNumber

(* Two sockets that never had a peer have sent nothing to each other.      *)
LEMMA NothingYet ==
    ASSUME DistinctPorts, Types, Wires, Handshake, NEW h \in Host, NEW i \in DOMAIN sockets[h],
           NEW g \in SegmentType, NEW j \in DOMAIN sockets[Other(h)], From(h, g, j),
           Matches(sockets[h][i], g), sockets[h][i].peer = Nobody,
           g.flags \in {{"SYN"}, {"SYN", "ACK"}},
           sockets[h][i].state = "LISTEN" => g.flags = {"SYN"}
    PROVE  Written(g.by) = <<>> /\ ~Mutual(Other(h), j)
<1>1. PICK k \in Host : k = Other(h) /\ h = Other(k)
  BY Hosts
<1>2. g.by = <<k, j>>
  BY <1>1 DEF From
<1>3. ~Mutual(k, j)
  <2> SUFFICES ASSUME Mutual(k, j) PROVE FALSE
    OBVIOUS
  <2>1. PICK c \in DOMAIN sockets[h] :
           sockets[k][j].peer = <<h, c>> /\ sockets[h][c].peer = <<k, j>>
    BY <1>1 DEF Mutual
  <2>2. g.flags # {"SYN"}
    BY <1>2, <2>1 DEF From
  <2>3. sockets[h][i].state # "LISTEN"
    BY <2>2
  <2>4. sockets[h][i].peer = <<k, j>>
    BY <1>1, <2>3, Meets
  <2>5. <<k, j>> \in Endpoint
    BY <1>1, At
  <2> QED
    BY <2>4, <2>5, NobodyIsNone
<1>4. sockets[k][j].sent = <<>>
  BY <1>1, <1>3 DEF Handshake, Settled
<1> QED
  BY <1>1, <1>2, <1>3, <1>4, At

(* What SYN and SYN|ACK bring about.                                       *)
LEMMA WholeMet ==
    ASSUME NoReturn, DistinctPorts, Types, Types', Wires, Handshake, Fits,
           NEW pos, Streams(pos), NEW new, NEW h \in Host, NEW i \in DOMAIN sockets[h],
           Whole(pos, h, i), NEW g \in SegmentType, NEW out \in Seq(SegmentType),
           Proceeds(h, 1, out, pos, new), Quietly(h, 1, out),
           NEW s \in SocketType, s = sockets[h][i], NEW t, Changed(h, i, t),
           Matches(s, g), NEW j \in DOMAIN sockets[Other(h)], From(h, g, j), Meant(h, g, j),
           \/ g.flags = {"SYN"} /\ s.state = "LISTEN" /\ t.state = "SYN_RECEIVED"
           \/ g.flags = {"SYN", "ACK"} /\ s.state = "SYN_SENT" /\ t.state = "ESTABLISHED",
           t.peer = g.by, t.ack = Plus(g.seq, 1), t.got = s.got, t.left = s.left,
           t.refused = s.refused
    PROVE  Whole(new, h, i)'
<1>1. PICK k \in Host : k = Other(h) /\ h = Other(k) /\ k # h
  BY Hosts
<1>2. s.peer = Nobody
  BY Unpaired
<1>3. s.got = <<>>
  <2>1. Settled(h, i)
    BY DEF Handshake
  <2> QED
    BY <1>2, <2>1 DEF Settled, Mutual, Nobody
<1>4. PICK f \in Endpoint : f = g.by /\ f = <<k, j>> /\ Written(f) = <<>> /\ ~Mutual(k, j)
  <2>1. Written(g.by) = <<>> /\ ~Mutual(Other(h), j)
    BY <1>2, NothingYet, Kinds
  <2> QED
    BY <1>1, <2>1, At DEF From
<1>5. t = sockets'[h][i]
  BY DEF Changed
<1>6. Written(f)' = <<>> /\ Len(Written(f)') = 0 /\ Len(t.got) = 0
  BY <1>3, <1>4 DEF Quietly
<1>7. Opening(h, i)'
  <2> SUFFICES ASSUME t.state = "SYN_RECEIVED", Mutual(h, i)' PROVE FALSE
    BY <1>5 DEF Opening
  <2>1. PICK c \in DOMAIN sockets[k] : t.peer = <<k, c>> /\ sockets[k][c].peer = <<h, i>>
    BY <1>1, <1>5 DEF Mutual, Changed
  <2>2. c = j
    BY <1>4, <2>1
  <2>3. Opener(sockets[k][j])
    BY <1>1 DEF From
  <2>4. Answered(k, j)
    <3>1. Linked(k, j)
      BY <1>1 DEF Wires
    <3>2. sockets[k][j].peer # Nobody
      BY <2>1, <2>2, At, NobodyIsNone
    <3> QED
      BY <2>3, <3>1, <3>2, Apart DEF Linked
  <2>5. sockets[h][i].peer = <<k, j>>
    <3>1. PICK z \in DOMAIN sockets[h] :
             sockets[k][j].peer = <<h, z>> /\ sockets[h][z].peer = <<k, j>>
      BY <1>1, <2>4 DEF Answered
    <3>2. z = i
      BY <2>1, <2>2, <3>1
    <3> QED
      BY <3>1, <3>2
  <2> QED
    BY <1>2, <1>4, <2>5, NobodyIsNone
<1>8. Awaiting(new, h, t)'
  <2>1. \A x \in Nat : ~(Len(t.got) < x /\ x <= Len(Written(f)'))
    BY <1>6
  <2> QED
    BY <1>4, <2>1 DEF Awaiting
<1>9. Counting(new, t)'
  <2>1. g.seq = Iss
    BY DEF Meant
  <2>2. Len(t.got) + 1 = 1 /\ new[f][1] = pos[f][1]
    BY <1>4, <1>6 DEF Proceeds, SameNumbers
  <2>3. t.ack = new[f][Len(t.got) + 1] % SeqSpace
    BY <2>1, <2>2, NumbersAre DEF Plus
  <2> QED
    BY <1>4, <2>3 DEF Counting
<1>10. Finished(t)'
  BY DEF Finished
<1>11. Faultless(t)'
  <2>1. Faultless(s)
    BY DEF Whole
  <2> QED
    BY <1>2, <2>1, NobodyIsNone DEF Faultless
<1> QED
  BY <1>5, <1>7, <1>8, <1>9, <1>10, <1>11 DEF Whole

(* What data brings about that is taken.                                   *)
LEMMA WholeGiven ==
    ASSUME NoReturn, CountedRight, DistinctPorts, Types, Types', Wires, Handshake, Fits,
           NEW pos, Streams(pos), NEW new, NEW h \in Host, NEW i \in DOMAIN sockets[h],
           Whole(pos, h, i), NEW g \in SegmentType, NEW out \in Seq(SegmentType),
           Proceeds(h, 1, out, pos, new), Quietly(h, 1, out),
           NEW s \in SocketType, s = sockets[h][i], NEW t, Changed(h, i, t),
           net[h] # <<>>, g = net[h][1], Matches(s, g),
           s.state \in Talking \ {"LISTEN"}, IsData(g), g.seq = s.ack,
           t.state = s.state, t.peer = s.peer, t.ack = Plus(s.ack, Advance(g.data)),
           t.got = Append(s.got, g.data), t.left = s.left, t.refused = s.refused
    PROVE  Whole(new, h, i)'
<1>1. t = sockets'[h][i]
  BY DEF Changed
<1>2. PICK f \in Endpoint : f = g.by /\ s.peer = f /\ Other(f[1]) = h
  <2>1. s.peer = g.by
    BY Zenon, Delivers
  <2>2. 1 \in DOMAIN net[h]
    BY Places
  <2>3. PICK j \in DOMAIN sockets[Other(h)] : g.by = <<Other(h), j>>
    BY <2>2, SenderIs
  <2>4. <<Other(h), j>> \in Endpoint /\ Other(Other(h)) = h
    BY At, Hosts
  <2> QED
    BY <2>1, <2>3, <2>4
<1>3. PICK x \in Nat : x = Len(s.got) + 1 /\ Carries(pos, g, x) /\ s.ack = pos[f][x] % SeqSpace
  BY SMTT(30), <1>2, Delivers
<1>4. Len(t.got) = x /\ Len(s.got) \in Nat
  BY <1>3 DEF SocketType, Got, SegmentType
<1>5. Opening(h, i)'
  BY <1>1 DEF Opening, Talking
<1>6. Awaiting(new, h, t)'
  <2> SUFFICES ASSUME s.state \in Receiving, s.refused = "no", NEW y \in Nat, x < y,
                      y <= Len(Written(f)')
               PROVE  OnWay(new, h, f, y)'
    BY <1>2, <1>4 DEF Awaiting
  <2>1. Written(f)' = Written(f)
    BY DEF Quietly
  <2>2. Len(s.got) < y /\ y <= Len(Written(f)) /\ y # x
    BY <1>3, <1>4, <2>1
  <2>3. OnWay(pos, h, f, y)
    BY <1>2, <2>2 DEF Whole, Awaiting
  <2>4. ~Carries(pos, g, y)
    BY <1>2, <1>3, <2>2, CarriesOne
  <2> QED
    BY <2>3, <2>4, OnWayKept
<1>7. Counting(new, t)'
  <2> SUFFICES ASSUME s.state \in Receiving, ~Miscounted(f)'
               PROVE  t.ack = new[f][x + 1] % SeqSpace
    BY <1>2, <1>4 DEF Counting
  <2>1. ~Miscounted(f)
    BY MiscountedKept
  <2>2. x \in DOMAIN Written(f) /\ g.data \in Arrivals(Written(f)[x])
    BY <1>2, <1>3 DEF Carries
  <2>3. PICK p \in Payload : p = Written(f)[x] /\ Last(p) # 0 /\ ~IsCut(p)
    BY <2>1, <2>2, WrittenIs DEF Miscounted
  <2>4. PICK l \in Nat : l = Len(p) /\ Advance(g.data) = l
    BY <2>2, <2>3, CountsAll, WireTyped
  <2>5. PICK v \in Nat : v = pos[f][x] /\ new[f][x + 1] = v + l
    <3>1. x \in 1 .. Len(Written(f)) + 1
      BY <2>2, WrittenIs DEF Sent
    <3>2. pos[f][x] \in Nat
      BY <3>1, NumbersAre
    <3>3. pos[f][x + 1] = pos[f][x] + Len(Written(f)[x])
      BY <2>2, NumbersAre
    <3>4. new[f][x + 1] = pos[f][x + 1]
      <4>1. x + 1 \in 1 .. Len(Written(f)) + 1
        BY <2>2, WrittenIs DEF Sent
      <4> QED
        BY <4>1 DEF Proceeds, SameNumbers
    <3> QED
      BY <2>3, <2>4, <3>2, <3>3, <3>4
  <2>6. t.ack = ((v % SeqSpace) + l) % SeqSpace
    BY <1>3, <2>4, <2>5 DEF Plus
  <2>7. v \in Int /\ l \in Int /\ SeqSpace \in Nat \ {0}
    BY TcpAssumption
  <2>8. ((v % SeqSpace) + l) % SeqSpace = (v + l) % SeqSpace
    BY <2>7, RestOfSum, Zenon
  <2> QED
    BY <2>5, <2>6, <2>8
<1>8. Finished(t)'
  BY DEF Finished, Talking
<1>9. Faultless(t)'
  <2>1. Faultless(s)
    BY DEF Whole
  <2>2. Miscounted(f) => Miscounted(f)'
    BY MiscountedKept
  <2> QED
    BY <1>2, <2>1, <2>2 DEF Faultless
<1> QED
  BY <1>1, <1>5, <1>6, <1>7, <1>8, <1>9 DEF Whole

(* Data that is not taken for its number comes to a socket that was        *)
(* disconnected, or after a message that was not counted in full: one that *)
(* ends in a zero byte, or one that IPv4 cut.                              *)
LEMMA WhyOrder ==
    ASSUME NoReturn, DistinctPorts, Types, Wires, Handshake, Fits,
           NEW pos, Streams(pos), NEW h \in Host, NEW i \in DOMAIN sockets[h],
           Whole(pos, h, i), NEW g \in SegmentType,
           NEW s \in SocketType, s = sockets[h][i],
           net[h] # <<>>, g = net[h][1], Matches(s, g), s.state # "LISTEN",
           NEW j \in DOMAIN sockets[Other(h)], From(h, g, j), Meant(h, g, j),
           s.refused = "no", Rejects(s, g, "order")
    PROVE  s.left \/ (s.peer \in Endpoint /\ Miscounted(s.peer))
<1>1. PICK k \in Host : k = Other(h) /\ h = Other(k)
  BY Hosts
<1>2. s.state \in Talking /\ g.flags = {"PSH", "ACK"} /\ g.seq # s.ack
  BY DEF Rejects
<1>3. Mutual(k, j)
  BY <1>1, <1>2 DEF Meant
<1>4. g.by = <<k, j>> /\ s.peer = <<k, j>>
  BY <1>1, <1>3, Meets DEF From
<1>5. PICK f \in Endpoint : f = g.by /\ s.peer = f
  BY <1>1, <1>4, At
<1> SUFFICES ASSUME ~s.left, ~Miscounted(f) PROVE FALSE
  BY <1>5
<1>6. s.state = "ESTABLISHED"
  <2>1. s.state # "SYN_SENT"
    BY <1>5, Unpaired, NobodyIsNone
  <2>2. s.state # "FIN_WAIT2"
    BY DEF Handshake, Settled
  <2> QED
    BY <1>2, <2>1, <2>2 DEF Talking
<1>7. 1 \in DOMAIN net[h] /\ IsData(g)
  BY <1>2, Places DEF IsData
<1>8. PICK x \in Nat : Carries(pos, g, x)
  BY <1>7 DEF Streams, Transit
<1>9. Len(s.got) < x /\ Len(s.got) \in Nat
  <2>1. Receiver(pos, <<h, i>>) /\ Exists(<<h, i>>) /\ Socket(<<h, i>>) = s
    BY At DEF Streams
  <2>2. Len(s.got) < x
    BY <1>5, <1>7, <1>8, <2>1, NobodyIsNone DEF Receiver
  <2> QED
    BY <2>2 DEF SocketType, Got
<1>10. x <= Len(Written(f))
  BY <1>5, <1>8, WrittenIs DEF Carries
<1>11. PICK y \in Nat : y = Len(s.got) + 1 /\ y <= x
  BY <1>9
<1>12. OnWay(pos, h, f, y)
  <2>1. y <= Len(Written(f)) /\ Len(s.got) < y
    <3>1. Len(Written(f)) \in Nat
      BY WrittenIs DEF Sent
    <3> QED
      BY <1>9, <1>10, <1>11, <3>1
  <2> QED
    BY <1>5, <1>6, <2>1 DEF Whole, Awaiting, Receiving
<1>13. PICK n \in DOMAIN net[h] :
          IsData(net[h][n]) /\ net[h][n].by = f /\ Carries(pos, net[h][n], y)
  BY <1>12 DEF OnWay
<1>14. s.ack = pos[f][y] % SeqSpace
  BY <1>5, <1>6, <1>11 DEF Whole, Counting, Receiving
<1>15. n # 1
  BY <1>2, <1>5, <1>13, <1>14 DEF Carries
<1>16. 1 < n
  BY <1>13, <1>15, Places
<1>17. x < y
  <2>1. /\ IsData(net[h][1]) /\ net[h][1].by = net[h][n].by /\ Carries(pos, net[h][1], x)
        /\ Transit(pos, h)
    BY <1>5, <1>7, <1>8, <1>13 DEF Streams
  <2> QED
    BY <1>7, <1>13, <1>16, <2>1 DEF Transit
<1> QED
  BY <1>11, <1>17

(* What a FIN brings about.                                                *)
LEMMA WholeEnded ==
    ASSUME DistinctPorts, Types, Types', Wires, Handshake, Fits,
           NEW pos, Streams(pos), NEW new, NEW h \in Host, NEW i \in DOMAIN sockets[h],
           Whole(pos, h, i), NEW g \in SegmentType, NEW out \in Seq(SegmentType),
           Proceeds(h, 1, out, pos, new), Quietly(h, 1, out),
           NEW s \in SocketType, s = sockets[h][i], NEW t, Changed(h, i, t),
           net[h] # <<>>, g = net[h][1], Matches(s, g),
           NEW j \in DOMAIN sockets[Other(h)], From(h, g, j), Meant(h, g, j),
           s.state = "ESTABLISHED", g.flags = {"FIN", "ACK"},
           t.state = "CLOSE_WAIT", t.peer = s.peer, t.got = s.got, t.left = s.left,
           t.refused = s.refused
    PROVE  Whole(new, h, i)'
<1>1. PICK k \in Host : k = Other(h) /\ h = Other(k)
  BY Hosts
<1>2. t = sockets'[h][i] /\ 1 \in DOMAIN net[h]
  BY Places DEF Changed
<1>3. Mutual(h, i) /\ ~s.left
  BY DEF Handshake, Settled
<1>4. g.by = <<k, j>> /\ s.peer = <<k, j>>
  <2>1. s.state # "LISTEN"
    OBVIOUS
  <2> QED
    <3>1. sockets[h][i].peer = <<Other(h), j>>
      BY <1>3, <2>1, Meets
    <3> QED
      BY <1>1, <3>1 DEF From
<1>5. PICK f \in Endpoint : f = g.by /\ s.peer = f /\ f = <<k, j>> /\ f # Nobody
  BY <1>1, <1>4, At, NobodyIsNone
<1>6. ~Followed(h, f)
  BY <1>3, <1>5, NotFollowed
<1>7. IsLeft(f)
  <2>1. sockets[k][j].left
    BY <1>1, <1>5, <1>6 DEF Meant
  <2>2. IsLeft(<<k, j>>) = sockets[k][j].left
    BY <1>1, At
  <2> QED
    BY <1>5, <2>1, <2>2
<1>8. s.refused = "no" => Len(s.got) = Len(Written(f))
  <2> SUFFICES ASSUME s.refused = "no", Len(s.got) # Len(Written(f)) PROVE FALSE
    OBVIOUS
  <2>1. PICK x \in Nat : x = Len(s.got) + 1 /\ Len(s.got) < x /\ x <= Len(Written(f))
    <3>1. Receiver(pos, <<h, i>>) /\ Exists(<<h, i>>) /\ Socket(<<h, i>>) = s
      BY At DEF Streams
    <3>2. Len(s.got) <= Len(Written(f))
      BY <1>5, <3>1 DEF Receiver
    <3>3. Len(s.got) \in Nat /\ Len(Written(f)) \in Nat
      BY WrittenIs DEF SocketType, Got, Sent
    <3> QED
      BY <3>2, <3>3
  <2>2. OnWay(pos, h, f, x)
    BY <1>5, <2>1 DEF Whole, Awaiting, Receiving
  <2>3. PICK n \in DOMAIN net[h] : IsData(net[h][n]) /\ net[h][n].by = f
    BY <2>2 DEF OnWay
  <2>4. 1 < n
    <3>1. n # 1
      BY <2>3, Kinds DEF IsData
    <3>2. n \in Nat /\ n >= 1
      BY Places
    <3> QED
      BY <3>1, <3>2
  <2>5. Closing(h, 1, n)
    BY <1>2 DEF Handshake, Queues
  <2> QED
    BY <1>5, <1>6, <2>3, <2>4, <2>5 DEF Closing, IsData
<1>9. Written(f)' = Written(f) /\ IsLeft(f)'
  BY <1>7 DEF Quietly
<1>10. Finished(t)'
  BY <1>5, <1>8, <1>9 DEF Finished
<1>11. Opening(h, i)' /\ Awaiting(new, h, t)' /\ Counting(new, t)'
  BY <1>2 DEF Opening, Awaiting, Counting, Receiving
<1>12. Faultless(t)'
  <2>1. Faultless(s)
    BY DEF Whole
  <2>2. Miscounted(f) => Miscounted(f)'
    BY MiscountedKept
  <2> QED
    BY <1>5, <2>1, <2>2 DEF Faultless
<1> QED
  BY <1>2, <1>10, <1>11, <1>12 DEF Whole

(* An interrupt with a segment that has a socket leaves every socket whole. *)
LEMMA WholeHandled ==
    ASSUME NoReturn, CountedRight, DistinctPorts, Types, Types', Wires, Handshake, Fits,
           NEW pos, Streams(pos), Complete(pos), NEW new, SameNumbers(pos, new),
           NEW h \in Host, NEW i \in DOMAIN sockets[h],
           NEW g \in SegmentType, NEW out \in Seq(SegmentType), Handled(h, i, g, out)
    PROVE  Complete(new)'
<1>1. PICK k \in Host : k = Other(h) /\ h = Other(k) /\ k # h
  BY Hosts
<1>2. PICK s \in SocketType : s = sockets[h][i]
  BY Places
<1>3. PICK r : r = React(s, g)
  OBVIOUS
<1>4. PICK t : t = r.sock
  OBVIOUS
<1>5. /\ Matches(s, g) /\ Changed(h, i, t) /\ Queued(h, 1, out) /\ net[h] # <<>>
      /\ 1 \in DOMAIN net[h] /\ g = net[h][1] /\ t = sockets'[h][i] /\ Answers(h, i, r, out)
  <2>1. 1 \in DOMAIN net[h]
    BY Places DEF Handled
  <2> QED
    BY <1>2, <1>3, <1>4, <2>1 DEF Handled, Changed
<1>6. Reacts(s, g, r)
  BY <1>3, ReactIs
<1>7. IF Says(r.out, {"RST"})
      THEN \E why \in {"state", "order", "handler"} :
              Rejects(s, g, why) /\ t.refused = IF s.refused = "no" THEN why ELSE s.refused
      ELSE t.refused = s.refused
  BY <1>3, <1>4, RefusedIs
<1>8. t.lport = s.lport /\ t.left = s.left /\ t.sent = s.sent
  BY <1>4, <1>6 DEF Reacts, Became
<1>9. Quietly(h, 1, out) /\ Proceeds(h, 1, out, pos, new)
  <2>1. Quietly(h, 1, out)
    BY StreamHandled
  <2> QED
    BY <2>1, QuietProceeds
<1>10. PICK j \in DOMAIN sockets[k] : From(h, g, j) /\ Meant(h, g, j) /\ g.by = <<k, j>>
  <2>1. PICK j \in DOMAIN sockets[k] : Meant(h, g, j)
    BY <1>1, <1>5 DEF Handshake, Queues
  <2>2. PICK b \in DOMAIN sockets[k] : From(h, g, b)
    BY <1>1, <1>5 DEF Wires, Genuine
  <2>3. b = j
    BY <2>1, <2>2 DEF From, Meant
  <2> QED
    BY <1>1, <2>1, <2>2, <2>3 DEF From
<1>11. ASSUME NEW a \in Host, NEW c \in DOMAIN sockets[a], NEW v \in SocketType,
              v = sockets[a][c], ~(a = h /\ c = i)
       PROVE  Whole(new, a, c)'
  <2>1. sockets'[a][c] = v
    BY <1>5, <1>11 DEF Changed
  <2>2. ASSUME v.state = "SYN_RECEIVED", Mutual(a, c)', ~Mutual(a, c)
        PROVE  Announced(a, v.peer)'
    <3>1. PICK z \in DOMAIN sockets'[Other(a)] :
             v.peer = <<Other(a), z>> /\ sockets'[Other(a)][z].peer = <<a, c>>
      BY <2>1, <2>2 DEF Mutual
    <3>2. Other(a) \in Host /\ z \in DOMAIN sockets[Other(a)]
      BY <1>5, <3>1, Hosts DEF Changed
    <3>3. sockets[Other(a)][z].peer # <<a, c>>
      BY <1>11, <2>2, <3>1, <3>2 DEF Mutual
    <3>4. Other(a) = h /\ z = i
      BY <1>5, <3>1, <3>2, <3>3 DEF Changed
    <3>5. a = k /\ t.peer = <<a, c>> /\ s.peer # <<a, c>> /\ v.peer = <<h, i>>
      <4>1. a = k
        BY <1>1, <3>4, Hosts
      <4> QED
        BY <1>2, <1>5, <3>1, <3>3, <3>4, <4>1
    <3>6. Connects(s, g) /\ Says(r.out, {"ACK"})
      <4>1. ~Accepts(s, g)
        <5> SUFFICES ASSUME s.state = "LISTEN" PROVE FALSE
          BY DEF Accepts
        <5>1. Linked(a, c)
          BY DEF Wires
        <5>2. Calling(a, c)
          BY <1>11, <2>2, <5>1 DEF Linked, Waiter, Opener
        <5>3. PICK y \in DOMAIN sockets[Other(a)] :
                 v.peer = <<Other(a), y>> /\ Opener(sockets[Other(a)][y])
          BY <1>11, <5>2 DEF Calling
        <5>4. y = i
          BY <3>5, <5>3
        <5> QED
          BY <1>2, <3>4, <5>3, <5>4 DEF Opener
      <4> QED
        BY <1>4, <1>6, <3>5, <4>1 DEF Reacts, Became
    <3>7. s.state = "SYN_SENT" /\ ~Mutual(h, i)
      <4>1. s.state = "SYN_SENT"
        BY <3>6 DEF Connects
      <4>2. s.peer = Nobody
        BY <1>2, <4>1, Unpaired
      <4>3. \A y \in DOMAIN sockets[k] : <<k, y>> # Nobody
        BY <1>1, At, NobodyIsNone
      <4> QED
        BY <1>1, <1>2, <4>1, <4>2, <4>3 DEF Mutual
    <3>8. PICK f : f = <<h, i>>
      OBVIOUS
    <3>9. DOMAIN out = {1} /\ out[1].flags = {"ACK"} /\ out[1].by = f
      <4>1. DOMAIN out = {1} /\ out[1] = Segment(h, i, t, r.out[1].flags, r.out[1].seq, <<>>)
        BY <1>4, <1>5, <3>6 DEF Answers, Says
      <4> QED
        BY <3>6, <3>8, <4>1 DEF Segment, Says
    <3>10. PICK m \in Nat : m = Len(net[k]) + 1 /\ m \in DOMAIN net'[k] /\ net'[k][m] = out[1]
      <4>1. Len(net'[k]) = Len(net[k]) + 1
        <5>1. Len(out) = 1
          BY <3>9
        <5> QED
          BY <1>1, <1>5, <5>1 DEF Queued
      <4>2. Len(net[k]) \in Nat /\ Len(net[k]) + 1 \in DOMAIN net'[k]
        <5>1. net'[k] \in Seq(SegmentType) /\ Len(net[k]) \in Nat
          BY Places DEF Types
        <5> QED
          BY <4>1, <5>1
      <4>3. net'[k][Len(net[k]) + 1] = out[(Len(net[k]) + 1) - Len(net[k])]
        BY <1>1, <1>5, <4>2 DEF Queued
      <4>4. (Len(net[k]) + 1) - Len(net[k]) = 1
        BY <4>2
      <4> QED
        BY <4>2, <4>3, <4>4
    <3>11. ASSUME NEW n \in DOMAIN net'[k], IsData(net'[k][n]), net'[k][n].by = f
           PROVE  FALSE
      <4>1. PICK l \in DOMAIN net[k] : net'[k][n] = net[k][l]
        BY <1>9, <3>11, OldData
      <4>2. PICK y \in DOMAIN sockets[h] : Meant(k, net[k][l], y)
        BY <1>1 DEF Handshake, Queues
      <4>3. y = i /\ Mutual(h, y)
        BY <1>1, <3>8, <3>11, <4>1, <4>2 DEF Meant, IsData
      <4> QED
        BY <3>7, <4>3
    <3>12. Announced(k, f)'
      BY <3>9, <3>10, <3>11 DEF Announced, IsData
    <3> QED
      BY <3>5, <3>8, <3>12 DEF Announced
  <2>3. ASSUME a = h, g.by = v.peer
        PROVE  v.state \notin Receiving
    <3> SUFFICES ASSUME v.state \in Receiving PROVE FALSE
      OBVIOUS
    <3>1. i = c
      BY <1>1, <1>2, <1>5, <1>10, <1>11, <2>3, Belongs
    <3> QED
      BY <1>11, <2>3, <3>1
  <2>4. Spared(h, 1, a, c, v, v)
    BY <1>5, <2>2, <2>3 DEF Spared, Receiving
  <2>5. Whole(pos, a, c)
    BY DEF Complete
  <2>6. v.refused # v.refused => Faultless(v)'
    OBVIOUS
  <2>7. v = sockets[a][c] /\ v = sockets'[a][c] /\ 1 \in {0, 1}
    BY <1>11, <2>1
  <2> QED
    BY <1>9, <1>11, <2>4, <2>5, <2>6, <2>7, WholeKept
<1>12. Whole(pos, h, i) /\ Settled(h, i)
  BY DEF Complete, Handshake
<1>13. s.state = "LISTEN" => Accepts(s, g)
  BY <1>2, OnlySyn
<1>14. ASSUME Spared(h, 1, h, i, s, t), t.refused # s.refused => Faultless(t)'
       PROVE  Whole(new, h, i)'
  <2>1. s = sockets[h][i] /\ t = sockets'[h][i] /\ 1 \in {0, 1}
    BY <1>2, <1>5
  <2> QED
    BY <1>9, <1>12, <1>14, <2>1, WholeKept
<1>15. ASSUME t.peer = s.peer, t.got = s.got, t.state \in Receiving => t.ack = s.ack,
              \/ t.state = s.state
              \/ t.state \notin Receiving \cup {"CLOSE_WAIT"}
              \/ s.state = "SYN_RECEIVED" /\ t.state = "ESTABLISHED",
              t.refused = s.refused \/ t.refused # "no",
              IsData(g) => t.refused # "no" \/ t.state \notin Receiving,
              g.flags = {"ACK"} => t.state # "SYN_RECEIVED",
              t.refused # s.refused => Faultless(t)'
       PROVE  Whole(new, h, i)'
  <2>1. Mutual(h, i)' => Mutual(h, i)
    BY <1>1, <1>2, <1>5, <1>15 DEF Mutual, Changed
  <2>2. Spared(h, 1, h, i, s, t)
    BY <1>5, <1>8, <1>15, <2>1 DEF Spared
  <2> QED
    BY <1>14, <1>15, <2>2
<1>16. ASSUME ~Says(r.out, {"RST"}) PROVE Whole(new, h, i)'
  <2>1. t.refused = s.refused
    BY <1>7, <1>16
  <2>2. CASE /\ Accepts(s, g)
             /\ Became(s, t, "SYN_RECEIVED", g.by, Plus(Iss, 1), Plus(g.seq, 1), s.got)
    <3>1. g.flags = {"SYN"} /\ s.state = "LISTEN" /\ t.state = "SYN_RECEIVED"
      BY <2>2 DEF Accepts, Became
    <3>2. t.peer = g.by /\ t.ack = Plus(g.seq, 1) /\ t.got = s.got
      BY <2>2 DEF Became
    <3> QED
      BY <1>1, <1>2, <1>5, <1>8, <1>9, <1>10, <1>12, <2>1, <3>1, <3>2, WholeMet
  <2>3. CASE /\ Connects(s, g)
             /\ Became(s, t, "ESTABLISHED", g.by, Plus(s.seq, 1), Plus(g.seq, 1), s.got)
    <3>1. g.flags = {"SYN", "ACK"} /\ s.state = "SYN_SENT" /\ t.state = "ESTABLISHED"
      BY <2>3 DEF Connects, Became
    <3>2. t.peer = g.by /\ t.ack = Plus(g.seq, 1) /\ t.got = s.got
      BY <2>3 DEF Became
    <3> QED
      BY <1>1, <1>2, <1>5, <1>8, <1>9, <1>10, <1>12, <2>1, <3>1, <3>2, WholeMet
  <2>4. CASE /\ TakesData(s, g)
             /\ Became(s, t, s.state, s.peer, s.seq, Plus(s.ack, Advance(g.data)),
                       Append(s.got, g.data))
    <3>1. s.state \in Talking \ {"LISTEN"} /\ IsData(g) /\ g.seq = s.ack
      BY <1>13, <2>4, Kinds DEF TakesData, Accepts, IsData
    <3>2. /\ t.state = s.state /\ t.peer = s.peer /\ t.ack = Plus(s.ack, Advance(g.data))
          /\ t.got = Append(s.got, g.data)
      BY <2>4 DEF Became
    <3> QED
      BY <1>2, <1>5, <1>8, <1>9, <1>12, <2>1, <3>1, <3>2, WholeGiven
  <2>5. CASE /\ Opens(s, g)
             /\ Became(s, t, "ESTABLISHED", s.peer, s.seq, s.ack, s.got)
    <3>1. s.state = "SYN_RECEIVED" /\ g.flags \in {{"ACK"}, {"PSH", "ACK"}}
      BY <2>5 DEF Opens
    <3>2. ~IsData(g)
      <4> SUFFICES ASSUME IsData(g) PROVE FALSE
        OBVIOUS
      <4>1. Mutual(k, j)
        BY <1>1, <1>10 DEF Meant, IsData
      <4>2. sockets[k][j].peer = <<h, i>> /\ s.peer = <<k, j>>
        BY <1>1, <1>2, <1>5, <1>10, <3>1, <4>1, Meets
      <4>3. Mutual(h, i)
        BY <1>1, <1>2, <4>2 DEF Mutual
      <4>4. Announced(h, g.by)
        BY <1>2, <1>10, <1>12, <3>1, <4>2, <4>3 DEF Whole, Opening
      <4>5. PICK m \in DOMAIN net[h] :
               /\ net[h][m].flags = {"ACK"}
               /\ \A n \in DOMAIN net[h] : n <= m /\ IsData(net[h][n]) => net[h][n].by # g.by
        BY <4>4 DEF Announced
      <4>6. 1 <= m
        BY <1>5, Places
      <4> QED
        BY <1>5, <4>5, <4>6
    <3> QED
      BY <1>15, <2>1, <2>5, <3>1, <3>2 DEF Became
  <2>6. CASE \/ HalfCloses(s, g) /\ Became(s, t, "FIN_WAIT2", s.peer, s.seq, s.ack, s.got)
             \/ Closes(s, g) /\ Became(s, t, "CLOSED", s.peer, s.seq, s.ack, s.got)
             \/ EndsByFin(s, g) /\ Became(s, t, "CLOSED", s.peer, s.seq, Plus(s.ack, 1), s.got)
    <3>1. /\ t.peer = s.peer /\ t.got = s.got
          /\ t.state \notin Receiving \cup {"CLOSE_WAIT", "SYN_RECEIVED"}
      BY <2>6 DEF Became, Receiving
    <3> QED
      BY <1>15, <2>1, <3>1
  <2>7. CASE Ignores(s, g) /\ Became(s, t, s.state, s.peer, s.seq, s.ack, s.got)
    <3>1. ~IsData(g) /\ s.state # "SYN_RECEIVED"
      BY <2>7, Kinds DEF Ignores, Talking, IsData
    <3> QED
      BY <1>15, <2>1, <2>7, <3>1 DEF Became
  <2>8. CASE /\ FollowsFin(s, g)
             /\ Became(s, t, "CLOSE_WAIT", s.peer, s.seq, Plus(s.ack, 1), s.got)
    <3>1. /\ s.state = "ESTABLISHED" /\ g.flags = {"FIN", "ACK"}
          /\ t.state = "CLOSE_WAIT" /\ t.peer = s.peer /\ t.got = s.got
      BY <2>8 DEF FollowsFin, Became
    <3> QED
      BY <1>1, <1>2, <1>5, <1>8, <1>9, <1>10, <1>12, <2>1, <3>1, WholeEnded
  <2> QED
    BY <1>4, <1>6, <1>16, <2>2, <2>3, <2>4, <2>5, <2>6, <2>7, <2>8 DEF Reacts
<1>17. ASSUME Says(r.out, {"RST"}) PROVE Whole(new, h, i)'
  <2>1. PICK why \in {"state", "order", "handler"} :
           Rejects(s, g, why) /\ t.refused = IF s.refused = "no" THEN why ELSE s.refused
    BY <1>7, <1>17
  <2>2. t.state = s.state /\ t.peer = s.peer /\ t.ack = s.ack /\ t.got = s.got
    BY <1>4, <1>6, <1>17, Kinds DEF Reacts, Became, Says
  <2>3. t.refused # "no" /\ g.flags # {"ACK"}
    BY <2>1 DEF Rejects
  <2>4. t.refused # s.refused => Faultless(t)'
    <3> SUFFICES ASSUME s.refused = "no", why = "order"
                 PROVE  s.left \/ (s.peer \in Endpoint /\ Miscounted(s.peer)')
      BY <1>8, <2>1, <2>2 DEF Faultless
    <3>1. s.state # "LISTEN"
      BY <1>13, <2>1, Kinds DEF Rejects, Accepts
    <3>2. s.left \/ (s.peer \in Endpoint /\ Miscounted(s.peer))
      BY <1>1, <1>2, <1>5, <1>10, <1>12, <2>1, <3>1, WhyOrder
    <3> QED
      BY <1>9, <3>2, MiscountedKept
  <2> QED
    BY <1>15, <2>2, <2>3, <2>4
<1>18. ASSUME NEW a \in Host, NEW c \in DOMAIN sockets'[a]
       PROVE  Whole(new, a, c)'
  <2>1. c \in DOMAIN sockets[a]
    BY <1>5 DEF Changed
  <2>2. sockets[a][c] \in SocketType
    BY <2>1, Places
  <2> QED
    BY <1>11, <1>16, <1>17, <2>1, <2>2
<1> QED
  BY <1>18 DEF Complete

(* What the steps other than interrupts do to a socket ...                 *)
Minor(s, t) ==
    /\ t.peer = s.peer /\ t.got = s.got /\ t.ack = s.ack /\ t.refused = s.refused
    /\ s.left => t.left
    /\ t.state = s.state \/ t.state \notin Receiving \cup {"CLOSE_WAIT"}

(* ... and what a new one is.                                              *)
Fresh(t) ==
    /\ t.peer = Nobody /\ t.refused = "no" /\ t.sent = <<>>
    /\ t.state \notin Receiving \cup {"CLOSE_WAIT"}

MinorStep ==
    \A a \in Host :
       /\ DOMAIN sockets[a] \subseteq DOMAIN sockets'[a]
       /\ \A c \in DOMAIN sockets'[a] :
             IF c \in DOMAIN sockets[a] THEN Minor(sockets[a][c], sockets'[a][c])
             ELSE Fresh(sockets'[a][c])

(* Such a step leaves every socket whole, if it takes no segment that one  *)
(* waits for.                                                              *)
LEMMA MinorWhole ==
    ASSUME Types, Types', Fits, Wires, Handshake, NEW h \in Host, NEW d \in {0, 1},
           NEW out \in Seq(SegmentType), NEW pos, NEW new, Streams(pos), Complete(pos),
           Proceeds(h, d, out, pos, new), MinorStep,
           d = 1 => \A c \in DOMAIN sockets[h] :
              sockets[h][c].state \in Receiving => net[h][1].by # sockets[h][c].peer
    PROVE  Complete(new)'
<1> SUFFICES ASSUME NEW a \in Host, NEW c \in DOMAIN sockets'[a] PROVE Whole(new, a, c)'
  BY DEF Complete
<1>1. PICK t : t = sockets'[a][c]
  OBVIOUS
<1>2. CASE c \in DOMAIN sockets[a]
  <2>1. PICK s \in SocketType : s = sockets[a][c]
    BY <1>2, Places
  <2>2. Minor(s, t)
    BY <1>1, <1>2, <2>1 DEF MinorStep
  <2>3. Mutual(a, c)' => Mutual(a, c)
    <3> SUFFICES ASSUME Mutual(a, c)' PROVE Mutual(a, c)
      OBVIOUS
    <3>1. Other(a) \in Host
      BY Hosts
    <3>2. PICK z \in DOMAIN sockets'[Other(a)] :
             t.peer = <<Other(a), z>> /\ sockets'[Other(a)][z].peer = <<a, c>>
      BY <1>1 DEF Mutual
    <3>3. <<a, c>> # Nobody
      BY <1>2, At, NobodyIsNone
    <3>4. z \in DOMAIN sockets[Other(a)] /\ sockets[Other(a)][z].peer = <<a, c>>
      BY <3>1, <3>2, <3>3 DEF MinorStep, Minor, Fresh
    <3> QED
      BY <2>1, <2>2, <3>2, <3>4 DEF Mutual, Minor
  <2>4. Spared(h, d, a, c, s, t)
    <3>1. a = h /\ d = 1 /\ net[h][1].by = s.peer => t.state \notin Receiving
      BY <1>2, <2>1, <2>2 DEF Minor
    <3> QED
      BY <2>2, <2>3, <3>1 DEF Minor, Spared, Receiving
  <2>5. Whole(pos, a, c) /\ (t.refused # s.refused => Faultless(t)')
    BY <1>2, <2>2 DEF Complete, Minor
  <2> QED
    BY <1>1, <1>2, <2>1, <2>4, <2>5, WholeKept
<1>3. CASE c \notin DOMAIN sockets[a]
  <2>1. Fresh(t)
    BY <1>1, <1>3 DEF MinorStep
  <2> QED
    BY <1>1, <2>1 DEF Fresh, Whole, Opening, Awaiting, Counting, Finished, Faultless, Receiving
<1> QED
  BY <1>2, <1>3

(* Such a step takes nothing back, if it sends no data.                    *)
LEMMA MinorQuiet ==
    ASSUME Types, Types', NEW h \in Host, NEW d \in {0, 1}, NEW out \in Seq(SegmentType),
           Queued(h, d, out), \A x \in DOMAIN out : ~IsData(out[x]), MinorStep,
           \A a \in Host : \A c \in DOMAIN sockets[a] :
              sockets'[a][c].sent = sockets[a][c].sent
    PROVE  Quietly(h, d, out)
<1>1. ASSUME NEW e \in Endpoint
      PROVE  Written(e)' = Written(e) /\ (IsLeft(e) => IsLeft(e)')
  <2>1. PICK a \in Host, c \in 1 .. MaxSockets : e = <<a, c>> /\ e[1] = a /\ e[2] = c
    BY Named
  <2>2. CASE c \in DOMAIN sockets[a]
    <3>1. /\ c \in DOMAIN sockets'[a] /\ sockets'[a][c].sent = sockets[a][c].sent
          /\ sockets[a][c].left => sockets'[a][c].left
      BY <2>2 DEF MinorStep, Minor
    <3> QED
      BY <2>1, <2>2, <3>1 DEF Written, IsLeft, Exists, Socket
  <2>3. CASE c \notin DOMAIN sockets[a]
    <3>1. c \in DOMAIN sockets'[a] => sockets'[a][c].sent = <<>>
      BY <2>3 DEF MinorStep, Fresh
    <3> QED
      BY <2>1, <2>3, <3>1 DEF Written, IsLeft, Exists, Socket
  <2> QED
    BY <2>2, <2>3
<1>2. DOMAIN out \subseteq Nat
  OBVIOUS
<1> QED
  BY <1>1, <1>2 DEF Quietly

(* A step that changes one socket is minor, and one that makes one is.     *)
LEMMA MinorIs ==
    ASSUME Types, NEW h \in Host
    PROVE  /\ \A i \in DOMAIN sockets[h] : \A t :
                 Changed(h, i, t) /\ Minor(sockets[h][i], t) => MinorStep
           /\ \A t : Grown(h, t) /\ Fresh(t) => MinorStep
           /\ UNCHANGED sockets => MinorStep
<1>1. \A s : Minor(s, s)
  BY DEF Minor
<1>2. ASSUME NEW i \in DOMAIN sockets[h], NEW t, Changed(h, i, t), Minor(sockets[h][i], t)
      PROVE  MinorStep
  BY <1>1, <1>2 DEF MinorStep, Changed
<1>3. ASSUME NEW t, Grown(h, t), Fresh(t) PROVE MinorStep
  <2> SUFFICES ASSUME NEW a \in Host
               PROVE  /\ DOMAIN sockets[a] \subseteq DOMAIN sockets'[a]
                      /\ \A c \in DOMAIN sockets'[a] :
                            IF c \in DOMAIN sockets[a]
                            THEN Minor(sockets[a][c], sockets'[a][c])
                            ELSE Fresh(sockets'[a][c])
    BY DEF MinorStep
  <2>1. a = h \/ a = Other(h)
    BY Hosts
  <2>2. CASE a = h
    <3>1. Len(sockets[a]) \in Nat /\ DOMAIN sockets[a] = 1 .. Len(sockets[a])
      BY Places
    <3> QED
      BY <1>1, <1>3, <2>2, <3>1 DEF Grown
  <2>3. CASE a = Other(h)
    BY <1>1, <1>3, <2>3 DEF Grown
  <2> QED
    BY <2>1, <2>2, <2>3
<1>4. UNCHANGED sockets => MinorStep
  BY <1>1 DEF MinorStep
<1> QED
  BY <1>2, <1>3, <1>4

(* What is sent is on its way.                                             *)
LEMMA SendProceeds ==
    ASSUME NoReturn, CountedRight, Types, Types', Wires, Handshake, Fits, NEW pos, Streams(pos),
           NEW h \in Host, NEW i \in DOMAIN sockets[h], NEW s \in SocketType, s = sockets[h][i],
           NEW p \in Payload, NEW wire \in Arrivals(p), NEW t, NEW m,
           t = [s EXCEPT !.seq = Plus(s.seq, Len(p)), !.sent = Append(s.sent, p)],
           m = Segment(h, i, s, {"PSH", "ACK"}, s.seq, wire),
           Changed(h, i, t), Queued(h, 0, <<m>>),
           s.peer # Nobody, ~s.left, NEW new, SameNumbers(pos, new)
    PROVE  Proceeds(h, 0, <<m>>, pos, new)
<1>1. PICK k \in Host : k = Other(h) /\ h = Other(k)
  BY Hosts
<1>2. PICK e \in Endpoint :
         /\ e = <<h, i>> /\ e[1] = h /\ Exists(e) /\ Socket(e) = s
         /\ Written(e) = s.sent /\ IsLeft(e) = s.left
  BY At
<1>3. s.sent \in Sent /\ Len(s.sent) \in Nat
  BY DEF SocketType, Sent
<1>4. t.sent = Append(s.sent, p) /\ t = sockets'[h][i]
  BY DEF SocketType, Changed
<1>5. Written(e)' = Append(s.sent, p)
  BY <1>2, <1>4 DEF Written, Exists, Socket, Changed
<1>6. PICK l \in Nat : l = Len(s.sent) + 1
  BY <1>3
<1>7. /\ Len(Written(e)') = l /\ Written(e)'[l] = p /\ l \in DOMAIN Written(e)'
      /\ \A x \in DOMAIN Written(e) :
            x \in DOMAIN Written(e)' /\ Written(e)'[x] = Written(e)[x]
  <2>1. PICK w \in Seq(Payload) : w = s.sent
    BY <1>3 DEF Sent
  <2>2. PICK v : v = Append(w, p)
    OBVIOUS
  <2>3. /\ Len(v) = l /\ v[l] = p /\ l \in DOMAIN v
        /\ \A x \in DOMAIN w : x \in DOMAIN v /\ v[x] = w[x]
    BY <1>6, <2>1, <2>2
  <2> QED
    BY <1>2, <1>5, <2>1, <2>2, <2>3
<1>8. m.by = e /\ IsData(m) /\ m.seq = s.seq /\ m.data \in Arrivals(p)
  BY <1>2 DEF Segment, IsData
<1>9. m.seq = new[e][l] % SeqSpace
  <2>1. Sender(pos, e)
    BY DEF Streams
  <2>2. s.seq = pos[e][l] % SeqSpace
    BY <1>2, <1>6, <2>1 DEF Sender
  <2>3. l \in 1 .. Len(Written(e)) + 1
    BY <1>2, <1>3, <1>6
  <2> QED
    BY <1>8, <2>2, <2>3 DEF SameNumbers
<1>10. OnWay(new, k, e, l)'
  <2>1. PICK out : out = <<m>> /\ Len(out) = 1 /\ DOMAIN out = {1} /\ out[1] = m
    OBVIOUS
  <2>2. Len(net'[k]) = Len(net[k]) + 1
    BY <1>1, <2>1 DEF Queued
  <2>3. Len(net[k]) \in Nat /\ Len(net[k]) + 1 \in DOMAIN net'[k]
    <3>1. net'[k] \in Seq(SegmentType) /\ Len(net[k]) \in Nat
      BY Places DEF Types
    <3> QED
      BY <2>2, <3>1
  <2>4. net'[k][Len(net[k]) + 1] = out[(Len(net[k]) + 1) - Len(net[k])]
    BY <1>1, <2>1, <2>3 DEF Queued
  <2>5. net'[k][Len(net[k]) + 1] = m
    <3>1. (Len(net[k]) + 1) - Len(net[k]) = 1
      BY <2>3
    <3> QED
      BY <2>1, <2>4, <3>1
  <2>6. Carries(new, m, l)'
    BY <1>7, <1>8, <1>9 DEF Carries
  <2> QED
    BY <1>8, <2>3, <2>5, <2>6 DEF OnWay, IsData, Carries
<1>11. ASSUME NEW f \in Endpoint
       PROVE  /\ IsLeft(f) => IsLeft(f)' /\ Written(f)' = Written(f)
              /\ Len(Written(f)) <= Len(Written(f)')
              /\ \A x \in DOMAIN Written(f) :
                    x \in DOMAIN Written(f)' /\ Written(f)'[x] = Written(f)[x]
              /\ \A x \in Nat : Len(Written(f)) < x /\ x <= Len(Written(f)')
                                   => OnWay(new, Other(f[1]), f, x)'
  <2>1. CASE f = e
    <3>1. ~IsLeft(f) /\ Len(Written(f)) <= Len(Written(f)')
      BY <1>2, <1>3, <1>6, <1>7, <2>1
    <3>2. \A x \in Nat : Len(Written(f)) < x /\ x <= Len(Written(f)') => x = l
      BY <1>2, <1>3, <1>6, <1>7, <2>1
    <3>3. OnWay(new, Other(f[1]), f, l)'
      BY <1>1, <1>2, <1>10, <2>1
    <3> QED
      BY <1>7, <2>1, <3>1, <3>2, <3>3
  <2>2. CASE f # e
    <3>1. PICK b \in Host, j \in 1 .. MaxSockets : f = <<b, j>> /\ f[1] = b /\ f[2] = j
      BY Named
    <3>2. (Exists(f)' <=> Exists(f)) /\ (Exists(f) => Socket(f)' = Socket(f))
      BY <1>2, <2>2, <3>1 DEF Changed, Exists, Socket
    <3>3. Written(f)' = Written(f) /\ (IsLeft(f) => IsLeft(f)')
      BY <3>2 DEF Written, IsLeft
    <3>4. Len(Written(f)) \in Nat
      BY WrittenIs DEF Sent
    <3> QED
      BY <3>3, <3>4
  <2> QED
    BY <2>1, <2>2
<1>12. DOMAIN <<m>> \subseteq Nat
  OBVIOUS
<1> QED
  BY <1>11, <1>12 DEF Proceeds

(* Every step leaves every socket whole, unless it loses a segment.        *)
LEMMA CompleteStep ==
    ASSUME NoReturn, CountedRight, DistinctPorts, Types, Types', Wiring, Handshake, Fits,
           NEW pos, Streams(pos), Complete(pos), [Next]_vars, lost' = lost,
           NEW new, SameNumbers(pos, new)
    PROVE  Complete(new)'
<1> USE DEF Wiring
<1>1. ASSUME NEW h \in Host, NEW d \in {0, 1}, NEW out \in Seq(SegmentType),
             Queued(h, d, out), \A x \in DOMAIN out : ~IsData(out[x]), MinorStep,
             \A a \in Host : \A c \in DOMAIN sockets[a] :
                sockets'[a][c].sent = sockets[a][c].sent,
             d = 1 => \A c \in DOMAIN sockets[h] :
                sockets[h][c].state \in Receiving => net[h][1].by # sockets[h][c].peer
      PROVE  Complete(new)'
  <2>1. Quietly(h, d, out)
    BY <1>1, MinorQuiet
  <2>2. Proceeds(h, d, out, pos, new)
    BY <2>1, QuietProceeds
  <2> QED
    BY <1>1, <2>2, MinorWhole
<1>2. <<>> \in Seq(SegmentType) /\ DOMAIN <<>> = {}
  OBVIOUS
<1>3. ASSUME NEW h \in Host, Queued(h, 0, <<>>), UNCHANGED sockets PROVE Complete(new)'
  <2>1. MinorStep
    BY <1>3, MinorIs
  <2>2. \A a \in Host : \A c \in DOMAIN sockets[a] :
           sockets'[a][c].sent = sockets[a][c].sent
    BY <1>3
  <2>3. PICK out \in Seq(SegmentType) : out = <<>> /\ DOMAIN out = {}
    BY <1>2
  <2>4. Queued(h, 0, out) /\ \A x \in DOMAIN out : ~IsData(out[x])
    BY <1>3, <2>3
  <2> QED
    BY <1>1, <2>1, <2>2, <2>4
<1>4. ASSUME NEW h \in Host, NEW i \in DOMAIN sockets[h], NEW t, NEW out \in Seq(SegmentType),
             Changed(h, i, t), Minor(sockets[h][i], t), t.sent = sockets[h][i].sent,
             Queued(h, 0, out), \A x \in DOMAIN out : ~IsData(out[x])
      PROVE  Complete(new)'
  <2>1. MinorStep
    BY <1>4, MinorIs
  <2>2. \A a \in Host : \A c \in DOMAIN sockets[a] :
           sockets'[a][c].sent = sockets[a][c].sent
    BY <1>4 DEF Changed
  <2> QED
    BY <1>1, <1>4, <2>1, <2>2
<1>5. ASSUME NEW h \in Host, NEW t, NEW out \in Seq(SegmentType), Grown(h, t), Fresh(t),
             Queued(h, 0, out), \A x \in DOMAIN out : ~IsData(out[x])
      PROVE  Complete(new)'
  <2>1. MinorStep
    BY <1>5, MinorIs
  <2>2. \A a \in Host : \A c \in DOMAIN sockets[a] :
           sockets'[a][c].sent = sockets[a][c].sent
    BY <1>5, Hosts DEF Grown
  <2> QED
    BY <1>1, <1>5, <2>1, <2>2
<1>6. ASSUME NEW h \in Host, Receive(h) PROVE Complete(new)'
  <2>1. PICK i \in DOMAIN sockets[h], g \in SegmentType, out \in Seq(SegmentType) :
           Handled(h, i, g, out)
    BY <1>6, ReceiveIs
  <2> QED
    BY <2>1, WholeHandled
<1>7. ASSUME NEW h \in Host, ReceiveUnknown(h) PROVE Complete(new)'
  <2>1. /\ net[h] # <<>> /\ Lookup(h, Head(net[h])) = {}
        /\ net' = [net EXCEPT ![h] = Tail(@)] /\ UNCHANGED sockets
    BY <1>7 DEF ReceiveUnknown
  <2>2. Queued(h, 1, <<>>) /\ MinorStep
    BY <2>1, QueuedToo, MinorIs
  <2>3. \A c \in DOMAIN sockets[h] :
           sockets[h][c].state \in Receiving => net[h][1].by # sockets[h][c].peer
    BY <2>1, Unhandled
  <2> QED
    BY <1>1, <1>2, <2>1, <2>2, <2>3
<1>8. ASSUME NEW h \in Host, Lose(h) PROVE FALSE
  BY <1>8 DEF Lose, Types
<1>9. ASSUME NEW h \in Host, Connect(h) PROVE Complete(new)'
  <2>1. PICK t : t = NewSocket("SYN_SENT", freePort[h], ListenPort)
    OBVIOUS
  <2>2. PICK g : g = Segment(h, Len(sockets[h]) + 1, t, {"SYN"}, Iss, <<>>)
    OBVIOUS
  <2>3. g \in SegmentType /\ Grown(h, t) /\ Queued(h, 0, <<g>>)
    BY <1>9, <2>1, <2>2, ConnectIs
  <2>4. Fresh(t)
    BY <2>1 DEF NewSocket, Fresh, Receiving
  <2>5. ~IsData(g)
    BY <2>2, Kinds DEF Segment, IsData
  <2>6. <<g>> \in Seq(SegmentType) /\ \A x \in DOMAIN <<g>> : ~IsData(<<g>>[x])
    BY <2>3, <2>5
  <2> QED
    BY <1>5, <2>3, <2>4, <2>6
<1>10. ASSUME NEW h \in Host, Listen(h) PROVE Complete(new)'
  <2>1. PICK t : t = NewSocket("LISTEN", ListenPort, NoPort)
    OBVIOUS
  <2>2. Grown(h, t) /\ Queued(h, 0, <<>>)
    BY <1>10, <2>1, ListenIs
  <2>3. Fresh(t)
    BY <2>1 DEF NewSocket, Fresh, Receiving
  <2> QED
    BY <1>2, <1>5, <2>2, <2>3
<1>11. ASSUME NEW h \in Host, NEW i \in DOMAIN sockets[h], Bind(h, i) PROVE Complete(new)'
  <2>1. PICK s \in SocketType : s = sockets[h][i]
    BY Places
  <2>2. PICK t : t = [s EXCEPT !.handler = TRUE]
    OBVIOUS
  <2>3. Minor(s, t) /\ t.sent = s.sent
    BY <2>2 DEF SocketType, Minor
  <2>4. Changed(h, i, t) /\ Queued(h, 0, <<>>)
    BY <1>11, <2>1, <2>2, BindIs DEF Made
  <2> QED
    BY <1>2, <1>4, <2>1, <2>3, <2>4
<1>12. ASSUME NEW h \in Host, NEW i \in DOMAIN sockets[h], CallSend(h, i)
       PROVE  Complete(new)'
  BY <1>3, <1>12, QueuedToo DEF CallSend
<1>13. ASSUME NEW h \in Host, SpinEnds(h) PROVE Complete(new)'
  BY <1>3, <1>13, QueuedToo DEF SpinEnds
<1>14. ASSUME NEW h \in Host, Transmit(h) PROVE Complete(new)'
  <2>1. app[h].call = "send"
    BY <1>14 DEF Transmit
  <2>2. PICK i \in DOMAIN sockets[h], p \in Payload, wire \in Bytes :
           /\ app[h].on = i /\ wire \in Arrivals(p)
           /\ Made(h, i, [sockets[h][i] EXCEPT !.seq = Plus(@, Len(p)), !.sent = Append(@, p)],
                   <<Segment(h, i, sockets[h][i], {"PSH", "ACK"}, sockets[h][i].seq, wire)>>)
    BY <1>14, TransmitIs
  <2>3. PICK s \in SocketType : s = sockets[h][i]
    BY Places
  <2>4. PICK t : t = [s EXCEPT !.seq = Plus(s.seq, Len(p)), !.sent = Append(s.sent, p)]
    OBVIOUS
  <2>5. PICK m : m = Segment(h, i, s, {"PSH", "ACK"}, s.seq, wire)
    OBVIOUS
  <2>6. Changed(h, i, t) /\ Queued(h, 0, <<m>>) /\ <<m>> \in Seq(SegmentType)
    BY <2>2, <2>3, <2>4, <2>5 DEF Made
  <2>7. s.peer # Nobody /\ ~s.left
    <3>1. Mutual(h, i) /\ ~s.left
      BY <2>1, <2>2, <2>3 DEF Handshake, Calls
    <3> QED
      BY <2>3, <3>1 DEF Mutual, Nobody
  <2>8. Proceeds(h, 0, <<m>>, pos, new)
    BY <2>2, <2>3, <2>4, <2>5, <2>6, <2>7, SendProceeds
  <2>9. MinorStep
    <3>1. Minor(s, t)
      BY <2>4 DEF SocketType, Minor
    <3> QED
      BY <2>3, <2>6, <3>1, MinorIs
  <2>10. 0 \in {0, 1} /\ 0 # 1
    OBVIOUS
  <2> QED
    BY <2>6, <2>8, <2>9, <2>10, MinorWhole, Zenon
<1>15. ASSUME NEW h \in Host, SendFin(h) PROVE Complete(new)'
  <2>1. PICK i \in DOMAIN sockets[h] :
           /\ app[h].on = i
           /\ Made(h, i, [sockets[h][i] EXCEPT !.seq = Plus(@, 1)],
                   <<Segment(h, i, sockets[h][i], {"FIN", "ACK"}, sockets[h][i].seq, <<>>)>>)
    BY <1>15, SendFinIs
  <2>2. PICK s \in SocketType : s = sockets[h][i]
    BY Places
  <2>3. PICK t : t = [s EXCEPT !.seq = Plus(s.seq, 1)]
    OBVIOUS
  <2>4. PICK g : g = Segment(h, i, s, {"FIN", "ACK"}, s.seq, <<>>)
    OBVIOUS
  <2>5. Changed(h, i, t) /\ Queued(h, 0, <<g>>) /\ <<g>> \in Seq(SegmentType)
    BY <2>1, <2>2, <2>3, <2>4 DEF Made
  <2>6. Minor(s, t) /\ t.sent = s.sent
    BY <2>3 DEF SocketType, Minor
  <2>7. \A x \in DOMAIN <<g>> : ~IsData(<<g>>[x])
    BY <2>4, Kinds DEF Segment, IsData
  <2> QED
    BY <1>4, <2>2, <2>5, <2>6, <2>7
<1>16. ASSUME NEW h \in Host, NEW i \in DOMAIN sockets[h], CallDisconnect(h, i)
       PROVE  Complete(new)'
  <2>1. PICK s \in SocketType : s = sockets[h][i]
    BY Places
  <2>2. PICK t : t = [s EXCEPT !.state = "FIN_WAIT1", !.left = TRUE]
    OBVIOUS
  <2>3. Changed(h, i, t) /\ Queued(h, 0, <<>>)
    BY <1>16, <2>1, <2>2, DisconnectIs DEF Made
  <2>4. Minor(s, t) /\ t.sent = s.sent
    BY <2>2 DEF SocketType, Minor, Receiving
  <2> QED
    BY <1>2, <1>4, <2>1, <2>3, <2>4
<1>17. CASE UNCHANGED vars
  <2>1. UNCHANGED <<sockets, net>>
    BY <1>17 DEF vars
  <2>2. PICK h \in Host : TRUE
    BY TcpAssumption
  <2> QED
    BY <1>3, <2>1, <2>2, QueuedToo
<1> QED
  BY <1>6, <1>7, <1>8, <1>9, <1>10, <1>11, <1>12, <1>13, <1>14, <1>15, <1>16, <1>17 DEF Next

----------------------------------------------------------------------------
(* What the two theorems below rest on: on a link that has lost nothing    *)
(* every socket is whole.                                                  *)
Gathered ==
    /\ Types /\ Wiring /\ Handshake /\ Fits
    /\ \E pos : Streams(pos) /\ (Untouched => Complete(pos))

(* It holds at first ...                                                  *)
LEMMA GatheredInit == ASSUME NoReturn, Init PROVE Gathered
<1>1. \A h \in Host : DOMAIN sockets[h] = {}
  BY DEF Init
<1>2. \A pos : Complete(pos)
  BY <1>1 DEF Complete
<1> QED
  BY <1>2, InitIs, StreamInit DEF Gathered, InStream

(* ... and after every step.                                               *)
LEMMA GatheredStep ==
    ASSUME NoReturn, CountedRight, DistinctPorts, Gathered, [Next]_vars
    PROVE  Gathered'
<1>1. Types /\ Types' /\ Wiring /\ Handshake /\ Fits
  BY TypesStep DEF Gathered
<1>2. Wiring' /\ Handshake' /\ Fits'
  BY <1>1, WiringStep, HandshakeStep, FitsStep
<1>3. PICK pos : Streams(pos) /\ (Untouched => Complete(pos))
  BY DEF Gathered
<1>4. PICK new : Streams(new)' /\ SameNumbers(pos, new)
  BY <1>1, <1>3, StreamsStep
<1>5. ASSUME Untouched' PROVE Untouched /\ lost' = lost
  <2>1. lost \in Nat
    BY <1>1 DEF Types
  <2>2. lost' = lost \/ lost' = lost + 1
    BY DEF Next, vars, Receive, ReceiveUnknown, Lose, Connect, Listen, Bind, CallSend, SpinEnds,
           Transmit, SendFin, CallDisconnect
  <2> QED
    BY <1>5, <2>1, <2>2 DEF Untouched
<1>6. ASSUME Untouched' PROVE Complete(new)'
  BY <1>1, <1>3, <1>4, <1>5, <1>6, CompleteStep
<1> QED
  BY <1>1, <1>2, <1>4, <1>6 DEF Gathered

(* The two parts of it that matter to the application.                     *)
LEMMA GatheredMeans ==
    ASSUME Gathered, Untouched, NEW e \in Endpoint, Exists(e)
    PROVE  Finished(Socket(e)) /\ Faultless(Socket(e))
<1>1. PICK h \in Host, i \in 1 .. MaxSockets : e = <<h, i>> /\ e[1] = h /\ e[2] = i
  BY Named
<1>2. i \in DOMAIN sockets[h] /\ Socket(e) = sockets[h][i]
  BY <1>1 DEF Exists, Socket
<1> QED
  BY <1>2, Places DEF Gathered, Complete, Whole

(* On a link that loses nothing no data is refused as out of order, but    *)
(* behind a message that ends in a zero byte, which is counted short, or   *)
(* one that IPv4 cut (ipv4.cpp:63-65), or at a socket that was             *)
(* disconnected (tcp.cpp:218).                                             *)
THEOREM OrderIsKept ==
    DistinctPorts /\ CountedRight /\ NoReturn => (Spec => []OrderKept)
<1> SUFFICES ASSUME DistinctPorts, CountedRight, NoReturn PROVE Spec => []OrderKept
  OBVIOUS
<1>1. Init => Gathered
  BY GatheredInit
<1>2. Gathered /\ [Next]_vars => Gathered'
  BY GatheredStep
<1>3. Gathered => OrderKept
  <2> SUFFICES ASSUME Gathered, Untouched, NEW e \in Endpoint, Exists(e),
                      Socket(e).refused = "order", ~Socket(e).left
               PROVE  SentZeroTail(Socket(e).peer) \/ SentCut(Socket(e).peer)
    BY DEF OrderKept
  <2>1. Faultless(Socket(e))
    BY GatheredMeans
  <2>2. Miscounted(Socket(e).peer)
    BY <2>1 DEF Faultless
  <2>3. Exists(Socket(e).peer)
    <3> SUFFICES ASSUME ~Exists(Socket(e).peer) PROVE FALSE
      OBVIOUS
    <3>1. Written(Socket(e).peer) = <<>> /\ DOMAIN <<>> = {}
      BY DEF Written
    <3> QED
      BY <2>2, <3>1 DEF Miscounted
  <2> QED
    BY <2>2, <2>3 DEF Miscounted, SentZeroTail, SentCut, Written
<1> QED
  BY <1>1, <1>2, <1>3, PTL DEF Spec

(* On a link that loses nothing the peer's FIN, which is taken whatever    *)
(* its number is, comes behind all that the peer sent: a socket that goes  *)
(* to CLOSE_WAIT has been given all of it, or has refused some.            *)
THEOREM FinComesLast ==
    DistinctPorts /\ CountedRight /\ NoReturn => (Spec => []FinAfterData)
<1> SUFFICES ASSUME DistinctPorts, CountedRight, NoReturn PROVE Spec => []FinAfterData
  OBVIOUS
<1>1. Init => Gathered
  BY GatheredInit
<1>2. Gathered /\ [Next]_vars => Gathered'
  BY GatheredStep
<1>3. Gathered => FinAfterData
  <2> SUFFICES ASSUME Gathered, Untouched, NEW e \in Endpoint, Exists(e),
                      Socket(e).state = "CLOSE_WAIT", Socket(e).refused = "no"
               PROVE  Len(Socket(e).got) = Len(Socket(Socket(e).peer).sent)
    BY DEF FinAfterData
  <2>1. Finished(Socket(e))
    BY GatheredMeans
  <2>2. /\ IsLeft(Socket(e).peer)
        /\ Len(Socket(e).got) = Len(Written(Socket(e).peer))
    BY <2>1 DEF Finished
  <2> QED
    BY <2>2 DEF IsLeft, Written
<1> QED
  BY <1>1, <1>2, <1>3, PTL DEF Spec
=============================================================================
