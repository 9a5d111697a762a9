--------------------------- MODULE NetworkProofs ---------------------------
(***************************************************************************)
(* Proofs about Network.tla, for every network: any addresses, any         *)
(* neighbours, any size of the cache.                                      *)
(***************************************************************************)
EXTENDS Network, WellFoundedInduction, TLAPS

USE NetworkAssumption

(* Who has been heard is in the cache, unless that is full.                *)
HeardIsCached ==
    \A h \in heard : Len(cache) = CacheSize \/ \E i \in DOMAIN cache : cache[i].ip = h

(* The interrupt hangs over an address that is not in the cache.           *)
HangsUnresolved == irq # None => ~Resolves(irq)

(* The inductive invariant.                                                *)
NetworkInv == NetInv /\ HeardIsCached /\ HangsUnresolved

----------------------------------------------------------------------------
(* A non-empty set of numbers has a least element.                         *)
LEMMA LeastElement ==
    ASSUME NEW S, S \subseteq Nat, S # {}
    PROVE  \E x \in S : \A y \in S : x <= y
<1>1. PICK x \in S : \A y \in S : ~(<<y, x>> \in OpToRel(<, Nat))
  BY NatLessThanWellFounded, WFMin
<1>2. \A y \in S : ~(y < x)
  BY <1>1 DEF OpToRel
<1> QED
  BY <1>2

(* An address that GetMACFromCache finds is a neighbour's, and so is what  *)
(* it returns.                                                             *)
LEMMA FoundIsTrue ==
    ASSUME TypeOK, CacheTruthful, NEW ip, GetMACFromCache(ip) # Broadcast
    PROVE  ip \in Alive /\ GetMACFromCache(ip) = Mac[ip]
<1> DEFINE hits == {i \in DOMAIN cache : cache[i].ip = ip}
<1> DEFINE first == CHOOSE i \in hits : \A j \in hits : i <= j
<1>1. hits # {}
  BY DEF GetMACFromCache
<1>2. hits \subseteq Nat
  BY DEF TypeOK
<1>3. \E i \in hits : \A j \in hits : i <= j
  <2> HIDE DEF hits
  <2> QED
    BY <1>1, <1>2, LeastElement
<1>4. first \in hits
  BY <1>3
<1>5. GetMACFromCache(ip) = cache[first].mac
  BY <1>1 DEF GetMACFromCache
<1> QED
  BY <1>4, <1>5 DEF CacheTruthful

(* One that it does not find is in no entry.                               *)
LEMMA NotFoundIsAbsent ==
    ASSUME TypeOK, CacheTruthful, NEW ip, GetMACFromCache(ip) = Broadcast
    PROVE  \A i \in DOMAIN cache : cache[i].ip # ip
<1> SUFFICES ASSUME NEW i \in DOMAIN cache, cache[i].ip = ip
             PROVE  FALSE
  OBVIOUS
<1> DEFINE hits == {j \in DOMAIN cache : cache[j].ip = ip}
<1> DEFINE first == CHOOSE j \in hits : \A k \in hits : j <= k
<1>1. hits # {} /\ hits \subseteq Nat
  BY DEF TypeOK
<1>2. \E j \in hits : \A k \in hits : j <= k
  <2> HIDE DEF hits
  <2> QED
    BY <1>1, LeastElement
<1>3. first \in DOMAIN cache
  BY <1>2
<1>4. GetMACFromCache(ip) = cache[first].mac
  BY <1>1 DEF GetMACFromCache
<1>5. cache[first].ip \in Alive /\ cache[first].mac = Mac[cache[first].ip]
  BY <1>3 DEF CacheTruthful
<1> QED
  BY <1>4, <1>5

----------------------------------------------------------------------------
(* Whatever is sent once Resolve has returned goes where it should.        *)
LEMMA SendIsRight ==
    ASSUME NetInv, NEW s \in ToSends, Resolves(s)
    PROVE  FrameRight(Framed(s))
<1> USE DEF NetInv
<1>1. s.via \in Alive /\ GetMACFromCache(s.via) = Mac[s.via]
  BY FoundIsTrue DEF Resolves
<1>2. ASSUME NEW ip \in Ip, NEW c \in Contents, s = SendDatagram(ip, c)
      PROVE  FrameRight(Framed(s))
  BY <1>1, <1>2 DEF SendDatagram, ToSend, Framed, Frame, FrameRight, Datagram, NextHop, Route
<1>3. ASSUME NEW ip \in Ip, s = Announcement(ip)
      PROVE  FrameRight(Framed(s))
  <2>1. /\ s.via = ip /\ s.type = "arp"
        /\ s.body = ArpMessage("response", Us, Mac[Us], ip, Broadcast)
    BY <1>3 DEF Announcement, ToSend
  <2>2. Framed(s) = Frame(Mac[ip], Mac[Us], "arp",
                          ArpMessage("response", Us, Mac[Us], ip, Mac[ip]))
    BY <1>1, <2>1 DEF Framed, ArpMessage
  <2> QED
    BY <2>2 DEF FrameRight, Frame, ArpMessage
<1> QED
  BY <1>2, <1>3 DEF ToSends

(* RequestMACAddress broadcasts a true question.                           *)
LEMMA QuestionIsRight == ASSUME NEW ip PROVE FrameRight(Question(ip))
BY DEF FrameRight, Question, Frame, ArpMessage

(* Resolve asks for the one whose answer is needed.                        *)
LEMMA AsksTheNeeded == ASSUME NEW s \in ToSends PROVE s.via = Needs(s)
<1>1. ASSUME NEW ip \in Ip, NEW c \in Contents, s = SendDatagram(ip, c)
      PROVE  s.via = Needs(s)
  BY <1>1 DEF SendDatagram, ToSend, Needs, Datagram, NextHop, Route
<1>2. ASSUME NEW ip \in Ip, s = Announcement(ip)
      PROVE  s.via = Needs(s)
  BY <1>2 DEF Announcement, ToSend, Needs, ArpMessage
<1> QED
  BY <1>1, <1>2 DEF ToSends

(* What frames look like by what is in them.                               *)
LEMMA RequestIsTrue ==
    ASSUME NEW f \in Frames, IsArp(f, "request")
    PROVE  f.src = Mac[f.body.srcIP] /\ f.body.srcMAC = f.src /\ f.body.srcIP \in Alive
<1>1. f \in Questions
  BY DEF Frames, Questions, Responses, Datagrams, Response, Frame, ArpMessage, IsArp
<1> QED
  BY <1>1 DEF Questions, Frame, ArpMessage

(* An ARP response names the hardware address of its sender.               *)
LEMMA ResponseIsTrue ==
    ASSUME NEW f \in Frames, IsArp(f, "response")
    PROVE  f.body.srcIP \in Alive /\ f.body.srcMAC = Mac[f.body.srcIP]
<1>1. f \in Responses
  BY DEF Frames, Questions, Responses, Datagrams, Response, Frame, ArpMessage, IsArp
<1> QED
  BY <1>1 DEF Responses, Response, Frame, ArpMessage

(* A datagram comes from its sender or from the gateway.                   *)
LEMMA DatagramIsTrue ==
    ASSUME NEW f \in Frames, NEW c, IsIp(f, c)
    PROVE  f.type = "ip" /\ f.src = Mac[NextHop(f.body.srcIP)] /\ f.body.srcIP \in Ip
<1>1. f \in Datagrams
  BY DEF Frames, Questions, Responses, Datagrams, Response, Frame, IsIp
<1> QED
  BY <1>1 DEF Datagrams, Datagram, Frame

----------------------------------------------------------------------------
(* A step that leaves the cache alone keeps the invariant when what it     *)
(* gives to the card and what it begins to send are right.                 *)
LEMMA SendKeeps ==
    ASSUME NetworkInv, UNCHANGED <<cache, heard>>,
           task' \in ToSends \cup {None}, irq' \in ToSends \cup {None},
           answers' \subseteq Alive, lost' \subseteq Alive,
           wire' = wire \/ FrameRight(wire'),
           irq' # None => ~Resolves(irq')
    PROVE  NetworkInv'
<1> USE DEF NetworkInv
<1>1. TypeOK' /\ CacheTruthful' /\ HeardIsCached'
  BY DEF NetInv, TypeOK, CacheTruthful, HeardIsCached
<1>2. (wire # None => FrameRight(wire))'
  BY DEF NetInv, FrameRight
<1>3. HangsUnresolved'
  BY DEF HangsUnresolved, Resolves, GetMACFromCache
<1> QED
  BY <1>1, <1>2, <1>3 DEF NetInv

(* The answer of a neighbour is stored, if there is room.                  *)
LEMMA StoreKeeps ==
    ASSUME NetworkInv, NEW b, b.srcIP \in Alive, b.srcMAC = Mac[b.srcIP],
           irq = None, cache' = Store(b), heard' = heard \cup {b.srcIP},
           answers' \subseteq Alive, UNCHANGED <<task, irq, wire, lost>>
    PROVE  NetworkInv'
<1> USE DEF NetworkInv
<1> DEFINE e == [ip |-> b.srcIP, mac |-> b.srcMAC]
<1>1. /\ cache \in Seq([ip : Ip, mac : {Mac[h] : h \in Local}])
      /\ Len(cache) <= CacheSize /\ Len(cache) \in Nat
      /\ e \in [ip : Ip, mac : {Mac[h] : h \in Local}]
  BY DEF NetInv, TypeOK
<1>2. CASE Len(cache) < CacheSize
  <2>1. /\ cache' \in Seq([ip : Ip, mac : {Mac[h] : h \in Local}])
        /\ Len(cache') = Len(cache) + 1
        /\ \A i \in DOMAIN cache : i \in DOMAIN cache' /\ cache'[i] = cache[i]
        /\ Len(cache') \in DOMAIN cache' /\ cache'[Len(cache')] = e
        /\ \A i \in DOMAIN cache' : i \in DOMAIN cache \/ i = Len(cache')
    BY <1>1, <1>2 DEF Store
  <2>2. TypeOK'
    BY <1>1, <1>2, <2>1 DEF NetInv, TypeOK
  <2>3. CacheTruthful'
    BY <2>1 DEF NetInv, CacheTruthful
  <2>4. HeardIsCached'
    <3> SUFFICES ASSUME NEW h \in heard', Len(cache') # CacheSize
                 PROVE  \E i \in DOMAIN cache' : cache'[i].ip = h
      BY DEF HeardIsCached
    <3>1. CASE h = b.srcIP
      BY <2>1, <3>1
    <3>2. CASE h \in heard
      BY <1>2, <2>1, <3>2 DEF HeardIsCached
    <3> QED
      BY <3>1, <3>2
  <2> QED
    BY <2>2, <2>3, <2>4 DEF NetInv, HangsUnresolved, FrameRight
<1>3. CASE ~(Len(cache) < CacheSize)
  <2>1. cache' = cache /\ Len(cache) = CacheSize
    BY <1>1, <1>3 DEF Store
  <2>2. TypeOK' /\ CacheTruthful' /\ HeardIsCached'
    BY <2>1 DEF NetInv, TypeOK, CacheTruthful, HeardIsCached
  <2> QED
    BY <2>2 DEF NetInv, HangsUnresolved, FrameRight
<1> QED
  BY <1>2, <1>3

(* Every step keeps the invariant.                                         *)
LEMMA NetworkStep == NetworkInv /\ [Next]_vars => NetworkInv'
<1> SUFFICES ASSUME NetworkInv, [Next]_vars PROVE NetworkInv'
  OBVIOUS
<1>0. /\ task \in ToSends \cup {None} /\ irq \in ToSends \cup {None}
      /\ answers \subseteq Alive /\ lost \subseteq Alive
      /\ irq # None => ~Resolves(irq)
  BY DEF NetworkInv, NetInv, TypeOK, HangsUnresolved
<1>1. ASSUME NEW s \in Sends, Call(s) PROVE NetworkInv'
  <2>1. s \in ToSends
    BY DEF Sends, ToSends, Contents
  <2>2. CASE SendNow(s)
    BY <1>0, <1>1, <2>1, <2>2, SendIsRight, SendKeeps DEF Call, SendNow, NetworkInv
  <2>3. CASE SendSpins(s)
    BY <1>0, <1>1, <2>1, <2>3, QuestionIsRight, SendKeeps DEF Call, SendSpins, Ask
  <2> QED
    BY <1>1, <2>2, <2>3 DEF Call
<1>2. CASE SpinEnds
  BY <1>0, <1>2, SendIsRight, SendKeeps DEF SpinEnds, NetworkInv
<1>3. ASSUME NEW f \in Frames, Receive(f) PROVE NetworkInv'
  <2>1. CASE OnArpRequest(f)
    <3>1. FrameRight(wire')
      BY <2>1, RequestIsTrue
         DEF OnArpRequest, SendBack, IsArp, FrameRight, Frame, ArpAnswer, ArpMessage
    <3> QED
      BY <1>0, <2>1, <3>1, SendKeeps DEF OnArpRequest
  <2>2. CASE OnEchoRequest(f)
    <3>1. FrameRight(wire')
      BY <2>2, DatagramIsTrue DEF OnEchoRequest, SendBack, FrameRight, Frame, Datagram
    <3> QED
      BY <1>0, <2>2, <3>1, SendKeeps DEF OnEchoRequest
  <2>3. CASE OnSyn(f)
    <3> DEFINE s == SendDatagram(f.body.srcIP, "quiet")
    <3>1. s \in ToSends
      BY <2>3, DatagramIsTrue DEF OnSyn, ToSends, Contents
    <3>2. SendNow(s) \/ SpinsInInterrupt(s)
      BY <2>3 DEF OnSyn
    <3>3. UNCHANGED <<cache, heard>>
      BY <2>3 DEF OnSyn
    <3> HIDE DEF s
    <3>4. CASE SendNow(s)
      BY <1>0, <3>1, <3>3, <3>4, SendIsRight, SendKeeps DEF SendNow, NetworkInv
    <3>5. CASE SpinsInInterrupt(s)
      BY <1>0, <3>1, <3>3, <3>5, QuestionIsRight, SendKeeps DEF SpinsInInterrupt, Ask
    <3> QED
      BY <3>2, <3>4, <3>5
  <2>4. CASE OnOther(f)
    BY <1>0, <2>4, SendKeeps DEF OnOther, vars
  <2>5. CASE OnArpResponse(f) /\ UNCHANGED answers
    BY <1>0, <1>3, <2>5, ResponseIsTrue, StoreKeeps DEF OnArpResponse, Receive
  <2> QED
    BY <1>3, <2>1, <2>2, <2>3, <2>4, <2>5 DEF Receive
<1>4. ASSUME NEW h \in Alive, Answer(h) PROVE NetworkInv'
  <2>1. Response(h) \in Frames
    BY DEF Frames, Responses
  <2>2. IsArp(Response(h), "response") /\ irq = None /\ answers' \subseteq Alive
    BY <1>0, <1>4 DEF Answer, OnArpResponse
  <2> QED
    BY <1>4, <2>1, <2>2, ResponseIsTrue, StoreKeeps DEF Answer, OnArpResponse
<1>5. ASSUME NEW h \in Alive, Lose(h) PROVE NetworkInv'
  BY <1>0, <1>5, SendKeeps DEF Lose
<1>6. CASE Hang \/ UNCHANGED vars
  BY <1>0, <1>6, SendKeeps DEF Hang, vars
<1> QED
  BY <1>1, <1>2, <1>3, <1>4, <1>5, <1>6 DEF Next

(* At first nothing is known and nothing under way.                        *)
LEMMA NetworkInit == Init => NetworkInv
BY DEF Init, NetworkInv, NetInv, TypeOK, CacheTruthful, HeardIsCached, HangsUnresolved

(* The invariant holds for ever.                                           *)
LEMMA NetworkInvariant == Spec => []NetworkInv
BY NetworkInit, NetworkStep, PTL DEF Spec

(* Every frame goes where it should, and the cache tells the truth, in any *)
(* network whose neighbours tell the truth.                                *)
THEOREM FramesGoRight == Spec => []NetInv
<1>1. NetworkInv => NetInv
  BY DEF NetworkInv
<1> QED
  BY <1>1, NetworkInvariant, PTL

(* The kernel hangs in the interrupt only over a neighbour that it has     *)
(* never heard, or with a full cache.                                      *)
THEOREM HangNeedsUnheard == Spec => []HungOnlyIfUnheard
<1>1. NetworkInv => HungOnlyIfUnheard
  <2> SUFFICES ASSUME NetworkInv, irq # None, Needs(irq) \in heard
               PROVE  Len(cache) = CacheSize
    BY DEF HungOnlyIfUnheard
  <2>1. irq \in ToSends /\ ~Resolves(irq) /\ TypeOK /\ CacheTruthful
    BY DEF NetworkInv, NetInv, TypeOK, HangsUnresolved
  <2>2. GetMACFromCache(Needs(irq)) = Broadcast
    BY <2>1, AsksTheNeeded DEF Resolves
  <2>3. \A i \in DOMAIN cache : cache[i].ip # Needs(irq)
    BY <2>1, <2>2, NotFoundIsAbsent
  <2> QED
    BY <2>3 DEF NetworkInv, HeardIsCached
<1> QED
  BY <1>1, NetworkInvariant, PTL
=============================================================================
