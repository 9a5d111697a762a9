------------------------------ MODULE Network ------------------------------
(***************************************************************************)
(* Ethernet frames, ARP, IPv4 and ICMP of one host (src/src/net/           *)
(* etherframe.cpp, arp.cpp, ipv4.cpp, icmp.cpp), above the network card.   *)
(*                                                                         *)
(* A task sends datagrams; the card's interrupt hands up whatever frame    *)
(* comes.  Every frame tells the truth about its sender, but any may come  *)
(* at any moment, again, or not at all.  No interrupt is taken inside an   *)
(* interrupt, and the task does not run in one.  Addresses are values of   *)
(* sets; a malloc that returns 0 is not modelled.                          *)
(***************************************************************************)
EXTENDS Integers, Sequences

CONSTANTS
    Ip,             \* addresses
    Us,             \* the address of this host
    Local,          \* the addresses of its subnet
    Gateway,        \* gatewayIP
    Alive,          \* the neighbours that exist
    Mac,            \* the hardware address of each host of the subnet
    Broadcast,      \* 0xFFFFFFFFFFFF, which is also "not in the cache"
    None,           \* no frame
    CacheSize       \* 128

ASSUME NetworkAssumption ==
    /\ Local \subseteq Ip /\ Us \in Local
    /\ Gateway \in Local /\ Alive \subseteq Local \ {Us}
    /\ Broadcast \notin {Mac[h] : h \in Local}
    /\ CacheSize \in Nat

VARIABLES
    cache,          \* IPcache and MACcache up to numCacheEntries
    task,           \* the datagram or announcement whose Send spins in
                    \* Resolve, or None
    irq,            \* the same for a Send inside the interrupt
    wire,           \* the last frame given to the card
    answers,        \* neighbours whose answer to RequestMACAddress is due
    lost,           \* history: those whose question or answer was lost
    heard           \* history: those whose answer has come

vars == <<cache, task, irq, wire, answers, lost, heard>>

Frame(dst, src, type, body) == [dst |-> dst, src |-> src, type |-> type, body |-> body]

ArpMessage(command, srcIP, srcMAC, dstIP, dstMAC) ==
    [command |-> command, srcIP |-> srcIP, srcMAC |-> srcMAC,
     dstIP |-> dstIP, dstMAC |-> dstMAC]

(* What a datagram carries: an echo request, something the handler answers *)
(* with a Send of its own (a SYN), something it does not answer, or a      *)
(* protocol without a handler.                                             *)
Contents == {"ping", "pong", "syn", "quiet", "unhandled"}

Datagram(srcIP, dstIP, carries) == [srcIP |-> srcIP, dstIP |-> dstIP, carries |-> carries]

Init ==
    /\ cache = <<>> /\ task = None /\ irq = None /\ wire = None
    /\ answers = {} /\ lost = {} /\ heard = {}

----------------------------------------------------------------------------
(* A wrong GetMACFromCache for the mutation runs: the search begins at 1.   *)
CachedButFirst(ip) ==
    LET hits == {i \in 2 .. Len(cache) : cache[i].ip = ip}
    IN  IF hits = {} THEN Broadcast
        ELSE cache[CHOOSE i \in hits : \A j \in hits : i <= j].mac

(* GetMACFromCache: the first entry of that address.                       *)
GetMACFromCache(ip) ==
    LET hits == {i \in DOMAIN cache : cache[i].ip = ip}
    IN  IF hits = {} THEN Broadcast
        ELSE cache[CHOOSE i \in hits : \A j \in hits : i <= j].mac

(* A wrong routing for the mutation runs: the gateway is not used.          *)
RouteDirect(ip) == ip

(* IPv4 Send: hosts outside the subnet are reached through the gateway.    *)
Route(ip) == IF ip \in Local THEN ip ELSE Gateway

(* What is sent once Resolve(via) returns: a datagram, or the response     *)
(* that BroadcastMACAddress makes up.                                      *)
ToSend(via, type, body) == [via |-> via, type |-> type, body |-> body]

SendDatagram(ip, carries) == ToSend(Route(ip), "ip", Datagram(Us, ip, carries))

Announcement(ip) ==
    ToSend(ip, "arp", ArpMessage("response", Us, Mac[Us], ip, Broadcast))

(* EtherFrameProvider::Send.  In an announcement dstMAC is what Resolve    *)
(* returned, too.                                                          *)
Framed(s) ==
    LET mac == GetMACFromCache(s.via)
    IN  Frame(mac, Mac[Us], s.type,
              IF s.type = "arp" THEN [s.body EXCEPT !.dstMAC = mac] ELSE s.body)

(* RequestMACAddress: broadcast a question; only a neighbour answers.      *)
Question(ip) ==
    Frame(Broadcast, Mac[Us], "arp", ArpMessage("request", Us, Mac[Us], ip, Broadcast))

Ask(ip) ==
    /\ wire' = Question(ip)
    /\ answers' = answers \cup ({ip} \cap Alive)
    /\ lost' = lost \ {ip}

(* Resolve finds the address, or asks once and spins.                      *)
Resolves(s) == GetMACFromCache(s.via) # Broadcast

SendNow(s) ==
    /\ Resolves(s)
    /\ wire' = Framed(s)
    /\ UNCHANGED <<task, irq, answers, lost>>

----------------------------------------------------------------------------
(* The task: RequestEchoReply or another Send, BroadcastMACAddress.        *)
SendSpins(s) ==
    /\ ~Resolves(s)
    /\ Ask(s.via)
    /\ task' = s
    /\ UNCHANGED irq

Sends == {SendDatagram(ip, c) : ip \in Ip, c \in {"ping", "quiet"}}
         \cup {Announcement(ip) : ip \in Ip}

Call(s) ==
    /\ task = None /\ irq = None
    /\ SendNow(s) \/ SendSpins(s)
    /\ UNCHANGED <<cache, heard>>

(* The loop in Resolve finds an entry that the interrupt has added.        *)
SpinEnds ==
    /\ task # None /\ irq = None /\ Resolves(task)
    /\ wire' = Framed(task)
    /\ task' = None
    /\ UNCHANGED <<cache, irq, answers, lost, heard>>

----------------------------------------------------------------------------
(* The interrupt.  EtherFrameProvider::OnRawDataReceived takes what is for *)
(* this host or for all, and turns the frame round when the handler asks   *)
(* for that: the answer goes to whoever sent the frame.                    *)
ForUs(f) == f.dst \in {Broadcast, Mac[Us]}

SendBack(f, body) == wire' = Frame(f.src, Mac[Us], f.type, body)

IsArp(f, command) ==
    ForUs(f) /\ f.type = "arp" /\ f.body.dstIP = Us /\ f.body.command = command

(* A wrong answer for the mutation runs: srcMAC is overwritten first.       *)
ArpAnswerSwapped(b) == ArpMessage("response", Us, Mac[Us], b.srcIP, Mac[Us])

ArpAnswer(b) == ArpMessage("response", Us, Mac[Us], b.srcIP, b.srcMAC)

OnArpRequest(f) ==
    /\ IsArp(f, "request")
    /\ SendBack(f, ArpAnswer(f.body))
    /\ UNCHANGED <<cache, task, irq, answers, lost, heard>>

(* Every response is stored, one that is there already as well.            *)
Store(b) ==
    IF Len(cache) < CacheSize
    THEN Append(cache, [ip |-> b.srcIP, mac |-> b.srcMAC]) ELSE cache

OnArpResponse(f) ==
    /\ IsArp(f, "response")
    /\ cache' = Store(f.body)
    /\ heard' = heard \cup {f.body.srcIP}
    /\ UNCHANGED <<task, irq, wire, lost>>

IsIp(f, carries) ==
    ForUs(f) /\ f.type = "ip" /\ f.body.dstIP = Us /\ f.body.carries = carries

(* ICMP turns an echo request into the reply, IPv4 swaps the addresses.    *)
OnEchoRequest(f) ==
    /\ IsIp(f, "ping")
    /\ SendBack(f, Datagram(Us, f.body.srcIP, "pong"))
    /\ UNCHANGED <<cache, task, irq, answers, lost, heard>>

(* A handler that sends from within the interrupt (TCP answers a SYN so)   *)
(* goes through Resolve, where it spins with interrupts off.               *)
SpinsInInterrupt(s) ==
    /\ ~Resolves(s)
    /\ Ask(s.via)
    /\ irq' = s
    /\ UNCHANGED task

OnSyn(f) ==
    /\ IsIp(f, "syn")
    /\ LET s == SendDatagram(f.body.srcIP, "quiet")
       IN  SendNow(s) \/ SpinsInInterrupt(s)
    /\ UNCHANGED <<cache, heard>>

(* Anything else changes nothing here.                                     *)
OnOther(f) ==
    /\ \A c \in {"request", "response"} : ~IsArp(f, c)
    /\ \A c \in {"ping", "syn"} : ~IsIp(f, c)
    /\ UNCHANGED vars

(* The frames that may come: from neighbours, and from other hosts through *)
(* the gateway, for this host, for another or for all.                     *)
NextHop(ip) == IF ip \in Local THEN ip ELSE Gateway

Response(h) == Frame(Mac[Us], Mac[h], "arp", ArpMessage("response", h, Mac[h], Us, Mac[Us]))

Questions == {Frame(Broadcast, Mac[h], "arp", ArpMessage("request", h, Mac[h], ip, Broadcast)) :
                 h \in Alive, ip \in Local}
Responses == {Response(h) : h \in Alive}
Datagrams == {Frame(dst, Mac[NextHop(ip)], "ip", Datagram(ip, to, c)) :
                 dst \in {Mac[Us], Mac[Gateway], Broadcast},
                 ip \in Alive \cup (Ip \ Local), to \in {Us, Gateway}, c \in Contents}

Frames == Questions \cup Responses \cup Datagrams

Receive(f) ==
    /\ irq = None
    /\ \/ OnArpRequest(f) \/ OnEchoRequest(f) \/ OnSyn(f) \/ OnOther(f)
       \/ OnArpResponse(f) /\ UNCHANGED answers

(* The answer to a question comes, or it is lost, or the question was.     *)
Answer(h) ==
    /\ irq = None /\ h \in answers
    /\ answers' = answers \ {h}
    /\ OnArpResponse(Response(h))

Lose(h) ==
    /\ h \in answers
    /\ answers' = answers \ {h} /\ lost' = lost \cup {h}
    /\ UNCHANGED <<cache, task, irq, wire, heard>>

(* The loop in Resolve with interrupts off: nothing changes any more.      *)
Hang == irq # None /\ ~Resolves(irq) /\ UNCHANGED vars

Next ==
    \/ \E s \in Sends : Call(s)
    \/ SpinEnds
    \/ \E f \in Frames : Receive(f)
    \/ \E h \in Alive : Answer(h) \/ Lose(h)
    \/ Hang

(* The spinning task runs, and what is not lost comes; none has to ask.    *)
Fairness == WF_vars(SpinEnds) /\ \A h \in Alive : WF_vars(Answer(h))

Spec == Init /\ [][Next]_vars /\ Fairness

----------------------------------------------------------------------------
ToSends == {SendDatagram(ip, c) : ip \in Ip, c \in Contents}
           \cup {Announcement(ip) : ip \in Ip}

TypeOK ==
    /\ cache \in Seq([ip : Ip, mac : {Mac[h] : h \in Local}])
    /\ Len(cache) <= CacheSize
    /\ task \in ToSends \cup {None} /\ irq \in ToSends \cup {None}
    /\ answers \subseteq Alive /\ lost \subseteq Alive /\ heard \subseteq Alive

(* What the cache says is so: for an address in it, the neighbour's own    *)
(* hardware address.                                                       *)
CacheTruthful == \A i \in DOMAIN cache :
    cache[i].ip \in Alive /\ cache[i].mac = Mac[cache[i].ip]

(* A frame goes where it should: a datagram to its destination or, if that *)
(* is outside the subnet, to the gateway; an ARP response to the one it    *)
(* names, whose both addresses are right; a question to all.  It does not  *)
(* matter whether the frame was made here or turned round in place.        *)
FrameRight(f) ==
    /\ f.src = Mac[Us] /\ f.body.srcIP = Us
    /\ f.type = "ip" => f.dst = Mac[NextHop(f.body.dstIP)]
    /\ f.type = "arp" =>
          /\ f.body.srcMAC = Mac[Us]
          /\ f.dst = f.body.dstMAC
          /\ f.dst = IF f.body.command = "request" THEN Broadcast ELSE Mac[f.body.dstIP]

NetInv == TypeOK /\ CacheTruthful /\ (wire # None => FrameRight(wire))

(* Whose answer a Send needs.                                              *)
Needs(s) == IF s.type = "arp" THEN s.body.dstIP ELSE NextHop(s.body.dstIP)

(* The kernel hangs in the interrupt only over a neighbour that has never  *)
(* answered - its own questions and datagrams do not count - or, when the  *)
(* cache is full, over one whose answer came too late.                     *)
HungOnlyIfUnheard ==
    irq # None => Needs(irq) \notin heard \/ Len(cache) = CacheSize

(* Resolve returns to the task (arp.cpp:116 notes "possible infinite       *)
(* loop"), unless no such neighbour exists, its one question or the answer *)
(* was lost, the cache is full, or the interrupt hangs.                    *)
Excused(h) ==
    h \notin Alive \/ h \in lost \/ Len(cache) = CacheSize \/ irq # None

ResolveReturns == []<>(task = None \/ Excused(Needs(task)))
=============================================================================
