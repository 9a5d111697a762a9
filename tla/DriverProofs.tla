---------------------------- MODULE DriverProofs ----------------------------
(***************************************************************************)
(* Theorems about the drivers.  Those of the mouse, the timer, the clock   *)
(* and of what the network cards leave in memory are parts of Devices.tla: *)
(* their variables are v1, v2, ... in the order of the part's module.  The *)
(* last section is about the two rings of the AMD am79c973's driver, for   *)
(* every number of descriptors.                                            *)
(***************************************************************************)
EXTENDS Devices, AmdReceive, AmdSend, SequenceTheorems, WellFoundedInduction, TLAPS

all == <<part, v1, v2, rest2>>

----------------------------------------------------------------------------
(* The mouse: offset v1, buffer v2, buttons v3, port v4, packet v5,        *)
(* phase v6, ackLate v7, down v8, pressed v9.                              *)

(* Until Activate returns nothing has been read, and the answer to its     *)
(* command comes first.                                                    *)
AnswerFirst ==
    v6 = "commanded" =>
        /\ v1 = 0 /\ v3 = {} /\ ~v7
        /\ v4 = <<>> => Len(v5) = 1
        /\ v5 = <<>> \/ v4 = <<>> => v9 = {}
        /\ v4 # <<>> /\ v5 # <<>> => Len(v5) = 3 /\ v5[1] = v9

(* In step, the buttons of the last report are still with the mouse, or in *)
(* the port, or in the driver's buffer, or in its state.                   *)
ReportUnderWay ==
    v6 = "active" /\ ~v7 =>
        /\ Len(v4) + Len(v5) = 0 => v8 = v9
        /\ Len(v4) + Len(v5) \in {1, 2} => v2[0] = v9
        /\ Len(v4) + Len(v5) = 3 => IF v4 = <<>> THEN v5[1] = v9 ELSE v4[1] = v9
        /\ Len(v4) + Len(v5) = 4 => v5[1] = v9

MouseProof == Mouse!MouseInv /\ AnswerFirst /\ ReportUnderWay

(* The answer to the command is the first byte in the port.                *)
LEMMA MouseInit ==
    ASSUME Mouse!ConstantsOK, Mouse!Init
    PROVE  MouseProof
<1>1. /\ AckBits \in SUBSET MouseBits
      /\ v1 = 0 /\ v3 = {} /\ v8 = {} /\ v9 = {} /\ v2 = [k \in 0 .. 2 |-> {}]
      /\ v4 = <<>> /\ v5 = <<AckBits>> /\ v6 = "commanded" /\ v7 = FALSE
  BY DEF Mouse!ConstantsOK, Mouse!Init
<1>2. v5 \in Seq(SUBSET MouseBits) /\ Len(v5) = 1 /\ v5 # <<>>
  BY <1>1
<1>3. Mouse!TypeOK
  BY <1>1, <1>2 DEF Mouse!TypeOK, Mouse!Bytes
<1>4. Mouse!InStep /\ Mouse!ButtonsRight
  BY <1>1 DEF Mouse!InStep, Mouse!ButtonsRight
<1>5. AnswerFirst /\ ReportUnderWay
  BY <1>1, <1>2 DEF AnswerFirst, ReportUnderWay
<1> QED
  BY <1>3, <1>4, <1>5 DEF MouseProof, Mouse!MouseInv

(* A short sequence has one of the lengths that there are.                 *)
LEMMA ShortLength ==
    ASSUME NEW B, NEW q \in Seq(B), NEW k \in Nat, Len(q) <= k
    PROVE  \E n \in 0 .. k : n = Len(q) /\ (n = 0 <=> q = <<>>)
<1>1. PICK n \in Nat : n = Len(q)
  OBVIOUS
<1>2. n = 0 <=> q = <<>>
  BY <1>1
<1> QED
  BY <1>1, <1>2

(* What is under way, by the lengths of port and packet.                   *)
CountedAt(m, n) ==
    v6 = "active" => v1 = (6 - (m + n) + (IF v7 THEN 1 ELSE 0)) % 3

AnswerFirstAt(m, n) ==
    v6 = "commanded" =>
        /\ v1 = 0 /\ v3 = {} /\ ~v7
        /\ m = 0 => n = 1
        /\ n = 0 \/ m = 0 => v9 = {}
        /\ m # 0 /\ n # 0 => n = 3 /\ v5[1] = v9

ReportAt(m, n) ==
    v6 = "active" /\ ~v7 =>
        /\ m + n = 0 => v8 = v9
        /\ m + n \in {1, 2} => v2[0] = v9
        /\ m + n = 3 => IF m = 0 THEN v5[1] = v9 ELSE v4[1] = v9
        /\ m + n = 4 => v5[1] = v9

UnderWayAt(m, n) == CountedAt(m, n) /\ AnswerFirstAt(m, n) /\ ReportAt(m, n)

MouseTypes ==
    /\ v1 \in 0 .. 2 /\ v2 \in [0 .. 2 -> Mouse!Bytes]
    /\ v3 \in Mouse!Bytes /\ v8 = v3 /\ v9 \in Mouse!Bytes
    /\ v4 \in Seq(Mouse!Bytes) /\ v5 \in Seq(Mouse!Bytes)
    /\ v6 \in {"commanded", "active"} /\ v7 \in BOOLEAN

MouseHolds ==
    /\ MouseTypes
    /\ \E m \in 0 .. 1, n \in 0 .. 3 :
          /\ m = Len(v4) /\ (m = 0 <=> v4 = <<>>)
          /\ n = Len(v5) /\ (n = 0 <=> v5 = <<>>)
          /\ UnderWayAt(m, n)

(* The lengths of the two queues decide how far the report has come.       *)
LEMMA MouseAt == MouseProof <=> MouseHolds
<1>1. ASSUME MouseProof PROVE MouseHolds
  <2>1. Mouse!TypeOK /\ Mouse!InStep /\ Mouse!ButtonsRight /\ AnswerFirst /\ ReportUnderWay
    BY <1>1 DEF MouseProof, Mouse!MouseInv
  <2>2. MouseTypes /\ Len(v4) <= 1 /\ Len(v5) <= 3
    BY <2>1 DEF MouseTypes, Mouse!TypeOK, Mouse!ButtonsRight
  <2>3. PICK m \in 0 .. 1 : m = Len(v4) /\ (m = 0 <=> v4 = <<>>)
    BY <2>2, ShortLength DEF MouseTypes
  <2>4. PICK n \in 0 .. 3 : n = Len(v5) /\ (n = 0 <=> v5 = <<>>)
    BY <2>2, ShortLength DEF MouseTypes
  <2>5. UnderWayAt(m, n)
    BY <2>1, <2>3, <2>4 DEF UnderWayAt, CountedAt, AnswerFirstAt, ReportAt,
                            Mouse!InStep, Mouse!UnderWay, AnswerFirst, ReportUnderWay
  <2> QED
    BY <2>2, <2>3, <2>4, <2>5 DEF MouseHolds
<1>2. ASSUME MouseTypes, NEW m \in 0 .. 1, NEW n \in 0 .. 3,
             m = Len(v4), m = 0 <=> v4 = <<>>, n = Len(v5), n = 0 <=> v5 = <<>>,
             UnderWayAt(m, n)
      PROVE  MouseProof
  <2>1. Mouse!TypeOK
    <3>1. Len(v4) <= 1 /\ Len(v5) <= 3
      BY SMTT(30), <1>2
    <3>2. v8 \in Mouse!Bytes
      BY <1>2 DEF MouseTypes
    <3> QED
      BY <1>2, <3>1, <3>2 DEF MouseTypes, Mouse!TypeOK
  <2>2. Mouse!InStep
    BY <1>2 DEF UnderWayAt, CountedAt, Mouse!InStep, Mouse!UnderWay
  <2>3. Mouse!ButtonsRight
    BY <1>2 DEF UnderWayAt, ReportAt, MouseTypes, Mouse!ButtonsRight, Mouse!UnderWay
  <2>4. AnswerFirst
    BY <1>2 DEF UnderWayAt, AnswerFirstAt, AnswerFirst
  <2>5. ReportUnderWay
    BY <1>2 DEF UnderWayAt, ReportAt, ReportUnderWay
  <2> QED
    BY <2>1, <2>2, <2>3, <2>4, <2>5 DEF MouseProof, Mouse!MouseInv
<1> QED
  BY <1>1, <1>2 DEF MouseHolds

(* Each byte that the mouse sends and the driver takes brings the last     *)
(* report further.                                                         *)
LEMMA MouseStep ==
    ASSUME MouseProof, [Mouse!Next]_(Mouse!vars)
    PROVE  MouseProof'
<1> DEFINE B == Mouse!Bytes
<1>0. {} \in B
  BY DEF Mouse!Bytes
<1>1. PICK m \in 0 .. 1, n \in 0 .. 3 :
         /\ m = Len(v4) /\ (m = 0 <=> v4 = <<>>)
         /\ n = Len(v5) /\ (n = 0 <=> v5 = <<>>)
         /\ UnderWayAt(m, n)
  BY MouseAt DEF MouseHolds
<1>2. /\ v1 \in 0 .. 2 /\ v2 \in [0 .. 2 -> B] /\ v3 \in B /\ v8 = v3 /\ v9 \in B
      /\ v4 \in Seq(B) /\ v5 \in Seq(B)
      /\ v6 \in {"commanded", "active"} /\ v7 \in BOOLEAN
  BY MouseAt DEF MouseHolds, MouseTypes
<1>3. ASSUME NEW k \in 0 .. 1, NEW l \in 0 .. 3, MouseTypes',
             k = Len(v4'), k = 0 <=> v4' = <<>>, l = Len(v5'), l = 0 <=> v5' = <<>>,
             UnderWayAt(k, l)'
      PROVE  MouseProof'
  <2>1. MouseHolds'
    BY <1>3 DEF MouseHolds
  <2> QED
    BY <2>1, MouseAt, PTL
<1> HIDE DEF B

<1>4. CASE Mouse!Deliver
  <2>1. PICK q \in Seq(B) : q = v5
    BY <1>2
  <2>2. /\ q # <<>> /\ v4 = <<>> /\ v4' = <<q[1]>> /\ v5' = Tail(q)
        /\ UNCHANGED <<v1, v2, v3, v6, v7, v8, v9>>
    BY <1>4, <2>1 DEF Mouse!Deliver, Mouse!driver
  <2>3. m = 0 /\ n # 0 /\ n = Len(q)
    BY <1>1, <2>1, <2>2
  <2>4. /\ q[1] \in B /\ v4' \in Seq(B) /\ Len(v4') = 1 /\ v4' # <<>> /\ v4'[1] = q[1]
        /\ Tail(q) \in Seq(B) /\ Len(Tail(q)) = n - 1
        /\ n >= 2 => Tail(q)[1] = q[2]
        /\ Tail(q) = <<>> <=> n = 1
    BY SMTT(30), <2>2, <2>3
  <2>5. UnderWayAt(1, n - 1)'
    <3>1. CountedAt(1, n - 1)'
      BY <1>1, <1>2, <2>1, <2>2, <2>3, <2>4 DEF UnderWayAt, CountedAt, ReportAt, AnswerFirstAt
    <3>2. AnswerFirstAt(1, n - 1)'
      BY <1>1, <1>2, <2>1, <2>2, <2>3, <2>4 DEF UnderWayAt, AnswerFirstAt, ReportAt, CountedAt
    <3>3. ReportAt(1, n - 1)'
      <4>1. ReportAt(0, n)
        BY <1>1, <2>3 DEF UnderWayAt
      <4>2. CASE n \in {1, 2}
        BY <2>2, <4>1, <4>2 DEF ReportAt
      <4>3. CASE n = 3
        BY <2>1, <2>2, <2>4, <4>1, <4>3 DEF ReportAt
      <4> QED
        BY <1>1, <2>3, <4>2, <4>3
    <3> QED
      BY <3>1, <3>2, <3>3 DEF UnderWayAt
  <2>6. MouseTypes'
    BY <1>2, <2>2, <2>4 DEF MouseTypes, B, Mouse!Bytes
  <2>7. n - 1 \in 0 .. 3 /\ 1 \in 0 .. 1
    BY <2>3
  <2> QED
    BY <1>3, <2>2, <2>4, <2>5, <2>6, <2>7
<1>5. CASE \E now, dx \in Mouse!Bytes : Mouse!Report(now, dx)
  <2>1. PICK now \in B, dx \in B : Mouse!Report(now, dx)
    BY <1>5 DEF B
  <2>2. /\ v5 = <<>> /\ v5' = <<now, dx, {}>> /\ v9' = now
        /\ UNCHANGED <<v1, v2, v3, v4, v6, v7, v8>>
    BY <2>1 DEF Mouse!Report, Mouse!driver
  <2>3. v5' \in Seq(B) /\ Len(v5') = 3 /\ v5' # <<>> /\ v5'[1] = now
    BY <1>0, <2>2
  <2>4. n = 0
    BY <1>1, <2>2
  <2>5. UnderWayAt(m, 3)'
    <3>1. CountedAt(m, 3)'
      <4>1. CountedAt(m, 0)
        BY <1>1, <2>4 DEF UnderWayAt
      <4>2. PICK a \in {0, 1} : a = IF v7 THEN 1 ELSE 0
        OBVIOUS
      <4>3. PICK k \in 2 .. 4 : k = 3 - m + a
        BY <4>2
      <4>4. (k + 3) % 3 = k % 3
        OBVIOUS
      <4>5. 6 - (m + 0) + a = k + 3 /\ 6 - (m + 3) + a = k
        BY <4>2, <4>3
      <4> QED
        BY <2>2, <4>1, <4>2, <4>4, <4>5 DEF CountedAt
    <3>2. AnswerFirstAt(m, 3)'
      BY <1>1, <1>2, <2>2, <2>3, <2>4 DEF UnderWayAt, AnswerFirstAt, ReportAt, CountedAt
    <3>3. ReportAt(m, 3)'
      BY <1>1, <1>2, <2>2, <2>3, <2>4 DEF UnderWayAt, ReportAt, CountedAt, AnswerFirstAt
    <3> QED
      BY <3>1, <3>2, <3>3 DEF UnderWayAt
  <2>6. MouseTypes'
    BY <1>2, <2>1, <2>2, <2>3 DEF MouseTypes, B, Mouse!Bytes
  <2>7. m = Len(v4') /\ (m = 0 <=> v4' = <<>>)
    BY <1>1, <2>2
  <2> QED
    BY <1>3, <2>3, <2>5, <2>6, <2>7
<1>6. CASE Mouse!ReadAck
  <2>1. /\ v6 = "commanded" /\ v6' = "active" /\ v4' = <<>> /\ v7' = (v4 = <<>>)
        /\ UNCHANGED <<v1, v2, v3, v5, v8, v9>>
    BY <1>6 DEF Mouse!ReadAck, Mouse!driver
  <2>2. /\ v4' \in Seq(B) /\ Len(v4') = 0 /\ v7' \in BOOLEAN
        /\ m = 0 => v7' = TRUE
        /\ m # 0 => v7' = FALSE
    <3>1. v7' = (m = 0)
      BY <1>1, <2>1, Zenon
    <3>2. v4' \in Seq(B) /\ Len(v4') = 0
      BY <2>1
    <3>3. /\ v7' \in BOOLEAN
          /\ m = 0 => v7' = TRUE
          /\ m # 0 => v7' = FALSE
      BY <3>1, Zenon
    <3> QED
      BY <3>2, <3>3
  <2>3. UnderWayAt(0, n)'
    <3>0. /\ v1 = 0
          /\ m = 0 => n = 1
          /\ m # 0 => (n = 0 /\ v9 = {}) \/ (n = 3 /\ v5[1] = v9)
      <4>1. AnswerFirstAt(m, n)
        BY <1>1 DEF UnderWayAt
      <4>2. CASE m = 0
        BY <2>1, <4>1, <4>2 DEF AnswerFirstAt
      <4>3. CASE m # 0 /\ n = 0
        BY <2>1, <4>1, <4>3 DEF AnswerFirstAt
      <4>4. CASE m # 0 /\ n # 0
        BY <2>1, <4>1, <4>4 DEF AnswerFirstAt
      <4> QED
        BY <4>2, <4>3, <4>4
    <3>1. CountedAt(0, n)'
      <4>1. CASE m = 0
        BY <2>1, <2>2, <3>0, <4>1 DEF CountedAt
      <4>2. CASE m # 0 /\ n = 0
        BY <2>1, <2>2, <3>0, <4>2 DEF CountedAt
      <4>3. CASE m # 0 /\ n = 3
        BY <2>1, <2>2, <3>0, <4>3 DEF CountedAt
      <4> QED
        BY <3>0, <4>1, <4>2, <4>3
    <3>2. AnswerFirstAt(0, n)'
      BY <1>1, <1>2, <2>1, <2>2 DEF UnderWayAt, AnswerFirstAt, ReportAt, CountedAt
    <3>3. ReportAt(0, n)'
      <4>1. m # 0 => v3 = {} /\ v8 = {}
        BY <1>1, <1>2, <2>1 DEF UnderWayAt, AnswerFirstAt
      <4>2. CASE m = 0
        BY <2>2, <4>2 DEF ReportAt
      <4>3. CASE m # 0
        <5>1. CASE n = 0
          <6>1. v8' = v9'
            <7>1. n # 3
              BY <5>1
            <7> QED
              BY <2>1, <3>0, <4>1, <4>3, <7>1, Zenon
          <6> QED
            BY <5>1, <6>1 DEF ReportAt
        <5>2. CASE n = 3
          BY <2>1, <3>0, <4>1, <4>3, <5>2 DEF ReportAt
        <5> QED
          BY <3>0, <4>3, <5>1, <5>2
      <4> QED
        BY <4>2, <4>3
    <3> QED
      BY <3>1, <3>2, <3>3 DEF UnderWayAt
  <2>4. MouseTypes'
    BY <1>2, <2>1, <2>2 DEF MouseTypes, B, Mouse!Bytes
  <2>5. n = Len(v5') /\ (n = 0 <=> v5' = <<>>) /\ 0 \in 0 .. 1
    BY <1>1, <2>1
  <2> QED
    BY <1>3, <2>1, <2>2, <2>3, <2>4, <2>5
<1>7. CASE Mouse!HandleInterrupt
  <2>1. PICK p \in Seq(B) : p = v4
    BY <1>2
  <2>2. /\ v6 = "active" /\ p # <<>> /\ v2' = [v2 EXCEPT ![v1] = p[1]] /\ v1' = (v1 + 1) % 3
        /\ IF v1' = 0 THEN Mouse!EndPacket(v2'[0]) ELSE v3' = v3 /\ v8' = v8
        /\ v4' = <<>>
        /\ UNCHANGED <<v5, v6, v7, v9>>
    BY <1>7, <2>1 DEF Mouse!HandleInterrupt
  <2>3. m = 1 /\ p[1] \in B
    BY <1>1, <2>1, <2>2
  <2>4. /\ v2' \in [0 .. 2 -> B] /\ v2'[v1] = p[1] /\ (v1 # 0 => v2'[0] = v2[0]) /\ v2'[0] \in B
        /\ v4' \in Seq(B) /\ Len(v4') = 0 /\ v1' \in 0 .. 2
    <3>1. v2' \in [0 .. 2 -> B] /\ v2'[v1] = p[1] /\ (v1 # 0 => v2'[0] = v2[0]) /\ v2'[0] \in B
      BY <1>2, <2>2, <2>3
    <3>2. v1' \in 0 .. 2
      BY <1>2, <2>2
    <3> QED
      BY <2>2, <3>1, <3>2
  <2>5. IF v1' = 0 THEN v8' = v2'[0] /\ v3' = v2'[0] ELSE v3' = v3 /\ v8' = v3
    <3>1. (v3 \ (v3 \ v2'[0])) \cup (v2'[0] \ v3) = v2'[0]
      OBVIOUS
    <3> QED
      BY <1>2, <2>2, <3>1 DEF Mouse!EndPacket
  <2>6. MouseTypes'
    BY <1>2, <2>2, <2>4, <2>5 DEF MouseTypes, B, Mouse!Bytes
  <2>7. UnderWayAt(0, n)'
    <3>1. v1 = (5 - n + (IF v7 THEN 1 ELSE 0)) % 3
      BY <1>1, <2>2, <2>3 DEF UnderWayAt, CountedAt, AnswerFirstAt, ReportAt
    <3>2. v1' = (6 - (0 + n) + (IF v7 THEN 1 ELSE 0)) % 3
      BY <1>2, <2>2, <3>1
    <3>3. ASSUME ~v7
          PROVE  /\ n = 0 => v8' = v9
                 /\ n \in {1, 2} => v2'[0] = v9
                 /\ n = 3 => v5[1] = v9
      <4>1. CASE n = 0
        <5>1. v1 = 2 /\ v1' = 0
          BY <3>1, <3>2, <3>3, <4>1
        <5>2. v2[0] = v9
          BY <1>1, <2>2, <2>3, <3>3, <4>1 DEF UnderWayAt, CountedAt, AnswerFirstAt, ReportAt
        <5> QED
          BY <2>4, <2>5, <4>1, <5>1, <5>2
      <4>2. CASE n = 1
        <5>1. v1 = 1
          BY <3>1, <3>3, <4>2
        <5>2. v2[0] = v9
          BY <1>1, <2>2, <2>3, <3>3, <4>2 DEF UnderWayAt, CountedAt, AnswerFirstAt, ReportAt
        <5> QED
          BY <2>4, <4>2, <5>1, <5>2
      <4>3. CASE n = 2
        <5>1. v1 = 0
          BY <3>1, <3>3, <4>3
        <5>2. p[1] = v9
          BY <1>1, <2>1, <2>2, <2>3, <3>3, <4>3 DEF UnderWayAt, CountedAt, AnswerFirstAt, ReportAt
        <5> QED
          BY <2>4, <4>3, <5>1, <5>2
      <4>4. CASE n = 3
        <5>1. v5[1] = v9
          BY <1>1, <2>2, <2>3, <3>3, <4>4 DEF UnderWayAt, CountedAt, AnswerFirstAt, ReportAt
        <5> QED
          BY <4>4, <5>1
      <4> QED
        BY <4>1, <4>2, <4>3, <4>4
    <3> QED
      BY <2>2, <3>2, <3>3 DEF UnderWayAt, CountedAt, AnswerFirstAt, ReportAt
  <2>8. n = Len(v5') /\ (n = 0 <=> v5' = <<>>) /\ 0 \in 0 .. 1
    BY <1>1, <2>2
  <2> QED
    BY <1>3, <2>2, <2>4, <2>6, <2>7, <2>8
<1>8. CASE UNCHANGED Mouse!vars
  <2>1. UNCHANGED <<v1, v2, v3, v4, v5, v6, v7, v8, v9>>
    BY <1>8 DEF Mouse!vars, Mouse!driver
  <2>2. MouseTypes' /\ UnderWayAt(m, n)'
    BY <1>1, <1>2, <2>1 DEF UnderWayAt, CountedAt, AnswerFirstAt, ReportAt, MouseTypes, B,
          Mouse!Bytes
  <2> QED
    BY <1>1, <1>3, <2>1, <2>2
<1> QED
  BY <1>4, <1>5, <1>6, <1>7, <1>8 DEF Mouse!Next


(* The mouse driver stays in step with the mouse and tells its handler     *)
(* what the mouse reports, for every set of buttons and whatever the       *)
(* answer to its command looks like (mouse.cpp).                           *)
THEOREM MouseStaysRight == Spec => []MouseRight
<1> DEFINE Inv == part = "Mouse" => MouseProof
<1>1. Init => Inv
  <2> SUFFICES ASSUME Init, part = "Mouse" PROVE MouseProof
    OBVIOUS
  <2>1. Mouse!Init
    BY DEF Init
  <2> QED
    BY <2>1, MouseInit, ConstantsAssumption
<1>2. Inv /\ [Next]_all => Inv'
  <2> SUFFICES ASSUME Inv, [Next]_all, part' = "Mouse" PROVE MouseProof'
    OBVIOUS
  <2>1. part = "Mouse" /\ [Mouse!Next]_(Mouse!vars)
    BY DEF Next, all, rest2, rest3, rest4, rest6, rest9, rest11, rest12, Mouse!vars,
           Mouse!driver
  <2> QED
    BY <2>1, MouseStep
<1>3. Inv => MouseRight
  BY DEF MouseRight, MouseProof
<1> QED
  BY <1>1, <1>2, <1>3, PTL DEF Spec, all

----------------------------------------------------------------------------
(* The timer: timerTicks v1, speaker v2, beep v3.                          *)

(* What is known of one task in Beep: in Sleep, as long as not all ticks   *)
(* have come, the counter is as far from what it waits for as ticks are to *)
(* come - unless the sum had wrapped.                                      *)
BeepRight(b, now) ==
    /\ b.elapsed <= b.ms
    /\ b.at \in {"on", "sleep"} => b.elapsed = 0 /\ b.wrapped = FALSE /\ b.ms # 0
    /\ b.at = "spin" /\ b.elapsed < b.ms /\ b.wrapped = FALSE =>
          now + (b.ms - b.elapsed) = b.eticks
    /\ b.at \in {"off", "silence"} => b.elapsed = b.ms \/ b.wrapped = TRUE

BeepType ==
    [at : {"idle", "on", "sleep", "spin", "off", "silence"}, tmp : BOOLEAN,
     ms : Durations \cup {0}, eticks : 0 .. TickWidth - 1,
     elapsed : 0 .. TickWidth - 1, wrapped : BOOLEAN]

TimerProof ==
    /\ v1 \in 0 .. TickWidth - 1 /\ v2 \in BOOLEAN /\ v3 \in [Callers -> BeepType]
    /\ \A t \in Callers : BeepRight(v3[t], v1)
    /\ Timer!SilentWhenIdle

(* A number less than two turns of m, without the remainder.               *)
LEMMA Turn ==
    ASSUME NEW m \in Nat \ {0}, NEW a \in 0 .. m - 1, NEW k \in 0 .. m
    PROVE  /\ (a + k) % m = IF a + k < m THEN a + k ELSE a + k - m
           /\ (a + k) % m \in 0 .. m - 1
<1>1. ASSUME NEW x \in 0 .. m - 1 PROVE x % m = x
  BY SMTT(30)
<1>2. ASSUME NEW x \in m .. 2 * m - 1 PROVE x % m = x - m
  BY SMTT(30)
<1> DEFINE x == a + k
<1>3. CASE x < m
  <2>1. x \in 0 .. m - 1
    BY <1>3
  <2> QED
    BY <1>1, <1>3, <2>1
<1>4. CASE ~(x < m)
  <2>1. x \in m .. 2 * m - 1
    BY <1>4
  <2> QED
    BY <1>2, <1>4, <2>1
<1> QED
  BY <1>3, <1>4

(* The fields of a call of Beep are numbers that the counter can have.     *)
LEMMA BeepFields ==
    ASSUME Timer!ConstantsOK, NEW b \in BeepType
    PROVE  /\ b.ms \in 0 .. TickWidth - 1 /\ b.eticks \in 0 .. TickWidth - 1
           /\ b.elapsed \in 0 .. TickWidth - 1 /\ b.wrapped \in BOOLEAN
<1>1. TickWidth \in Nat \ {0} /\ Durations \subseteq 0 .. TickWidth - 1
  BY DEF Timer!ConstantsOK
<1>2. b.ms \in Durations \cup {0}
  BY DEF BeepType
<1>3. b.ms \in 0 .. TickWidth - 1
  <2>1. CASE b.ms \in Durations
    BY <1>1, <2>1
  <2>2. ASSUME b.ms = 0 PROVE b.ms \in 0 .. TickWidth - 1
    <3>1. 0 \in 0 .. TickWidth - 1
      BY <1>1
    <3> QED
      BY <2>2, <3>1
  <2> QED
    BY <1>2, <2>1, <2>2
<1>4. b.eticks \in 0 .. TickWidth - 1
  BY DEF BeepType
<1>5. b.elapsed \in 0 .. TickWidth - 1
  BY DEF BeepType
<1>6. b.wrapped \in BOOLEAN
  BY DEF BeepType
<1> QED
  BY <1>3, <1>4, <1>5, <1>6

(* Nobody beeps at first.                                                  *)
LEMMA TimerInit ==
    ASSUME Timer!ConstantsOK, Timer!Init
    PROVE  TimerProof
<1>1. TickWidth \in Nat \ {0}
  BY DEF Timer!ConstantsOK
<1>2. v1 = 0 /\ v2 = FALSE /\ v3 = [t \in Callers |-> Timer!Idle]
  BY DEF Timer!Init
<1>3. 0 \in 0 .. TickWidth - 1
  BY <1>1
<1>4. Timer!Idle \in BeepType
  BY <1>3 DEF Timer!Idle, BeepType
<1>5. BeepRight(Timer!Idle, 0)
  BY DEF Timer!Idle, BeepRight
<1>6. v3 \in [Callers -> BeepType] /\ \A t \in Callers : BeepRight(v3[t], v1)
  BY <1>2, <1>4, <1>5
<1> QED
  BY <1>2, <1>3, <1>6 DEF TimerProof, Timer!SilentWhenIdle

(* A step of one task, which leaves it in Beep or the speaker silent.      *)
LEMMA OneBeeps ==
    ASSUME TimerProof, NEW t \in Callers, NEW b \in BeepType, Timer!Go(t, b), v1' = v1,
           BeepRight(b, v1), v2' \in BOOLEAN, b.at # "idle" \/ v2' = FALSE
    PROVE  TimerProof'
<1>1. v3' = [v3 EXCEPT ![t] = b] /\ v3 \in [Callers -> BeepType]
  BY DEF TimerProof, Timer!Go
<1>2. v3' \in [Callers -> BeepType] /\ v3'[t] = b /\ \A u \in Callers : u # t => v3'[u] = v3[u]
  BY <1>1
<1>3. \A u \in Callers : BeepRight(v3'[u], v1)
  BY <1>2 DEF TimerProof
<1>4. Timer!SilentWhenIdle'
  BY <1>2 DEF Timer!SilentWhenIdle
<1> QED
  BY <1>2, <1>3, <1>4 DEF TimerProof

(* A tick brings the counter and what each sleeper waits for together by   *)
(* one; the other steps are of one task.                                   *)
LEMMA TimerStep ==
    ASSUME Timer!ConstantsOK, TimerProof, [Timer!Next]_(Timer!vars)
    PROVE  TimerProof'
<1>1. TickWidth \in Nat \ {0} /\ Durations \subseteq 0 .. TickWidth - 1
  BY DEF Timer!ConstantsOK
<1>2. /\ v1 \in 0 .. TickWidth - 1 /\ v2 \in BOOLEAN
      /\ \A t \in Callers : v3[t] \in BeepType /\ BeepRight(v3[t], v1)
  BY DEF TimerProof
<1>3. CASE Timer!HandleInterrupt
  <2>1. /\ v1' = (v1 + 1) % TickWidth /\ v2' = v2
        /\ v3' = [t \in Callers |-> IF v3[t].at = "spin" /\ v3[t].elapsed < v3[t].ms
                                    THEN [v3[t] EXCEPT !.elapsed = @ + 1] ELSE v3[t]]
    BY <1>3 DEF Timer!HandleInterrupt
  <2>2. /\ v1' = IF v1 + 1 < TickWidth THEN v1 + 1 ELSE v1 + 1 - TickWidth
        /\ v1' \in 0 .. TickWidth - 1
    <3>1. 1 \in 0 .. TickWidth
      BY <1>1
    <3> QED
      BY <1>1, <1>2, <2>1, <3>1, Turn
  <2>3. ASSUME NEW t \in Callers
        PROVE  v3'[t] \in BeepType /\ BeepRight(v3'[t], v1') /\ v3'[t].at = v3[t].at
    <3>1. PICK b \in BeepType : b = v3[t] /\ BeepRight(b, v1)
      BY <1>2
    <3>2. CASE b.at = "spin" /\ b.elapsed < b.ms
      <4> DEFINE c == [b EXCEPT !.elapsed = @ + 1]
      <4>1. v3'[t] = c
        BY <2>1, <3>1, <3>2
      <4>2. /\ b.ms \in 0 .. TickWidth - 1 /\ b.elapsed \in 0 .. TickWidth - 1
            /\ b.eticks \in 0 .. TickWidth - 1
        BY BeepFields
      <4>3. b.elapsed + 1 \in 0 .. TickWidth - 1 /\ b.elapsed + 1 <= b.ms
        BY <1>1, <3>2, <4>2
      <4>4. /\ c \in BeepType /\ c.elapsed = b.elapsed + 1 /\ c.at = "spin" /\ c.ms = b.ms
            /\ c.eticks = b.eticks /\ c.wrapped = b.wrapped
        BY <3>2, <4>3 DEF BeepType
      <4> HIDE DEF c
      <4>5. ASSUME c.elapsed < c.ms, c.wrapped = FALSE
            PROVE  v1' + (c.ms - c.elapsed) = c.eticks
        <5>1. v1 + (b.ms - b.elapsed) = b.eticks
          BY <3>1, <3>2, <4>4, <4>5 DEF BeepRight
        <5> QED
          BY <1>1, <1>2, <2>2, <4>2, <4>4, <4>5, <5>1
      <4>6. BeepRight(c, v1')
        BY <4>3, <4>4, <4>5 DEF BeepRight
      <4> QED
        BY <3>1, <3>2, <4>1, <4>4, <4>6
    <3>3. CASE ~(b.at = "spin" /\ b.elapsed < b.ms)
      <4>1. v3'[t] = b
        BY <2>1, <3>1, <3>3
      <4>2. BeepRight(b, v1')
        BY <3>1, <3>3 DEF BeepRight
      <4> QED
        BY <3>1, <4>1, <4>2
    <3> QED
      BY <3>2, <3>3
  <2>4. v3' \in [Callers -> BeepType]
    <3>1. v3' = [t \in Callers |-> v3'[t]]
      BY <2>1
    <3> QED
      BY <2>3, <3>1
  <2>5. Timer!SilentWhenIdle'
    BY <2>1, <2>3 DEF TimerProof, Timer!SilentWhenIdle
  <2> QED
    BY <1>2, <2>1, <2>2, <2>3, <2>4, <2>5 DEF TimerProof
<1>4. ASSUME NEW t \in Callers, NEW d \in Durations, Timer!Beep(t, d)
      PROVE  TimerProof'
  <2> DEFINE b == [Timer!Idle EXCEPT !.at = "on", !.tmp = v2, !.ms = d]
  <2>1. d # 0 /\ Timer!Go(t, b) /\ v1' = v1 /\ v2' = v2
    BY <1>4 DEF Timer!Beep
  <2>2. d \in 0 .. TickWidth - 1 /\ 0 \in 0 .. TickWidth - 1
    BY <1>1
  <2>3. b \in BeepType
    BY <1>2, <2>2 DEF BeepType, Timer!Idle
  <2>4. b.at = "on" /\ b.elapsed = 0 /\ b.ms = d /\ b.wrapped = FALSE
    BY DEF Timer!Idle
  <2> HIDE DEF b
  <2>5. BeepRight(b, v1)
    BY <2>1, <2>2, <2>4 DEF BeepRight
  <2> QED
    BY <1>2, <2>1, <2>3, <2>4, <2>5, OneBeeps
<1>5. ASSUME NEW t \in Callers, Timer!PlaySound(t)
      PROVE  TimerProof'
  <2>1. PICK b \in BeepType : b = v3[t] /\ BeepRight(b, v1)
    BY <1>2
  <2> DEFINE c == [b EXCEPT !.at = "sleep"]
  <2>2. b.at = "on" /\ Timer!Go(t, c) /\ v1' = v1 /\ v2' \in BOOLEAN
    BY <1>2, <1>5, <2>1 DEF Timer!PlaySound
  <2>3. /\ c \in BeepType /\ c.at = "sleep" /\ c.elapsed = b.elapsed /\ c.ms = b.ms
        /\ c.wrapped = b.wrapped
    BY DEF BeepType
  <2> HIDE DEF c
  <2>4. BeepRight(c, v1)
    BY <2>1, <2>2, <2>3 DEF BeepRight
  <2> QED
    BY <2>2, <2>3, <2>4, OneBeeps
<1>6. ASSUME NEW t \in Callers, Timer!Sleep(t)
      PROVE  TimerProof'
  <2>1. PICK b \in BeepType : b = v3[t] /\ BeepRight(b, v1)
    BY <1>2
  <2> DEFINE sum == v1 + b.ms
             c == [b EXCEPT !.at = "spin", !.eticks = sum % TickWidth, !.wrapped = sum >= TickWidth]
  <2>2. b.at = "sleep" /\ Timer!Go(t, c) /\ v1' = v1 /\ v2' = v2
    BY <1>6, <2>1 DEF Timer!Sleep
  <2>3. b.ms \in 0 .. TickWidth - 1 /\ b.elapsed = 0
    BY <1>1, <2>1, <2>2 DEF BeepType, BeepRight
  <2>4. /\ sum % TickWidth \in 0 .. TickWidth - 1
        /\ sum < TickWidth => sum % TickWidth = sum
    <3>1. b.ms \in 0 .. TickWidth
      BY <1>1, <2>3
    <3> QED
      BY <1>1, <1>2, <3>1, Turn
  <2>5. (sum >= TickWidth) \in BOOLEAN /\ (~(sum < TickWidth) => (sum >= TickWidth) = TRUE)
    BY <1>1, <1>2, <2>3
  <2>6. /\ c \in BeepType /\ c.at = "spin" /\ c.elapsed = b.elapsed /\ c.ms = b.ms
        /\ c.wrapped = (sum >= TickWidth) /\ c.eticks = sum % TickWidth
    BY <2>4, <2>5 DEF BeepType
  <2> HIDE DEF c
  <2>7. c.wrapped = FALSE => c.eticks = v1 + c.ms
    BY <2>4, <2>5, <2>6
  <2>8. BeepRight(c, v1)
    BY <1>2, <2>3, <2>6, <2>7 DEF BeepRight
  <2> QED
    BY <1>2, <2>2, <2>6, <2>8, OneBeeps
<1>7. ASSUME NEW t \in Callers, Timer!SleepReturns(t)
      PROVE  TimerProof'
  <2>1. PICK b \in BeepType : b = v3[t] /\ BeepRight(b, v1)
    BY <1>2
  <2> DEFINE c == [b EXCEPT !.at = "off"]
  <2>2. b.at = "spin" /\ v1 >= b.eticks /\ Timer!Go(t, c) /\ v1' = v1 /\ v2' = v2
    BY <1>7, <2>1 DEF Timer!SleepReturns, Timer!Passed
  <2>3. /\ c \in BeepType /\ c.at = "off" /\ c.elapsed = b.elapsed /\ c.ms = b.ms
        /\ c.wrapped = b.wrapped
    BY DEF BeepType
  <2> HIDE DEF c
  <2>4. b.elapsed = b.ms \/ b.wrapped = TRUE
    <3>1. /\ b.ms \in 0 .. TickWidth - 1 /\ b.elapsed \in 0 .. TickWidth - 1
          /\ b.eticks \in 0 .. TickWidth - 1 /\ b.wrapped \in BOOLEAN
      BY BeepFields
    <3> QED
      BY <1>1, <1>2, <2>1, <2>2, <3>1 DEF BeepRight
  <2>5. BeepRight(c, v1)
    BY <2>1, <2>3, <2>4 DEF BeepRight
  <2> QED
    BY <1>2, <2>2, <2>3, <2>5, OneBeeps
<1>8. ASSUME NEW t \in Callers, Timer!NoSoundRead(t)
      PROVE  TimerProof'
  <2>1. PICK b \in BeepType : b = v3[t] /\ BeepRight(b, v1)
    BY <1>2
  <2> DEFINE c == [b EXCEPT !.at = "silence"]
  <2>2. b.at = "off" /\ Timer!Go(t, c) /\ v1' = v1 /\ v2' = v2
    BY <1>8, <2>1 DEF Timer!NoSoundRead
  <2>3. /\ c \in BeepType /\ c.at = "silence" /\ c.elapsed = b.elapsed /\ c.ms = b.ms
        /\ c.wrapped = b.wrapped
    BY DEF BeepType
  <2> HIDE DEF c
  <2>4. BeepRight(c, v1)
    BY <2>1, <2>2, <2>3 DEF BeepRight
  <2> QED
    BY <1>2, <2>2, <2>3, <2>4, OneBeeps
<1>9. ASSUME NEW t \in Callers, Timer!NoSoundWrite(t)
      PROVE  TimerProof'
  <2>1. Timer!Go(t, Timer!Idle) /\ v1' = v1 /\ v2' = FALSE
    BY <1>9 DEF Timer!NoSoundWrite, Timer!Silenced
  <2>2. Timer!Idle \in BeepType
    <3>1. 0 \in 0 .. TickWidth - 1
      BY <1>1
    <3> QED
      BY <3>1 DEF BeepType, Timer!Idle
  <2>3. BeepRight(Timer!Idle, v1)
    BY DEF BeepRight, Timer!Idle
  <2> QED
    BY <2>1, <2>2, <2>3, OneBeeps
<1>10. CASE UNCHANGED Timer!vars
  BY <1>10 DEF Timer!vars, TimerProof, Timer!SilentWhenIdle
<1> QED
  BY <1>3, <1>4, <1>5, <1>6, <1>7, <1>8, <1>9, <1>10 DEF Timer!Next

(* What the proof carries is what was to be shown.                         *)
LEMMA TimerSuffices ==
    ASSUME TimerProof
    PROVE  Timer!TimerInv
<1>1. Timer!TypeOK
  BY DEF TimerProof, BeepType, Timer!TypeOK
<1>2. Timer!SleptEnough
  BY DEF TimerProof, BeepRight, Timer!SleptEnough
<1> QED
  BY <1>1, <1>2 DEF TimerProof, Timer!TimerInv

----------------------------------------------------------------------------
(* The clock: clock v1, rtcPhase v2, reading v3, turned v4.                *)

(* Of the n registers that are read, the first that differs from the       *)
(* clock's is behind it.                                                   *)
NotAhead(n, t, u) ==
    /\ n >= 1 => t[1] <= u[1]
    /\ n >= 2 /\ t[1] = u[1] => t[2] <= u[2]
    /\ n >= 3 /\ t[1] = u[1] /\ t[2] = u[2] => t[3] <= u[3]

InRange(t) == \A r \in 1 .. 3 : t[r] \in 0 .. Modulus[r] - 1
Readable(t) == \A r \in 1 .. 3 : t[r] \in 0 .. Modulus[r]

ReadingType == [done : 0 .. 3, clear : BOOLEAN, values : [1 .. 3 -> Nat], garbled : BOOLEAN]

RtcProof ==
    /\ InRange(v1) /\ v2 \in {"steady", "flagged", "updating"} /\ v4 \in BOOLEAN
    /\ v3 \in ReadingType /\ Readable(v3.values)
    /\ v3.clear = TRUE => v3.done < 3
    /\ v3.garbled = FALSE => InRange(v3.values)
    /\ v3.garbled = FALSE /\ v4 = FALSE => NotAhead(v3.done, v3.values, v1)

(* A number of two places is less when its higher place is.                *)
LEMMA HigherPlace ==
    ASSUME NEW m \in Nat, NEW a \in Nat, NEW b \in Nat, NEW x \in 0 .. m - 1, NEW y \in Nat, a < b
    PROVE  a * m + x <= b * m + y
<1> DEFINE d == b - a
<1>1. d \in Nat /\ d >= 1 /\ b = a + d
  OBVIOUS
<1> HIDE DEF d
<1>2. b * m = a * m + d * m
  BY <1>1, SMTT(30)
<1>3. d * m >= m
  BY <1>1, SMTT(30)
<1>4. a * m \in Nat /\ d * m \in Nat
  BY <1>1, SMTT(30)
<1> QED
  BY <1>2, <1>3, <1>4

(* What is not ahead register by register is not ahead as a number.        *)
LEMMA ValueNotAhead ==
    ASSUME Rtc!ConstantsOK, NEW t, NEW u, InRange(t), InRange(u), NotAhead(3, t, u)
    PROVE  Rtc!Value(t) <= Rtc!Value(u)
<1>1. PICK m2 \in Nat \ {0}, m3 \in Nat \ {0} : m2 = Modulus[2] /\ m3 = Modulus[3]
  BY DEF Rtc!ConstantsOK
<1>2. PICK t1 \in Nat, t2 \in 0 .. m2 - 1, t3 \in 0 .. m3 - 1 : t1 = t[1] /\ t2 = t[2] /\ t3 = t[3]
  BY <1>1 DEF InRange, Rtc!ConstantsOK
<1>3. PICK u1 \in Nat, u2 \in 0 .. m2 - 1, u3 \in 0 .. m3 - 1 : u1 = u[1] /\ u2 = u[2] /\ u3 = u[3]
  BY <1>1 DEF InRange, Rtc!ConstantsOK
<1>4. /\ t1 <= u1 /\ (t1 = u1 => t2 <= u2)
      /\ t1 = u1 /\ t2 = u2 => t3 <= u3
  BY <1>2, <1>3 DEF NotAhead
<1> DEFINE x == t1 * m2 + t2
           y == u1 * m2 + u2
<1>5. x \in Nat /\ y \in Nat
  BY SMTT(30)
<1>6. x < y \/ (x = y /\ t3 <= u3)
  <2>1. CASE t1 < u1
    <3>1. CASE t2 + 1 = m2
      <4>1. x <= u1 * m2 + u2
        BY <2>1, HigherPlace
      <4>2. x # y
        <5>1. (t1 + 1) * m2 <= u1 * m2
          <6>1. CASE t1 + 1 = u1
            BY <6>1
          <6>2. CASE t1 + 1 < u1
            <7>1. 0 \in 0 .. m2 - 1
              OBVIOUS
            <7>2. (t1 + 1) * m2 + 0 <= u1 * m2 + 0
              BY <6>2, <7>1, HigherPlace
            <7> QED
              BY <7>2, SMTT(30)
          <6> QED
            BY <2>1, <6>1, <6>2
        <5>2. (t1 + 1) * m2 = t1 * m2 + m2
          BY SMTT(30)
        <5> QED
          BY <5>1, <5>2, SMTT(30)
      <4> QED
        BY <1>5, <4>1, <4>2
    <3>2. CASE t2 + 1 < m2
      <4>1. t2 + 1 \in 0 .. m2 - 1
        BY <3>2
      <4>2. t1 * m2 + (t2 + 1) <= y
        BY <2>1, <4>1, HigherPlace
      <4> QED
        BY <1>5, <4>2, SMTT(30)
    <3> QED
      BY <3>1, <3>2
  <2>2. CASE t1 = u1
    <3>1. CASE t2 < u2
      BY <2>2, <3>1, SMTT(30)
    <3>2. CASE t2 = u2
      BY <1>4, <2>2, <3>2
    <3> QED
      BY <1>4, <2>2, <3>1, <3>2
  <2> QED
    BY <1>4, <2>1, <2>2
<1>7. Rtc!Value(t) = x * m3 + t3 /\ Rtc!Value(u) = y * m3 + u3
  BY <1>1, <1>2, <1>3 DEF Rtc!Value
<1> HIDE DEF x, y
<1>8. CASE x < y
  BY <1>5, <1>7, <1>8, HigherPlace
<1>9. CASE x = y /\ t3 <= u3
  BY <1>5, <1>7, <1>9, SMTT(30)
<1> QED
  BY <1>6, <1>8, <1>9

(* The clock's step leaves nothing ahead of it, unless it turns.           *)
LEMMA CarryIsRight ==
    ASSUME Rtc!ConstantsOK, NEW u, InRange(u)
    PROVE  /\ InRange(Rtc!Carry(u))
           /\ \A t : \A n \in 0 .. 3 :
                 NotAhead(n, t, u) /\ InRange(t) /\ Rtc!Carry(u) # <<0, 0, 0>> =>
                    NotAhead(n, t, Rtc!Carry(u))
<1>1. PICK m1 \in Nat \ {0}, m2 \in Nat \ {0}, m3 \in Nat \ {0} :
         m1 = Modulus[1] /\ m2 = Modulus[2] /\ m3 = Modulus[3]
  BY DEF Rtc!ConstantsOK
<1>2. PICK u1 \in 0 .. m1 - 1, u2 \in 0 .. m2 - 1, u3 \in 0 .. m3 - 1 :
         u1 = u[1] /\ u2 = u[2] /\ u3 = u[3]
  BY <1>1 DEF InRange
<1>3. /\ (u1 + 1) % m1 = IF u1 + 1 < m1 THEN u1 + 1 ELSE 0
      /\ (u2 + 1) % m2 = IF u2 + 1 < m2 THEN u2 + 1 ELSE 0
      /\ (u3 + 1) % m3 = IF u3 + 1 < m3 THEN u3 + 1 ELSE 0
  <2>1. ASSUME NEW m \in Nat \ {0}, NEW a \in 0 .. m - 1
        PROVE  (a + 1) % m = IF a + 1 < m THEN a + 1 ELSE 0
    <3>1. 1 \in 0 .. m
      OBVIOUS
    <3>2. (a + 1) % m = IF a + 1 < m THEN a + 1 ELSE a + 1 - m
      BY <3>1, Turn
    <3> QED
      BY <3>2
  <2> QED
    BY <2>1
<1> DEFINE s == (u3 + 1) % m3
           k == IF s = 0 THEN (u2 + 1) % m2 ELSE u2
           h == IF s = 0 /\ k = 0 THEN (u1 + 1) % m1 ELSE u1
<1>4. Rtc!Carry(u) = <<h, k, s>>
  BY <1>1, <1>2 DEF Rtc!Carry
<1>5. h \in 0 .. m1 - 1 /\ k \in 0 .. m2 - 1 /\ s \in 0 .. m3 - 1
  BY <1>3
<1>6. /\ h = u1 \/ (h = u1 + 1 /\ k = 0 /\ s = 0) \/ (h = 0 /\ k = 0 /\ s = 0)
      /\ h = u1 => \/ k = u2 /\ s = u3 + 1
                   \/ k = u2 + 1 /\ s = 0
                   \/ h = 0 /\ k = 0 /\ s = 0
  BY <1>3
<1> HIDE DEF s, k, h
<1> DEFINE w == <<h, k, s>>
<1>7. w[1] = h /\ w[2] = k /\ w[3] = s /\ (w # <<0, 0, 0>> => ~(h = 0 /\ k = 0 /\ s = 0))
  OBVIOUS
<1> HIDE DEF w
<1>8. InRange(w)
  BY <1>1, <1>5, <1>7 DEF InRange
<1>9. ASSUME NEW n \in 0 .. 3, NEW t, NotAhead(n, t, u), InRange(t), w # <<0, 0, 0>>
      PROVE  NotAhead(n, t, w)
  <2>1. PICK t1 \in Nat, t2 \in Nat, t3 \in Nat : t1 = t[1] /\ t2 = t[2] /\ t3 = t[3]
    BY <1>1, <1>9 DEF InRange
  <2>2. /\ n >= 1 => t1 <= u1
        /\ n >= 2 /\ t1 = u1 => t2 <= u2
        /\ n >= 3 /\ t1 = u1 /\ t2 = u2 => t3 <= u3
    BY <1>2, <1>9, <2>1 DEF NotAhead
  <2>3. ~(h = 0 /\ k = 0 /\ s = 0)
    BY <1>7, <1>9
  <2>4. /\ n >= 1 => t1 <= h
        /\ n >= 2 /\ t1 = h => t2 <= k
        /\ n >= 3 /\ t1 = h /\ t2 = k => t3 <= s
    BY <1>5, <1>6, <2>2, <2>3
  <2> QED
    BY <1>7, <2>1, <2>4 DEF NotAhead
<1> QED
  BY <1>4, <1>8, <1>9 DEF w

(* Nothing has been read at first.                                         *)
LEMMA RtcInit ==
    ASSUME Rtc!ConstantsOK, Rtc!Init
    PROVE  RtcProof
<1>1. \A r \in 1 .. 3 : Modulus[r] \in Nat \ {0}
  BY DEF Rtc!ConstantsOK
<1>2. /\ v1 = Rtc!Zero /\ v2 = "steady" /\ v4 = FALSE
      /\ v3 = [done |-> 0, clear |-> FALSE, values |-> Rtc!Zero, garbled |-> FALSE]
  BY DEF Rtc!Init, Rtc!NotBegun
<1>3. Rtc!Zero \in [1 .. 3 -> Nat] /\ InRange(Rtc!Zero) /\ Readable(Rtc!Zero)
  BY <1>1 DEF Rtc!Zero, InRange, Readable
<1>4. v3 \in ReadingType /\ v3.done = 0 /\ v3.clear = FALSE /\ v3.values = Rtc!Zero
  BY <1>2, <1>3 DEF ReadingType
<1>5. NotAhead(v3.done, v3.values, v1)
  BY <1>4 DEF NotAhead
<1> QED
  BY <1>2, <1>3, <1>4, <1>5 DEF RtcProof

(* Each register is read after those that are slower; unless it is read in *)
(* an update it is the clock's.                                            *)
LEMMA ReadIsRight ==
    ASSUME Rtc!ConstantsOK, RtcProof, Rtc!Read
    PROVE  RtcProof'
<1>1. PICK n \in 0 .. 2 : n = v3.done
  BY DEF RtcProof, Rtc!Read, ReadingType
<1>2. /\ v3.values \in [1 .. 3 -> Nat] /\ v3.garbled \in BOOLEAN
      /\ Modulus \in [1 .. 3 -> Nat \ {0}]
  BY DEF RtcProof, ReadingType, Rtc!ConstantsOK
<1>3. Rtc!Order[n + 1] = n + 1 /\ n + 1 \in 1 .. 3
  BY DEF Rtc!Order
<1>4. PICK v \in Rtc!Registers(n + 1) :
         v3' = [done |-> n + 1, clear |-> FALSE, values |-> [v3.values EXCEPT ![n + 1] = v],
                garbled |-> (v3.garbled \/ v2 = "updating")]
  BY <1>1, <1>3 DEF Rtc!Read
<1> DEFINE t == [v3.values EXCEPT ![n + 1] = v]
           g == v3.garbled \/ v2 = "updating"
<1>5. /\ v3' = [done |-> n + 1, clear |-> FALSE, values |-> t, garbled |-> g]
      /\ v1' = v1 /\ v2' = v2 /\ v4' = v4
  BY <1>4 DEF Rtc!Read
<1>6. v1[n + 1] \in 0 .. Modulus[n + 1] - 1
  BY <1>3 DEF RtcProof, InRange
<1>7. v \in 0 .. Modulus[n + 1] /\ (v2 # "updating" => v = v1[n + 1])
  BY <1>2, <1>3, <1>4, <1>6 DEF Rtc!Registers
<1>8. /\ t \in [1 .. 3 -> Nat] /\ t[n + 1] = v
      /\ \A r \in 1 .. 3 : r # n + 1 => t[r] = v3.values[r]
  BY <1>2, <1>3, <1>7
<1>9. g \in BOOLEAN /\ (g = FALSE => v3.garbled = FALSE /\ v2 # "updating")
  BY <1>2, Zenon
<1> HIDE DEF t, g
<1>10. Readable(t)
  BY <1>3, <1>7, <1>8 DEF Readable, RtcProof
<1>11. /\ v3' \in ReadingType /\ v3'.done = n + 1 /\ v3'.clear = FALSE /\ v3'.values = t
       /\ v3'.garbled = g
  BY <1>3, <1>5, <1>8, <1>9 DEF ReadingType
<1>12. ASSUME g = FALSE PROVE InRange(t)
  BY <1>3, <1>6, <1>7, <1>8, <1>9, <1>12 DEF InRange, RtcProof
<1>13. ASSUME g = FALSE, v4 = FALSE PROVE NotAhead(n + 1, t, v1)
  <2>1. NotAhead(n, v3.values, v1)
    BY <1>1, <1>9, <1>13 DEF RtcProof
  <2>2. v1[1] \in Nat /\ v1[2] \in Nat /\ v1[3] \in Nat
    BY DEF RtcProof, InRange, Rtc!ConstantsOK
  <2>3. t[n + 1] = v1[n + 1]
    BY <1>7, <1>8, <1>9, <1>13
  <2>4. CASE n = 0
    BY <1>8, <2>2, <2>3, <2>4 DEF NotAhead
  <2>5. CASE n = 1
    BY <1>8, <2>1, <2>2, <2>3, <2>5 DEF NotAhead
  <2>6. CASE n = 2
    BY <1>8, <2>1, <2>2, <2>3, <2>6 DEF NotAhead
  <2> QED
    BY <2>4, <2>5, <2>6
<1> QED
  BY <1>5, <1>10, <1>11, <1>12, <1>13 DEF RtcProof

(* What has been read is not ahead, whatever the clock does next.          *)
LEMMA RtcStep ==
    ASSUME Rtc!ConstantsOK, RtcProof, [Rtc!Next]_(Rtc!vars)
    PROVE  RtcProof'
<1>1. CASE Rtc!Flag
  BY <1>1 DEF Rtc!Flag, RtcProof
<1>2. CASE Rtc!Update
  BY <1>2 DEF Rtc!Update, RtcProof
<1>3. CASE Rtc!Advance
  <2>1. /\ v2 = "updating" /\ v2' = "steady" /\ v1' = Rtc!Carry(v1) /\ v3' = v3
        /\ v4' = (v4 \/ v1' = <<0, 0, 0>>)
    BY <1>3 DEF Rtc!Advance
  <2>2. InRange(v1) /\ v3.done \in 0 .. 3
    BY DEF RtcProof, ReadingType
  <2>3. InRange(v1')
    BY <2>1, <2>2, CarryIsRight
  <2>4. v4' \in BOOLEAN /\ (v4' = FALSE => v4 = FALSE /\ v1' # <<0, 0, 0>>)
    BY <2>1, Zenon DEF RtcProof
  <2>5. ASSUME v3.garbled = FALSE, v4' = FALSE PROVE NotAhead(v3.done, v3.values, v1')
    <3>1. NotAhead(v3.done, v3.values, v1) /\ InRange(v3.values)
      BY <2>4, <2>5 DEF RtcProof
    <3> QED
      BY <2>1, <2>2, <2>4, <2>5, <3>1, CarryIsRight
  <2> QED
    BY <2>1, <2>3, <2>4, <2>5 DEF RtcProof
<1>4. CASE Rtc!Poll
  <2>1. /\ v3.done < 3 /\ v2 = "steady" /\ v1' = v1 /\ v2' = v2
        /\ v3' = [v3 EXCEPT !.clear = TRUE] /\ v4' = (v3.done # 0 /\ v4)
    BY <1>4 DEF Rtc!Poll
  <2>2. /\ v3' \in ReadingType /\ v3'.clear = TRUE /\ v3'.done = v3.done
        /\ v3'.values = v3.values /\ v3'.garbled = v3.garbled
    BY <2>1 DEF RtcProof, ReadingType
  <2>3. v4' \in BOOLEAN /\ (v4' = FALSE => v4 = FALSE \/ v3.done = 0)
    BY <2>1, Zenon DEF RtcProof
  <2>4. ASSUME v3.garbled = FALSE, v4' = FALSE PROVE NotAhead(v3.done, v3.values, v1)
    <3>1. CASE v4 = FALSE
      BY <2>4, <3>1 DEF RtcProof
    <3>2. CASE v3.done = 0
      BY <3>2 DEF NotAhead
    <3> QED
      BY <2>3, <2>4, <3>1, <3>2
  <2> QED
    BY <2>1, <2>2, <2>3, <2>4 DEF RtcProof
<1>5. CASE Rtc!Read
  BY <1>5, ReadIsRight
<1>6. CASE Rtc!Show
  <2>1. /\ v1' = v1 /\ v2' = v2 /\ v4' = v4
        /\ v3' = [done |-> 0, clear |-> FALSE, values |-> Rtc!Zero, garbled |-> FALSE]
    BY <1>6 DEF Rtc!Show, Rtc!NotBegun
  <2>2. Rtc!Zero \in [1 .. 3 -> Nat] /\ InRange(Rtc!Zero) /\ Readable(Rtc!Zero)
    BY DEF Rtc!Zero, InRange, Readable, Rtc!ConstantsOK
  <2>3. v3' \in ReadingType /\ v3'.done = 0 /\ v3'.clear = FALSE /\ v3'.values = Rtc!Zero
    BY <2>1, <2>2 DEF ReadingType
  <2>4. NotAhead(v3'.done, v3'.values, v1')
    BY <2>3 DEF NotAhead
  <2> QED
    BY <2>1, <2>2, <2>3, <2>4 DEF RtcProof
<1>7. CASE UNCHANGED Rtc!vars
  BY SMTT(30), <1>7 DEF Rtc!vars, RtcProof
<1> QED
  BY <1>1, <1>2, <1>3, <1>4, <1>5, <1>6, <1>7 DEF Rtc!Next

(* The number that was meant is found, in each mode of the clock.          *)
LEMMA Conversions == Rtc!ConversionsRight
<1>1. ASSUME NEW v \in 0 .. 99
      PROVE  /\ Rtc!Decode(Rtc!Encoded(v, TRUE), TRUE) = v
             /\ Rtc!Decode(Rtc!Encoded(v, FALSE), FALSE) = v
  BY SMTT(30) DEF Rtc!Decode, Rtc!Encoded, Rtc!FromBcd
<1>2. ASSUME NEW h \in 0 .. 23
      PROVE  /\ Rtc!DecodeHour(Rtc!Encoded(h, TRUE), TRUE, TRUE) = h
             /\ Rtc!DecodeHour(Rtc!Encoded(h, FALSE), FALSE, TRUE) = h
  BY SMTT(30) DEF Rtc!DecodeHour, Rtc!Decode, Rtc!Encoded, Rtc!FromBcd
<1>3. ASSUME NEW h \in 0 .. 23
      PROVE  Rtc!DecodeHour(Rtc!Encoded12(h, TRUE), TRUE, FALSE) =
                IF h % 12 = 0 THEN 12 - h ELSE h
  BY SMTT(30) DEF Rtc!DecodeHour, Rtc!Decode, Rtc!Encoded, Rtc!Encoded12
<1>4. ASSUME NEW h \in 0 .. 23
      PROVE  Rtc!DecodeHour(Rtc!Encoded12(h, FALSE), FALSE, FALSE) =
                IF h % 12 = 0 THEN 12 - h ELSE h
  BY SMTT(30) DEF Rtc!DecodeHour, Rtc!Decode, Rtc!Encoded, Rtc!Encoded12, Rtc!FromBcd
<1>5. ASSUME NEW v \in 0 .. 99
      PROVE  Rtc!FullYear(v, 2018) \in 2018 .. 2117 /\ Rtc!FullYear(v, 2018) % 100 = v
  BY SMTT(30) DEF Rtc!FullYear
<1>6. SUFFICES ASSUME NEW binary \in BOOLEAN
               PROVE  /\ \A v \in 0 .. 99 : Rtc!Decode(Rtc!Encoded(v, binary), binary) = v
                      /\ \A h \in 0 .. 23 :
                            /\ Rtc!DecodeHour(Rtc!Encoded(h, binary), binary, TRUE) = h
                            /\ Rtc!DecodeHour(Rtc!Encoded12(h, binary), binary, FALSE) =
                                  IF h % 12 = 0 THEN 12 - h ELSE h
                      /\ \A v \in 0 .. 99 : /\ Rtc!FullYear(v, 2018) \in 2018 .. 2117
                                            /\ Rtc!FullYear(v, 2018) % 100 = v
  BY Zenon DEF Rtc!ConversionsRight
<1>7. \A v \in 0 .. 99 : Rtc!Decode(Rtc!Encoded(v, binary), binary) = v
  <2>1. CASE binary = TRUE
    BY <1>1, <2>1
  <2>2. CASE binary = FALSE
    BY <1>1, <2>2
  <2> QED
    BY <2>1, <2>2
<1>8. ASSUME NEW h \in 0 .. 23
      PROVE  /\ Rtc!DecodeHour(Rtc!Encoded(h, binary), binary, TRUE) = h
             /\ Rtc!DecodeHour(Rtc!Encoded12(h, binary), binary, FALSE) =
                   IF h % 12 = 0 THEN 12 - h ELSE h
  <2>1. CASE binary = TRUE
    BY <1>2, <1>3, <2>1
  <2>2. CASE binary = FALSE
    BY <1>2, <1>4, <2>2
  <2> QED
    BY <2>1, <2>2
<1>9. \A v \in 0 .. 99 : Rtc!FullYear(v, 2018) \in 2018 .. 2117 /\ Rtc!FullYear(v, 2018) % 100 = v
  BY Zenon, <1>5
<1> QED
  BY Zenon, <1>7, <1>8, <1>9

(* What the proof carries is what was to be shown.                         *)
LEMMA RtcSuffices ==
    ASSUME Rtc!ConstantsOK, RtcProof
    PROVE  Rtc!RtcInv
<1>1. Rtc!TypeOK
  BY DEF RtcProof, InRange, Readable, ReadingType, Rtc!TypeOK
<1>2. Rtc!NeverAhead
  <2> SUFFICES ASSUME v3.done = 3, v4 = FALSE, v3.garbled = FALSE
               PROVE  Rtc!Value(v3.values) <= Rtc!Value(v1)
    BY DEF Rtc!NeverAhead, RtcProof, ReadingType
  <2>1. InRange(v1) /\ InRange(v3.values) /\ NotAhead(3, v3.values, v1)
    BY DEF RtcProof
  <2> QED
    BY <2>1, ValueNotAhead
<1> QED
  BY <1>1, <1>2, Conversions DEF Rtc!RtcInv

(* Sleep is as long as it was asked for, however long the tasks that beep  *)
(* are kept from running, and the speaker ends up silent (pit.cpp); the    *)
(* time that is shown is not ahead of the clock, unless one of its         *)
(* registers was read in the middle of an update (rtc.cpp).                *)
THEOREM TimeStaysRight == Spec => []TimeRight
<1> DEFINE Inv == /\ part = "Timer" => TimerProof
                  /\ part = "Rtc" => RtcProof
<1>1. Init => Inv
  <2> SUFFICES ASSUME Init PROVE Inv
    OBVIOUS
  <2>1. ASSUME part = "Timer" PROVE TimerProof
    <3>1. Timer!Init
      BY <2>1 DEF Init
    <3> QED
      BY <3>1, ConstantsAssumption, TimerInit
  <2>2. ASSUME part = "Rtc" PROVE RtcProof
    <3>1. Rtc!Init
      BY <2>2 DEF Init
    <3> QED
      BY <3>1, ConstantsAssumption, RtcInit
  <2> QED
    BY <2>1, <2>2
<1>2. Inv /\ [Next]_all => Inv'
  <2> SUFFICES ASSUME Inv, [Next]_all PROVE Inv'
    OBVIOUS
  <2>1. part' = part
    BY DEF Next, all
  <2>2. ASSUME part = "Timer" PROVE TimerProof'
    <3>1. [Timer!Next]_(Timer!vars)
      BY <2>2 DEF Next, all, rest2, rest3, Timer!vars
    <3> QED
      BY <2>2, <3>1, ConstantsAssumption, TimerStep
  <2>3. ASSUME part = "Rtc" PROVE RtcProof'
    <3>1. [Rtc!Next]_(Rtc!vars)
      BY <2>3 DEF Next, all, rest2, rest3, rest4, Rtc!vars
    <3> QED
      BY <2>3, <3>1, ConstantsAssumption, RtcStep
  <2> QED
    BY <2>1, <2>2, <2>3
<1>3. Inv => TimeRight
  BY ConstantsAssumption, TimerSuffices, RtcSuffices DEF TimeRight
<1> QED
  BY <1>1, <1>2, <1>3, PTL DEF Spec, all

----------------------------------------------------------------------------
(* The am79c973's buffers: array v1, next v2, waiting v3, memory v4.       *)

(* What is as long as all buffers together.                                *)
ArrayBytes == Descriptors * Step

(* The number of the frame that was put d frames ago.                      *)
Ago(d, next) == IF next >= d THEN next - d ELSE next - d + 2 * Descriptors

FrameType == [no : 0 .. 2 * Descriptors - 1, length : FrameLengths]

(* Among the frames that wait, the last to be put over a byte has it.      *)
LastHas(k, a, frames, mem) ==
    \E m \in k .. Len(frames) :
        /\ a \in AmdBuffers!Bytes(frames[m]) /\ mem[a] = frames[m].no
        /\ \A j \in m + 1 .. Len(frames) : a \notin AmdBuffers!Bytes(frames[j])

BuffersProof ==
    /\ v1 \in 0 .. Alignment - 1 /\ v2 \in 0 .. 2 * Descriptors - 1
    /\ v3 \in Seq(FrameType) /\ Len(v3) \in 0 .. Descriptors
    /\ v4 \in [0 .. AmdBuffers!Top -> {AmdBuffers!None} \cup 0 .. 2 * Descriptors - 1]
    /\ \A k \in 1 .. Len(v3) : v3[k].no = Ago(Len(v3) - k + 1, v2)
    /\ \A k \in 1 .. Len(v3) : \A a \in AmdBuffers!Bytes(v3[k]) : LastHas(k, a, v3, v4)

(* What the constants' assumption says of the numbers that are needed.     *)
LEMMA BufferNumbers ==
    ASSUME AmdBuffers!ConstantsOK
    PROVE  /\ Descriptors \in Nat \ {0, 1} /\ Step \in Nat \ {0} /\ Alignment \in Nat \ {0}
           /\ ArrayBytes \in Nat /\ ArrayBytes % Alignment = 0
           /\ AmdBuffers!Longest \in Nat
           /\ \A l \in FrameLengths : l \in ArrayBytes + 1 .. AmdBuffers!Longest
           /\ AmdBuffers!Top = 2 * Alignment + ArrayBytes + AmdBuffers!Longest
<1>1. Descriptors \in Nat \ {0, 1} /\ Step \in Nat \ {0} /\ Alignment \in Nat \ {0}
  BY DEF AmdBuffers!ConstantsOK
<1>2. ArrayBytes \in Nat
  BY <1>1, SMTT(30) DEF ArrayBytes
<1>3. PICK longest \in FrameLengths : \A l \in FrameLengths : l \in ArrayBytes + 1 .. longest
  BY DEF AmdBuffers!ConstantsOK, ArrayBytes
<1>4. \A l \in FrameLengths : l \in Nat /\ l > ArrayBytes /\ l <= longest
  BY <1>2, <1>3
<1>5. /\ AmdBuffers!Longest \in FrameLengths
      /\ \A l \in FrameLengths : l <= AmdBuffers!Longest
  BY <1>4 DEF AmdBuffers!Longest
<1>6. \A l \in FrameLengths : l \in ArrayBytes + 1 .. AmdBuffers!Longest
  BY <1>2, <1>4, <1>5
<1>7. ArrayBytes % Alignment = 0
  BY DEF AmdBuffers!ConstantsOK, ArrayBytes
<1> QED
  BY <1>1, <1>2, <1>4, <1>5, <1>6, <1>7 DEF AmdBuffers!Top, ArrayBytes

(* Multiplication keeps the order.                                         *)
LEMMA Times ==
    ASSUME NEW a \in Nat, NEW x \in Nat, NEW y \in Nat, x <= y
    PROVE  a * x <= a * y /\ a * x \in Nat /\ a * y \in Nat
<1>1. a * x \in Nat /\ a * y \in Nat /\ a * (y - x) \in Nat
  BY SMTT(30)
<1>2. a * y = a * x + a * (y - x)
  BY SMTT(30)
<1> QED
  BY <1>1, <1>2

(* What \div and % are.                                                    *)
LEMMA Division ==
    ASSUME NEW a \in Nat \ {0}, NEW y \in Nat
    PROVE  y \div a \in Nat /\ a * (y \div a) <= y /\ y < a * (y \div a) + a
           /\ (y % a = 0 => a * (y \div a) = y)
BY SMTT(30)

(* Rounded up, addresses stay as near together as the array is long.       *)
LEMMA RoundedUp ==
    ASSUME NEW a \in Nat \ {0}, NEW y \in Nat, NEW z \in Nat, NEW m \in Nat, m % a = 0, z <= y + m
    PROVE  a * (z \div a) <= a * (y \div a) + m
<1>1. PICK u \in Nat, w \in Nat, q \in Nat :
         /\ u = y \div a /\ a * u <= y /\ y < a * u + a
         /\ w = z \div a /\ a * w <= z /\ z < a * w + a
         /\ q = m \div a /\ a * q = m
  BY Division
<1>2. a * u + a * q + a = a * (u + q + 1)
  BY SMTT(30)
<1>3. a * w < a * (u + q + 1)
  <2>1. a * w \in Nat /\ a * u \in Nat /\ a * q \in Nat
    BY SMTT(30)
  <2> QED
    BY <1>1, <1>2, <2>1
<1>4. w <= u + q
  <2>1. ASSUME w > u + q PROVE FALSE
    <3>1. a * (u + q + 1) <= a * w
      BY <2>1, Times
    <3>2. a * w \in Nat /\ a * (u + q + 1) \in Nat
      BY SMTT(30)
    <3> QED
      BY <1>3, <3>1, <3>2
  <2> QED
    BY <2>1
<1>5. a * w <= a * (u + q)
  BY <1>4, Times
<1>6. a * (u + q) = a * u + a * q
  BY SMTT(30)
<1> QED
  BY <1>1, <1>5, <1>6

(* Where the buffers are.                                                  *)
LEMMA Addresses ==
    ASSUME AmdBuffers!ConstantsOK, v1 \in 0 .. Alignment - 1
    PROVE  \A x \in 0 .. Descriptors - 1 :
              /\ AmdBuffers!Address(x) \in 0 .. 2 * Alignment + ArrayBytes
              /\ \A y \in 0 .. Descriptors - 1 :
                    AmdBuffers!Address(y) <= AmdBuffers!Address(x) + ArrayBytes
<1> USE BufferNumbers
<1>1. ASSUME NEW x \in 0 .. Descriptors - 1
      PROVE  x * Step \in 0 .. ArrayBytes
  <2>1. Step * x <= Step * Descriptors /\ Step * x \in Nat
    BY Times
  <2>2. x * Step = Step * x /\ Descriptors * Step = Step * Descriptors
    BY SMTT(30)
  <2> QED
    BY <2>1, <2>2 DEF ArrayBytes
<1> SUFFICES ASSUME NEW x \in 0 .. Descriptors - 1
             PROVE  /\ AmdBuffers!Address(x) \in 0 .. 2 * Alignment + ArrayBytes
                    /\ \A y \in 0 .. Descriptors - 1 :
                          AmdBuffers!Address(y) <= AmdBuffers!Address(x) + ArrayBytes
  OBVIOUS
<1> DEFINE X(y) == v1 + y * Step + Alignment - 1
<1>2. PICK s \in 0 .. ArrayBytes : s = x * Step
  BY <1>1
<1>3. X(x) \in Nat /\ X(x) <= 2 * Alignment + ArrayBytes
  BY <1>2
<1>4. AmdBuffers!Address(x) = Alignment * (X(x) \div Alignment)
  BY DEF AmdBuffers!Address
<1>5. AmdBuffers!Address(x) \in Nat /\ AmdBuffers!Address(x) <= X(x)
  <2>1. X(x) \div Alignment \in Nat /\ Alignment * (X(x) \div Alignment) <= X(x)
    BY <1>3, Division
  <2>2. Alignment * (X(x) \div Alignment) \in Nat
    BY <2>1, Times
  <2> QED
    BY <1>4, <2>1, <2>2
<1>6. AmdBuffers!Address(x) \in 0 .. 2 * Alignment + ArrayBytes
  BY <1>3, <1>5
<1>7. ASSUME NEW y \in 0 .. Descriptors - 1
      PROVE  AmdBuffers!Address(y) <= AmdBuffers!Address(x) + ArrayBytes
  <2>1. PICK t \in 0 .. ArrayBytes : t = y * Step
    BY <1>1
  <2>2. X(y) \in Nat /\ X(y) <= X(x) + ArrayBytes
    BY <1>2, <2>1
  <2>3. AmdBuffers!Address(y) = Alignment * (X(y) \div Alignment)
    BY DEF AmdBuffers!Address
  <2> HIDE DEF X
  <2> QED
    BY <1>3, <1>4, <2>2, <2>3, RoundedUp
<1> QED
  BY <1>6, <1>7

(* The bytes of a frame, and that any two frames overlap.                  *)
LEMMA FrameBytes ==
    ASSUME AmdBuffers!ConstantsOK, v1 \in 0 .. Alignment - 1, NEW f \in FrameType
    PROVE  /\ AmdBuffers!Start(f) \in Nat /\ f.length \in Nat /\ f.length > ArrayBytes
           /\ AmdBuffers!Bytes(f) = AmdBuffers!Start(f) .. AmdBuffers!Start(f) + f.length - 1
           /\ AmdBuffers!Bytes(f) \subseteq 0 .. AmdBuffers!Top
           /\ \A g \in FrameType : AmdBuffers!Start(f) <= AmdBuffers!Start(g) + ArrayBytes
<1>1. \A g \in FrameType : g.no % Descriptors \in 0 .. Descriptors - 1 /\ g.length \in FrameLengths
  <2>1. ASSUME NEW g \in FrameType PROVE g.no \in Nat /\ g.length \in FrameLengths
    BY BufferNumbers DEF FrameType
  <2>2. ASSUME NEW x \in Nat PROVE x % Descriptors \in 0 .. Descriptors - 1
    BY BufferNumbers
  <2> QED
    BY <2>1, <2>2
<1>2. /\ AmdBuffers!Start(f) \in 0 .. 2 * Alignment + ArrayBytes
      /\ \A g \in FrameType : AmdBuffers!Start(f) <= AmdBuffers!Start(g) + ArrayBytes
  BY <1>1, Addresses DEF AmdBuffers!Start
<1>3. f.length \in ArrayBytes + 1 .. AmdBuffers!Longest
  BY <1>1, BufferNumbers
<1>4. AmdBuffers!Bytes(f) = AmdBuffers!Start(f) .. AmdBuffers!Start(f) + f.length - 1
  BY DEF AmdBuffers!Start, AmdBuffers!Bytes
<1>5. PICK s \in Nat, l \in Nat, t \in Nat :
         /\ s = AmdBuffers!Start(f) /\ l = f.length /\ t = AmdBuffers!Top
         /\ s + l <= t
  BY <1>2, <1>3, BufferNumbers
<1>6. s .. s + l - 1 \subseteq 0 .. t
  BY <1>5
<1>7. AmdBuffers!Bytes(f) \subseteq 0 .. AmdBuffers!Top
  BY <1>4, <1>5, <1>6
<1>8. AmdBuffers!Start(f) \in Nat /\ f.length \in Nat /\ f.length > ArrayBytes
  BY <1>2, <1>3, BufferNumbers
<1> QED
  BY <1>2, <1>4, <1>7, <1>8

(* No frame waits.                                                         *)
LEMMA BuffersInit ==
    ASSUME AmdBuffers!ConstantsOK, AmdBuffers!Init
    PROVE  BuffersProof
<1>1. /\ v1 \in 0 .. Alignment - 1 /\ v2 = 0 /\ v3 = <<>>
      /\ v4 = [a \in 0 .. AmdBuffers!Top |-> AmdBuffers!None]
  BY DEF AmdBuffers!Init
<1>2. Len(v3) = 0 /\ v3 \in Seq(FrameType)
  BY <1>1
<1>3. 0 \in 0 .. 2 * Descriptors - 1 /\ 0 \in 0 .. Descriptors
  BY BufferNumbers
<1> QED
  BY <1>1, <1>2, <1>3 DEF BuffersProof

(* A frame that is put ages the others by one, and takes the bytes that    *)
(* it shares with them.                                                    *)
LEMMA PutStep ==
    ASSUME AmdBuffers!ConstantsOK, BuffersProof, NEW length \in FrameLengths, AmdBuffers!Put(length)
    PROVE  BuffersProof'
<1> DEFINE f == [no |-> v2, length |-> length]
<1>1. PICK n \in Nat : n = Len(v3)
  BY DEF BuffersProof
<1>2. /\ n < Descriptors /\ v3' = Append(v3, f) /\ v1' = v1
      /\ v2' = (v2 + 1) % (2 * Descriptors)
      /\ v4' = [a \in 0 .. AmdBuffers!Top |-> IF a \in AmdBuffers!Bytes(f) THEN v2 ELSE v4[a]]
  BY <1>1 DEF AmdBuffers!Put, AmdBuffers!Numbers
<1>3. /\ v1 \in 0 .. Alignment - 1 /\ v2 \in 0 .. 2 * Descriptors - 1 /\ v3 \in Seq(FrameType)
      /\ v4 \in [0 .. AmdBuffers!Top -> {AmdBuffers!None} \cup 0 .. 2 * Descriptors - 1]
  BY DEF BuffersProof
<1>4. f \in FrameType /\ f.no = v2
  BY <1>3 DEF FrameType
<1> HIDE DEF f
<1>5. /\ v3' \in Seq(FrameType) /\ Len(v3') = n + 1 /\ v3'[n + 1] = f
      /\ \A k \in 1 .. n : v3'[k] = v3[k]
  BY <1>1, <1>2, <1>3, <1>4, AppendProperties
<1>6. /\ v2' = IF v2 + 1 < 2 * Descriptors THEN v2 + 1 ELSE 0
      /\ v2' \in 0 .. 2 * Descriptors - 1
  <2>1. PICK m \in Nat \ {0} : m = 2 * Descriptors
    BY BufferNumbers
  <2>2. 1 \in 0 .. m /\ v2 \in 0 .. m - 1
    BY <1>3, <2>1
  <2>3. /\ (v2 + 1) % m = IF v2 + 1 < m THEN v2 + 1 ELSE v2 + 1 - m
        /\ (v2 + 1) % m \in 0 .. m - 1
    BY <2>2, Turn
  <2> QED
    BY <1>2, <2>1, <2>2, <2>3
<1>7. v4' \in [0 .. AmdBuffers!Top -> {AmdBuffers!None} \cup 0 .. 2 * Descriptors - 1]
  BY <1>2, <1>3
<1>8. ASSUME NEW d \in 1 .. Descriptors
      PROVE  Ago(d + 1, v2') = Ago(d, v2) /\ Ago(1, v2') = v2
  <2>1. PICK m \in Nat \ {0, 1} : m = Descriptors
    BY BufferNumbers
  <2>2. d \in 1 .. m /\ v2 \in 0 .. 2 * m - 1 /\ v2' = IF v2 + 1 < 2 * m THEN v2 + 1 ELSE 0
    BY <1>3, <1>6, <2>1
  <2>3. CASE v2 + 1 < 2 * m
    BY <2>1, <2>2, <2>3 DEF Ago
  <2>4. CASE ~(v2 + 1 < 2 * m)
    BY <2>1, <2>2, <2>4 DEF Ago
  <2> QED
    BY <2>3, <2>4
<1>9. ASSUME NEW k \in 1 .. n + 1
      PROVE  v3'[k].no = Ago((n + 1) - k + 1, v2')
  <2>1. CASE k \in 1 .. n
    <3>1. v3'[k].no = Ago(n - k + 1, v2)
      BY <1>1, <1>5, <2>1 DEF BuffersProof
    <3>2. n - k + 1 \in 1 .. Descriptors /\ (n - k + 1) + 1 = (n + 1) - k + 1
      BY <1>2, <2>1, BufferNumbers
    <3> QED
      BY <1>8, <3>1, <3>2
  <2>2. CASE k = n + 1
    <3>1. 1 \in 1 .. Descriptors /\ (n + 1) - k + 1 = 1
      BY <2>2, BufferNumbers
    <3> QED
      BY <1>4, <1>5, <1>8, <2>2, <3>1
  <2>3. k \in 1 .. n \/ k = n + 1
    OBVIOUS
  <2> QED
    BY <2>1, <2>2, <2>3
<1>10. ASSUME NEW k \in 1 .. n + 1, NEW a \in AmdBuffers!Bytes(v3'[k])
       PROVE  \E m \in k .. n + 1 :
                 /\ a \in AmdBuffers!Bytes(v3'[m]) /\ v4'[a] = v3'[m].no
                 /\ \A j \in m + 1 .. n + 1 : a \notin AmdBuffers!Bytes(v3'[j])
  <2>1. k \in 1 .. n \/ k = n + 1
    OBVIOUS
  <2>2. a \in 0 .. AmdBuffers!Top
    <3>1. v3'[k] \in FrameType
      BY <1>5, ElementOfSeq
    <3> QED
      BY <1>3, <1>10, <3>1, FrameBytes
  <2>3. CASE a \in AmdBuffers!Bytes(f)
    <3>1. n + 1 \in k .. n + 1 /\ v4'[a] = f.no
      BY <1>2, <1>4, <2>2, <2>3
    <3>2. \A j \in (n + 1) + 1 .. n + 1 : FALSE
      BY <1>1
    <3> QED
      BY <1>5, <2>3, <3>1, <3>2
  <2>4. CASE a \notin AmdBuffers!Bytes(f)
    <3>1. k \in 1 .. n /\ a \in AmdBuffers!Bytes(v3[k])
      BY <1>5, <1>10, <2>1, <2>4
    <3>2. PICK m \in k .. n : /\ a \in AmdBuffers!Bytes(v3[m]) /\ v4[a] = v3[m].no
                              /\ \A j \in m + 1 .. n : a \notin AmdBuffers!Bytes(v3[j])
      BY <1>1, <3>1 DEF BuffersProof, LastHas
    <3>3. m \in 1 .. n /\ m \in k .. n + 1
      BY <3>1, <3>2
    <3>4. a \in AmdBuffers!Bytes(v3'[m]) /\ v4'[a] = v3'[m].no
      BY <1>2, <1>5, <2>2, <2>4, <3>2, <3>3
    <3>5. ASSUME NEW j \in m + 1 .. n + 1 PROVE a \notin AmdBuffers!Bytes(v3'[j])
      <4>1. (j \in m + 1 .. n /\ j \in 1 .. n) \/ j = n + 1
        BY <3>3
      <4> QED
        BY <1>5, <2>4, <3>2, <4>1
    <3> QED
      BY <3>3, <3>4, <3>5
  <2> QED
    BY <2>3, <2>4
<1>11. Len(v3') \in 0 .. Descriptors
  BY <1>2, <1>5, BufferNumbers
<1>12. ASSUME NEW k \in 1 .. n + 1, NEW a \in AmdBuffers!Bytes(v3[k])'
       PROVE  LastHas(k, a, v3, v4)'
  <2>1. \A j \in 1 .. n + 1 : AmdBuffers!Bytes(v3[j])' = AmdBuffers!Bytes(v3'[j])
    BY <1>2 DEF AmdBuffers!Bytes, AmdBuffers!Address
  <2>2. PICK m \in k .. n + 1 :
           /\ a \in AmdBuffers!Bytes(v3'[m]) /\ v4'[a] = v3'[m].no
           /\ \A j \in m + 1 .. n + 1 : a \notin AmdBuffers!Bytes(v3'[j])
    BY <1>10, <1>12, <2>1
  <2>3. m \in 1 .. n + 1 /\ \A j \in m + 1 .. n + 1 : j \in 1 .. n + 1
    BY <2>2
  <2> QED
    BY <1>5, <2>1, <2>2, <2>3 DEF LastHas
<1> QED
  BY <1>2, <1>3, <1>5, <1>6, <1>7, <1>9, <1>11, <1>12 DEF BuffersProof

(* Taking out the oldest leaves the others the bytes they had.             *)
LEMMA GetStep ==
    ASSUME AmdBuffers!ConstantsOK, BuffersProof, AmdBuffers!Get
    PROVE  BuffersProof'
<1>1. v3 # <<>> /\ v3' = Tail(v3) /\ v1' = v1 /\ v2' = v2 /\ v4' = v4
  BY DEF AmdBuffers!Get
<1>2. PICK n \in Nat : n = Len(v3)
  BY DEF BuffersProof
<1>3. /\ v3' \in Seq(FrameType) /\ Len(v3') = n - 1 /\ n >= 1
      /\ \A k \in 1 .. n - 1 : v3'[k] = v3[k + 1]
  <2>1. v3 \in Seq(FrameType)
    BY DEF BuffersProof
  <2> QED
    BY <1>1, <1>2, <2>1, HeadTailProperties
<1>4. Len(v3') \in 0 .. Descriptors
  <2>1. n \in 0 .. Descriptors /\ Descriptors \in Nat
    BY <1>2, BufferNumbers DEF BuffersProof
  <2>2. n - 1 \in 0 .. Descriptors
    BY <1>2, <1>3, <2>1
  <2> QED
    BY <1>3, <2>2
<1>5. ASSUME NEW k \in 1 .. n - 1
      PROVE  v3'[k].no = Ago((n - 1) - k + 1, v2)
  <2>1. k + 1 \in 1 .. n /\ n - (k + 1) + 1 = (n - 1) - k + 1
    OBVIOUS
  <2> QED
    BY <1>2, <1>3, <2>1 DEF BuffersProof
<1>6. ASSUME NEW k \in 1 .. n - 1, NEW a \in AmdBuffers!Bytes(v3[k])'
      PROVE  LastHas(k, a, v3, v4)'
  <2>1. \A j \in 1 .. n - 1 : AmdBuffers!Bytes(v3[j])' = AmdBuffers!Bytes(v3[j + 1])
    <3>1. \A j : AmdBuffers!Bytes(v3[j])' = AmdBuffers!Bytes(v3'[j])
      BY <1>1 DEF AmdBuffers!Bytes, AmdBuffers!Address
    <3> QED
      BY <1>3, <3>1
  <2>2. k + 1 \in 1 .. n /\ a \in AmdBuffers!Bytes(v3[k + 1])
    BY <1>6, <2>1
  <2>3. PICK m \in k + 1 .. n :
           /\ a \in AmdBuffers!Bytes(v3[m]) /\ v4[a] = v3[m].no
           /\ \A j \in m + 1 .. n : a \notin AmdBuffers!Bytes(v3[j])
    BY <1>2, <2>2 DEF BuffersProof, LastHas
  <2>4. PICK l \in k .. n - 1 : l + 1 = m
    BY <2>3
  <2>5. l \in 1 .. n - 1
    BY <2>4
  <2>6. a \in AmdBuffers!Bytes(v3[l])' /\ v4'[a] = v3'[l].no
    BY <1>1, <1>3, <2>1, <2>3, <2>4, <2>5
  <2>7. ASSUME NEW j \in l + 1 .. n - 1 PROVE a \notin AmdBuffers!Bytes(v3[j])'
    <3>1. j \in 1 .. n - 1 /\ j + 1 \in m + 1 .. n
      BY <2>4, <2>5
    <3> QED
      BY <2>1, <2>3, <3>1
  <2> QED
    BY <1>3, <2>4, <2>6, <2>7 DEF LastHas
<1> QED
  BY <1>1, <1>3, <1>4, <1>5, <1>6 DEF BuffersProof

(* Every step of the ring.                                                 *)
LEMMA BuffersStep ==
    ASSUME AmdBuffers!ConstantsOK, BuffersProof, [AmdBuffers!Next]_(AmdBuffers!vars)
    PROVE  BuffersProof'
<1>1. CASE UNCHANGED AmdBuffers!vars
  BY <1>1 DEF AmdBuffers!vars, BuffersProof, LastHas, AmdBuffers!Bytes, AmdBuffers!Address
<1> QED
  BY <1>1, PutStep, GetStep DEF AmdBuffers!Next

(* Every frame but the last shares a byte with the last, which has it.     *)
LEMMA BuffersSuffices ==
    ASSUME AmdBuffers!ConstantsOK, BuffersProof
    PROVE  AmdBuffers!BuffersInv
<1>1. PICK n \in 0 .. Descriptors : n = Len(v3)
  BY DEF BuffersProof
<1>2. /\ v1 \in 0 .. Alignment - 1 /\ v2 \in 0 .. 2 * Descriptors - 1
      /\ \A k \in 1 .. n : v3[k] \in FrameType
  BY <1>1, ElementOfSeq DEF BuffersProof
<1>3. AmdBuffers!TypeOK
  BY BufferNumbers DEF BuffersProof, AmdBuffers!TypeOK, AmdBuffers!Numbers, FrameType
<1>4. ASSUME NEW k \in 1 .. n, NEW m \in 1 .. n, k < m
      PROVE  v3[k].no # v3[m].no
  <2>1. PICK d \in Nat \ {0, 1} : d = Descriptors
    BY BufferNumbers
  <2>2. v3[k].no = Ago(n - k + 1, v2) /\ v3[m].no = Ago(n - m + 1, v2)
    BY <1>1 DEF BuffersProof
  <2>3. PICK x \in 1 .. d, y \in 1 .. d : x = n - k + 1 /\ y = n - m + 1 /\ x # y
    BY <1>4, <2>1
  <2>4. v2 \in 0 .. 2 * d - 1
    BY <1>2, <2>1
  <2>5. Ago(x, v2) # Ago(y, v2)
    BY <2>1, <2>3, <2>4 DEF Ago
  <2> QED
    BY <2>2, <2>3, <2>5
<1>5. ASSUME NEW k \in 1 .. n, NEW a \in AmdBuffers!Bytes(v3[k])
      PROVE  \E m \in k .. n : /\ a \in AmdBuffers!Bytes(v3[m]) /\ v4[a] = v3[m].no
                               /\ \A j \in m + 1 .. n : a \notin AmdBuffers!Bytes(v3[j])
  BY <1>1 DEF BuffersProof, LastHas
<1>6. ASSUME NEW k \in 1 .. n, NEW m \in 1 .. n
      PROVE  LET s == AmdBuffers!Start(v3[k])
                 t == AmdBuffers!Start(v3[m])
             IN  /\ s \in Nat /\ t \in Nat
                 /\ s \in AmdBuffers!Bytes(v3[k])
                 /\ s \in AmdBuffers!Bytes(v3[m]) <=> t <= s
                 /\ t >= s => t \in AmdBuffers!Bytes(v3[k])
  <2>1. PICK f, g : f = v3[k] /\ g = v3[m] /\ f \in FrameType /\ g \in FrameType
    BY <1>2
  <2>2. PICK s \in Nat, t \in Nat, x \in Nat, y \in Nat, b \in Nat :
           /\ s = AmdBuffers!Start(f) /\ t = AmdBuffers!Start(g) /\ x = f.length /\ y = g.length
           /\ b = ArrayBytes /\ x > b /\ y > b
           /\ AmdBuffers!Bytes(f) = s .. s + x - 1 /\ AmdBuffers!Bytes(g) = t .. t + y - 1
           /\ s <= t + b /\ t <= s + b
    BY <1>2, <2>1, FrameBytes, BufferNumbers
  <2>3. s <= s + x - 1 /\ s <= t + y - 1 /\ t <= s + x - 1
    <3>1. x > b /\ y > b
      BY <2>2
    <3>2. s <= t + b /\ t <= s + b
      BY <2>2
    <3> QED
      BY <3>1, <3>2
  <2>4. /\ s \in s .. s + x - 1
        /\ s \in t .. t + y - 1 <=> t <= s
        /\ t >= s => t \in s .. s + x - 1
    BY <2>3
  <2> QED
    BY <2>1, <2>2, <2>4
<1>7. ASSUME NEW k \in 1 .. n
      PROVE  AmdBuffers!Whole(v3[k]) <=> k = n
  <2>1. CASE k = n
    <3>1. ASSUME NEW a \in AmdBuffers!Bytes(v3[k]) PROVE v4[a] = v3[k].no
      <4>1. PICK m \in k .. n : v4[a] = v3[m].no
        BY <1>5
      <4>2. m = k
        BY <2>1, <4>1
      <4> QED
        BY <4>1, <4>2
    <3> QED
      BY <2>1, <3>1 DEF AmdBuffers!Whole
  <2>2. CASE k # n
    <3>1. k < n /\ n \in 1 .. n
      BY <2>2
    <3>2. PICK a : a \in AmdBuffers!Bytes(v3[k]) /\ a \in AmdBuffers!Bytes(v3[n])
      <4>1. CASE AmdBuffers!Start(v3[n]) >= AmdBuffers!Start(v3[k])
        BY <1>6, <3>1, <4>1
      <4>2. CASE AmdBuffers!Start(v3[n]) <= AmdBuffers!Start(v3[k])
        BY <1>6, <3>1, <4>2
      <4>3. AmdBuffers!Start(v3[n]) \in Nat /\ AmdBuffers!Start(v3[k]) \in Nat
        BY <1>6, <3>1
      <4> QED
        BY <4>1, <4>2, <4>3
    <3>3. PICK m \in k .. n : /\ v4[a] = v3[m].no
                              /\ \A j \in m + 1 .. n : a \notin AmdBuffers!Bytes(v3[j])
      BY <1>5, <3>2
    <3>4. m = n
      <4>1. m # n => n \in m + 1 .. n
        BY <3>1, <3>3
      <4> QED
        BY <3>2, <3>3, <4>1
    <3>5. v4[a] # v3[k].no
      BY <1>4, <3>1, <3>3, <3>4
    <3> QED
      BY <2>2, <3>2, <3>5 DEF AmdBuffers!Whole
  <2> QED
    BY <2>1, <2>2
<1>8. ASSUME NEW k \in 1 .. n
      PROVE  v4[AmdBuffers!Start(v3[k])] = v3[k].no <=>
                \A j \in k + 1 .. n : AmdBuffers!Start(v3[j]) > AmdBuffers!Start(v3[k])
  <2>1. PICK a \in Nat : a = AmdBuffers!Start(v3[k]) /\ a \in AmdBuffers!Bytes(v3[k])
    BY <1>6
  <2>2. PICK m \in k .. n : /\ a \in AmdBuffers!Bytes(v3[m]) /\ v4[a] = v3[m].no
                            /\ \A j \in m + 1 .. n : a \notin AmdBuffers!Bytes(v3[j])
    BY <1>5, <2>1
  <2>3. ASSUME NEW j \in k + 1 .. n
        PROVE  j \in 1 .. n /\ (AmdBuffers!Start(v3[j]) > a <=> a \notin AmdBuffers!Bytes(v3[j]))
    <3>1. j \in 1 .. n
      BY <2>3
    <3>2. /\ AmdBuffers!Start(v3[j]) \in Nat
          /\ a \in AmdBuffers!Bytes(v3[j]) <=> AmdBuffers!Start(v3[j]) <= a
      BY <1>6, <2>1, <3>1
    <3> QED
      BY <3>1, <3>2
  <2>4. CASE m = k
    BY <2>1, <2>2, <2>3, <2>4
  <2>5. CASE m # k
    <3>1. m \in k + 1 .. n /\ m \in 1 .. n /\ k < m
      BY <2>2, <2>5
    <3>2. v4[a] # v3[k].no
      BY <1>4, <2>2, <3>1
    <3>3. ~(AmdBuffers!Start(v3[m]) > a)
      BY <2>2, <2>3, <3>1
    <3> QED
      BY <2>1, <3>1, <3>2, <3>3
  <2> QED
    BY <2>4, <2>5
<1>9. AmdBuffers!FramesWhole
  <2>1. DOMAIN v3 = 1 .. n
    BY <1>1 DEF BuffersProof
  <2> QED
    BY <1>1, <1>7, <1>8, <2>1 DEF AmdBuffers!FramesWhole
<1> QED
  BY <1>3, <1>9 DEF AmdBuffers!BuffersInv

----------------------------------------------------------------------------
(* The RTL8139: currentPacketPtr v1, cardPtr v2, unread v3, isr v4, at v5, *)
(* status v6, lag v7, missed v8, txCur v9, cardTx v10, given v11,          *)
(* txOrder v12.                                                            *)

Packet == [begin : 0 .. RxBufSize - 1, length : RxLengths]

(* Where the card goes on behind a packet.                                 *)
Behind(packet) == (packet.begin + Rtl8139!Size(packet.length)) % RxBufSize

(* The packets lie one behind the other, on multiples of four, the first   *)
(* at the driver's pointer and the last before the card's.                 *)
PacketsRight ==
    /\ v2 \in 0 .. RxBufSize - 1 /\ v2 % 4 = 0
    /\ v3 \in Seq(Packet)
    /\ v8 \in BOOLEAN
    /\ IF v8 = TRUE THEN v1 = RxBufSize
       ELSE v1 = IF v3 = <<>> THEN v2 ELSE v3[1].begin
    /\ \A k \in 1 .. Len(v3) :
          /\ v3[k].begin % 4 = 0
          /\ Behind(v3[k]) = IF k = Len(v3) THEN v2 ELSE v3[k + 1].begin

(* A packet whose interrupt stands is still in the ring.                   *)
InterruptsRight ==
    /\ v4 \subseteq {"ROK", "TOK"} /\ v6 \subseteq v4
    /\ v5 \in {"out", "receive", "acknowledge"}
    /\ v7 \in BOOLEAN
    /\ v5 = "receive" \/ (v5 = "out" /\ "ROK" \in v4) => v8 = TRUE \/ v3 # <<>>
    /\ v7 = FALSE /\ v8 = FALSE =>
          /\ v3 # <<>> => Tail(v3) = <<>> /\ "ROK" \in v4 /\ v5 # "acknowledge"

(* The slots that the card owns begin at its own and end at the driver's.  *)
InTurn(n) ==
    /\ v11 = {(v10 + k) % TxSlots : k \in 0 .. n - 1}
    /\ v9 = (v10 + n) % TxSlots

SlotsRight ==
    /\ v9 \in 0 .. TxSlots - 1 /\ v10 \in 0 .. TxSlots - 1
    /\ v11 \subseteq 0 .. TxSlots - 1
    /\ v12 \in {"kept", "unknown", "overrun"}
    /\ v12 = "kept" => \E n \in 0 .. TxSlots : InTurn(n)

RtlProof == PacketsRight /\ InterruptsRight /\ SlotsRight

(* The ring is empty, and so are the slots.                                *)
LEMMA RtlInit ==
    ASSUME Rtl8139!ConstantsOK, Rtl8139!Init
    PROVE  RtlProof
<1>1. /\ v1 = 0 /\ v2 = 0 /\ v3 = <<>> /\ v4 = {} /\ v5 = "out" /\ v6 = {}
      /\ v7 = FALSE /\ v8 = FALSE /\ v9 \in 0 .. TxSlots - 1 /\ v10 = 0 /\ v11 = {}
      /\ v12 = IF v9 = 0 THEN "kept" ELSE "unknown"
  BY DEF Rtl8139!Init
<1>2. RxBufSize \in Nat \ {0} /\ TxSlots \in Nat \ {0}
  BY DEF Rtl8139!ConstantsOK
<1>3. PacketsRight
  <2>1. v3 \in Seq(Packet) /\ Len(v3) = 0
    BY <1>1
  <2>2. v2 \in 0 .. RxBufSize - 1 /\ v2 % 4 = 0
    BY <1>1, <1>2
  <2>3. \A k \in 1 .. Len(v3) : FALSE
    BY <2>1
  <2> QED
    BY <1>1, <2>1, <2>2, <2>3 DEF PacketsRight
<1>4. InterruptsRight
  BY <1>1 DEF InterruptsRight
<1>5. SlotsRight
  <2>1. v12 = "kept" => InTurn(0)
    BY <1>1, <1>2 DEF InTurn
  <2>2. 0 \in 0 .. TxSlots /\ 0 \in 0 .. TxSlots - 1
    BY <1>2
  <2> QED
    BY <1>1, <2>1, <2>2 DEF SlotsRight
<1> QED
  BY <1>3, <1>4, <1>5 DEF RtlProof

(* What a packet takes in the ring: its length with the header, rounded up *)
(* to four, which is how far the driver moves its pointer.                 *)
LEMMA PacketSize ==
    ASSUME Rtl8139!ConstantsOK, NEW length \in RxLengths
    PROVE  /\ Rtl8139!Size(length) \in 1 .. RxBufSize - 1
           /\ Rtl8139!Size(length) % 4 = 0
           /\ \A p \in Nat : p % 4 = 0 =>
                 Rtl8139!AfterPacket(p, length) = p + Rtl8139!Size(length)
<1>1. length \in 1 .. RxBufSize - 8 /\ RxBufSize \in Nat
  BY DEF Rtl8139!ConstantsOK
<1>2. ASSUME NEW x \in Nat, NEW p \in Nat, p % 4 = 0
      PROVE  (p + x) - ((p + x) % 4) = p + 4 * (x \div 4)
  <2>1. PICK q \in Nat : p = 4 * q
    BY <1>2
  <2>2. PICK d \in Nat, r \in 0 .. 3 : x = 4 * d + r /\ x \div 4 = d
    OBVIOUS
  <2>3. p + x = 4 * (q + d) + r
    BY <2>1, <2>2
  <2>4. (4 * (q + d) + r) % 4 = r
    BY <2>1, <2>2
  <2> QED
    BY <2>1, <2>2, <2>3, <2>4
<1>3. ASSUME NEW p \in Nat, p % 4 = 0
      PROVE  Rtl8139!AfterPacket(p, length) = p + Rtl8139!Size(length)
  <2>1. length + 7 \in Nat /\ p + length + 4 + 3 = p + (length + 7)
    BY <1>1
  <2>2. Rtl8139!AfterPacket(p, length) = (p + (length + 7)) - ((p + (length + 7)) % 4)
    BY <2>1 DEF Rtl8139!AfterPacket, Rtl8139!Aligned
  <2> QED
    BY <1>2, <1>3, <2>1, <2>2 DEF Rtl8139!Size
<1> QED
  BY <1>1, <1>3 DEF Rtl8139!Size

(* Behind a packet, in and beyond the ring's end.                          *)
LEMMA BehindPacket ==
    ASSUME Rtl8139!ConstantsOK, NEW p \in Packet
    PROVE  /\ \A e \in Nat : e = p.begin + Rtl8139!Size(p.length) =>
                 /\ e < RxBufSize => Behind(p) = e
                 /\ ~(e < RxBufSize) => Behind(p) = e - RxBufSize
           /\ Behind(p) \in 0 .. RxBufSize - 1
           /\ p.begin % 4 = 0 => Behind(p) % 4 = 0
<1>1. /\ p.begin \in 0 .. RxBufSize - 1 /\ p.length \in RxLengths
      /\ RxBufSize \in Nat \ {0} /\ RxBufSize % 4 = 0
  BY DEF Rtl8139!ConstantsOK, Packet
<1>2. PICK s \in 0 .. RxBufSize : s = Rtl8139!Size(p.length) /\ s % 4 = 0
  BY <1>1, PacketSize
<1>3. /\ p.begin + s < RxBufSize => Behind(p) = p.begin + s
      /\ ~(p.begin + s < RxBufSize) => Behind(p) = p.begin + s - RxBufSize
      /\ Behind(p) \in 0 .. RxBufSize - 1
  BY <1>1, <1>2, Turn DEF Behind
<1>4. p.begin % 4 = 0 => Behind(p) % 4 = 0
  BY <1>1, <1>2, <1>3
<1> HIDE DEF Behind
<1>5. ASSUME NEW e \in Nat, e = p.begin + Rtl8139!Size(p.length)
      PROVE  /\ e < RxBufSize => Behind(p) = e
             /\ ~(e < RxBufSize) => Behind(p) = e - RxBufSize
  <2>1. e = p.begin + s
    BY <1>2, <1>5
  <2>2. CASE e < RxBufSize
    BY <1>3, <2>1, <2>2
  <2>3. CASE ~(e < RxBufSize)
    BY <1>1, <1>3, <2>1, <2>3
  <2> QED
    BY <2>2, <2>3
<1> QED
  BY <1>3, <1>4, <1>5

(* A packet is stored behind the others.                                   *)
LEMMA ArriveStep ==
    ASSUME Rtl8139!ConstantsOK, RtlProof, NEW length \in RxLengths, Rtl8139!Arrive(length)
    PROVE  RtlProof'
<1> DEFINE p == [begin |-> v2, length |-> length]
<1>1. /\ v8 = FALSE /\ v8' = v8 /\ v3' = Append(v3, p)
      /\ v2' = Behind(p) /\ v4' = v4 \cup {"ROK"}
      /\ v7' = (v7 \/ "ROK" \in v4 \/ v5 # "out")
      /\ v1' = v1 /\ v5' = v5 /\ v6' = v6 /\ v9' = v9 /\ v10' = v10 /\ v11' = v11 /\ v12' = v12
  <2>1. ~v8 /\ v8 \in BOOLEAN
    BY DEF Rtl8139!Arrive, RtlProof, PacketsRight
  <2>2. v8 = FALSE
    BY <2>1, Zenon
  <2> QED
    BY <2>2 DEF Rtl8139!Arrive, Rtl8139!tx, Behind
<1>2. p \in Packet /\ p.begin = v2 /\ v2 % 4 = 0
  BY DEF RtlProof, PacketsRight, Packet
<1> HIDE DEF p
<1>3. PICK n \in Nat : n = Len(v3)
  BY DEF RtlProof, PacketsRight
<1>4. v3 \in Seq(Packet) /\ (v3 = <<>> <=> n = 0)
  BY <1>3 DEF RtlProof, PacketsRight
<1>5. /\ v3' \in Seq(Packet) /\ Len(v3') = n + 1 /\ v3'[n + 1] = p
      /\ \A k \in 1 .. n : v3'[k] = v3[k]
  BY <1>1, <1>2, <1>3, <1>4, AppendProperties
<1>6. v3' # <<>>
  BY <1>5
<1>7. v2' \in 0 .. RxBufSize - 1 /\ v2' % 4 = 0
  BY <1>1, <1>2, BehindPacket
<1>8. v1' = v3'[1].begin
  <2>1. v1 = IF n = 0 THEN v2 ELSE v3[1].begin
    BY <1>1, <1>4 DEF RtlProof, PacketsRight
  <2>2. CASE n = 0
    BY <1>1, <1>2, <1>5, <2>1, <2>2
  <2>3. CASE n # 0
    <3>1. 1 \in 1 .. n
      BY <2>3
    <3> QED
      BY <1>1, <1>5, <2>1, <2>3, <3>1
  <2> QED
    BY <2>2, <2>3
<1>9. ASSUME NEW k \in 1 .. n + 1
      PROVE  /\ v3'[k].begin % 4 = 0
             /\ Behind(v3'[k]) = IF k = n + 1 THEN v2' ELSE v3'[k + 1].begin
  <2>1. CASE k = n + 1
    BY <1>1, <1>2, <1>5, <2>1
  <2>2. CASE k # n + 1
    <3>1. k \in 1 .. n /\ k + 1 \in 1 .. n + 1
      BY <2>2
    <3>2. v3[k].begin % 4 = 0 /\ Behind(v3[k]) = IF k = n THEN v2 ELSE v3[k + 1].begin
      BY <1>3, <3>1 DEF RtlProof, PacketsRight
    <3>3. CASE k = n
      BY <1>2, <1>5, <3>1, <3>2, <3>3
    <3>4. CASE k # n
      <4>1. k + 1 \in 1 .. n
        BY <3>1, <3>4
      <4> QED
        BY <1>5, <2>2, <3>1, <3>2, <3>4, <4>1
    <3> QED
      BY <3>3, <3>4
  <2> QED
    BY <2>1, <2>2
<1>10. PacketsRight'
  <2>1. ASSUME NEW k \in 1 .. Len(v3')
        PROVE  /\ v3'[k].begin % 4 = 0
               /\ Behind(v3[k])' = IF k = Len(v3') THEN v2' ELSE v3'[k + 1].begin
    <3>1. Behind(v3[k])' = Behind(v3'[k])
      BY DEF Behind, Rtl8139!Size
    <3>2. k \in 1 .. n + 1
      BY <1>5
    <3> QED
      BY <1>5, <1>9, <3>1, <3>2
  <2> QED
    BY <1>1, <1>5, <1>6, <1>7, <1>8, <2>1 DEF PacketsRight
<1>11. InterruptsRight'
  <2>1. /\ v4' \subseteq {"ROK", "TOK"} /\ v6' \subseteq v4'
        /\ v5' \in {"out", "receive", "acknowledge"} /\ v7' \in BOOLEAN
    BY <1>1 DEF RtlProof, InterruptsRight
  <2>2. ASSUME v7' = FALSE
        PROVE  Tail(v3') = <<>> /\ "ROK" \in v4' /\ v5' # "acknowledge"
    <3>1. ~v7 /\ "ROK" \notin v4 /\ v5 = "out"
      BY <1>1, <2>2, Zenon
    <3>2. v7 = FALSE
      BY <3>1, Zenon DEF RtlProof, InterruptsRight
    <3>3. v3 = <<>>
      BY <1>1, <3>1, <3>2 DEF RtlProof, InterruptsRight
    <3>4. v3' = <<p>>
      BY <1>1, <3>3
    <3> QED
      BY <1>1, <3>1, <3>4
  <2> QED
    BY <1>6, <2>1, <2>2 DEF InterruptsRight
<1>12. SlotsRight'
  BY <1>1 DEF RtlProof, SlotsRight, InTurn
<1> QED
  BY <1>10, <1>11, <1>12 DEF RtlProof

(* The driver takes the oldest packet, and its pointer moves to the next.  *)
LEMMA ReceiveStep ==
    ASSUME Rtl8139!ConstantsOK, RtlProof, Rtl8139!Receive
    PROVE  RtlProof'
<1>1. /\ v5 = "receive" /\ v5' = "acknowledge"
      /\ v2' = v2 /\ v7' = v7 /\ v4' = v4 /\ v6' = v6
      /\ v9' = v9 /\ v10' = v10 /\ v11' = v11 /\ v12' = v12
  BY DEF Rtl8139!Receive, Rtl8139!tx
<1>2. SlotsRight'
  BY <1>1 DEF RtlProof, SlotsRight, InTurn
<1>3. CASE v8 = TRUE
  <2>1. v1' = v1 /\ v8' = v8 /\ v3' = v3
    BY <1>3 DEF Rtl8139!Receive
  <2>2. PacketsRight'
    BY <1>1, <2>1 DEF RtlProof, PacketsRight, Behind, Rtl8139!Size
  <2>3. InterruptsRight'
    BY <1>1, <1>3, <2>1 DEF RtlProof, InterruptsRight
  <2> QED
    BY <1>2, <2>2, <2>3 DEF RtlProof
<1>4. CASE v8 = FALSE
  <2>1. /\ v1' = Rtl8139!NextPtr(v1, Head(v3).length)
        /\ v8' = (v1' = RxBufSize) /\ v3' = Tail(v3)
    BY <1>4 DEF Rtl8139!Receive
  <2>2. v3 \in Seq(Packet) /\ v3 # <<>>
    BY <1>1, <1>4 DEF RtlProof, PacketsRight, InterruptsRight
  <2>3. PICK n \in Nat : n = Len(v3) - 1 /\ Len(v3) = n + 1
    BY <2>2
  <2>4. /\ v3' \in Seq(Packet) /\ Len(v3') = n
        /\ \A k \in 1 .. n : v3'[k] = v3[k + 1]
        /\ Head(v3) = v3[1]
    BY <2>1, <2>2, <2>3, HeadTailProperties
  <2>5. v3' = <<>> <=> n = 0
    BY <2>4
  <2>6. PICK p \in Packet : p = v3[1]
    <3>1. 1 \in 1 .. Len(v3)
      BY <2>3
    <3> QED
      BY <2>2, <3>1, ElementOfSeq
  <2>7. /\ v1 = p.begin /\ p.begin % 4 = 0
        /\ Behind(p) = IF n = 0 THEN v2 ELSE v3[2].begin
    <3>1. 1 \in 1 .. n + 1 /\ 1 + 1 = 2 /\ (1 = n + 1 <=> n = 0)
      BY <2>3
    <3> QED
      BY <1>4, <2>2, <2>3, <2>6, <3>1 DEF RtlProof, PacketsRight
  <2>8. PICK e \in Nat : /\ e > RxBufSize => v1' = e - RxBufSize
                         /\ ~(e > RxBufSize) => v1' = e
                         /\ e < RxBufSize => Behind(p) = e
                         /\ ~(e < RxBufSize) => Behind(p) = e - RxBufSize
    <3>1. /\ p.begin \in 0 .. RxBufSize - 1 /\ p.length \in RxLengths /\ RxBufSize \in Nat \ {0}
      BY DEF Packet, Rtl8139!ConstantsOK
    <3>2. /\ Rtl8139!Size(p.length) \in 1 .. RxBufSize - 1
          /\ Rtl8139!AfterPacket(p.begin, p.length) = p.begin + Rtl8139!Size(p.length)
      <4>1. p.begin \in Nat
        BY <3>1
      <4> QED
        BY <2>7, <3>1, <4>1, PacketSize
    <3>3. PICK s \in 1 .. RxBufSize - 1 : s = Rtl8139!Size(p.length)
      BY <3>2
    <3>4. PICK e \in Nat : e = p.begin + s
      BY <3>1, <3>3
    <3>5. /\ e > RxBufSize => v1' = e - RxBufSize
          /\ ~(e > RxBufSize) => v1' = e
      <4>1. v1' = Rtl8139!NextPtr(p.begin, p.length)
        BY <2>1, <2>4, <2>6, <2>7
      <4>2. Rtl8139!AfterPacket(p.begin, p.length) = e
        BY <3>2, <3>3, <3>4
      <4> QED
        BY <4>1, <4>2 DEF Rtl8139!NextPtr
    <3>6. /\ e < RxBufSize => Behind(p) = e
          /\ ~(e < RxBufSize) => Behind(p) = e - RxBufSize
      <4>1. e = p.begin + Rtl8139!Size(p.length)
        BY <3>3, <3>4
      <4> QED
        BY <4>1, BehindPacket
    <3> QED
      BY <3>5, <3>6
  <2>9. v8' \in BOOLEAN /\ (v8' = TRUE <=> v1' = RxBufSize)
    BY <2>1, Zenon
  <2>10. v1' # RxBufSize => v1' = IF n = 0 THEN v2 ELSE v3[2].begin
    <3>1. v1' # RxBufSize => v1' = Behind(p)
      <4>1. RxBufSize \in Nat
        BY DEF Rtl8139!ConstantsOK
      <4>2. e < RxBufSize \/ e > RxBufSize \/ e = RxBufSize
        BY <4>1
      <4>3. CASE e < RxBufSize
        BY <2>8, <4>1, <4>3
      <4>4. CASE e > RxBufSize
        BY <2>8, <4>1, <4>4
      <4>5. CASE e = RxBufSize
        BY <2>8, <4>1, <4>5
      <4> QED
        BY <4>2, <4>3, <4>4, <4>5
    <3> QED
      BY <2>7, <3>1
  <2>11. v1' # RxBufSize => v1' = IF v3' = <<>> THEN v2' ELSE v3'[1].begin
    <3>1. n # 0 => v3'[1] = v3[2]
      <4>1. n # 0 => 1 \in 1 .. n /\ 1 + 1 = 2
        OBVIOUS
      <4> QED
        BY <2>4, <4>1
    <3> QED
      BY <1>1, <2>5, <2>10, <3>1
  <2>12. ASSUME NEW k \in 1 .. Len(v3')
         PROVE  /\ v3'[k].begin % 4 = 0
                /\ Behind(v3[k])' = IF k = Len(v3') THEN v2' ELSE v3'[k + 1].begin
    <3>1. Behind(v3[k])' = Behind(v3'[k])
      BY DEF Behind, Rtl8139!Size
    <3>2. k \in 1 .. n /\ k + 1 \in 1 .. n + 1
      BY <2>4
    <3>3. /\ v3[k + 1].begin % 4 = 0
          /\ Behind(v3[k + 1]) = IF k + 1 = n + 1 THEN v2 ELSE v3[k + 1 + 1].begin
      BY <2>3, <3>2 DEF RtlProof, PacketsRight
    <3>4. v3'[k] = v3[k + 1]
      BY <2>4, <3>2
    <3>5. CASE k = n
      BY <1>1, <2>4, <3>1, <3>3, <3>4, <3>5
    <3>6. CASE k # n
      <4>1. k + 1 \in 1 .. n /\ k + 1 # n + 1
        BY <3>2, <3>6
      <4>2. v3'[k + 1] = v3[k + 1 + 1]
        BY <2>4, <4>1
      <4> QED
        BY <2>4, <3>1, <3>3, <3>4, <3>6, <4>1, <4>2
    <3> QED
      BY <3>5, <3>6
  <2>13. PacketsRight'
    <3>1. IF v8' = TRUE THEN v1' = RxBufSize
          ELSE v1' = IF v3' = <<>> THEN v2' ELSE v3'[1].begin
      BY <2>9, <2>11
    <3>2. v2' \in 0 .. RxBufSize - 1 /\ v2' % 4 = 0
      BY <1>1 DEF RtlProof, PacketsRight
    <3> QED
      BY <2>4, <2>9, <2>12, <3>1, <3>2 DEF PacketsRight
  <2>14. InterruptsRight'
    <3>1. v7' = FALSE => v3' = <<>>
      BY <1>1, <1>4, <2>1, <2>2 DEF RtlProof, InterruptsRight
    <3> QED
      BY <1>1, <3>1 DEF RtlProof, InterruptsRight
  <2> QED
    BY <1>2, <2>13, <2>14 DEF RtlProof
<1>5. v8 = TRUE \/ v8 = FALSE
  BY Zenon DEF RtlProof, PacketsRight
<1> QED
  BY <1>3, <1>4, <1>5

(* The handler's other steps leave the ring alone.                         *)
LEMMA HandlerStep ==
    ASSUME RtlProof, Rtl8139!Enter \/ Rtl8139!Acknowledge
    PROVE  RtlProof'
<1>1. /\ v1' = v1 /\ v2' = v2 /\ v3' = v3 /\ v7' = v7 /\ v8' = v8
      /\ v9' = v9 /\ v10' = v10 /\ v11' = v11 /\ v12' = v12
  BY DEF Rtl8139!Enter, Rtl8139!Acknowledge, Rtl8139!rx, Rtl8139!tx
<1>2. PacketsRight' /\ SlotsRight'
  BY <1>1 DEF RtlProof, PacketsRight, Behind, Rtl8139!Size, SlotsRight, InTurn
<1>3. CASE Rtl8139!Enter
  <2>1. /\ v5 = "out" /\ v6' = v4 /\ v4' = v4
        /\ v5' = IF "ROK" \in v4 THEN "receive" ELSE "acknowledge"
    BY <1>3 DEF Rtl8139!Enter
  <2>2. InterruptsRight'
    BY <1>1, <2>1 DEF RtlProof, InterruptsRight
  <2> QED
    BY <1>2, <2>2 DEF RtlProof
<1>4. CASE Rtl8139!Acknowledge
  <2>1. v5 = "acknowledge" /\ v5' = "out" /\ v6' = {} /\ v4' = v4 \ {"ROK", "TOK"}
    BY <1>4 DEF Rtl8139!Acknowledge, Rtl8139!Cleared
  <2>2. InterruptsRight'
    BY <1>1, <2>1 DEF RtlProof, InterruptsRight
  <2> QED
    BY <1>2, <2>2 DEF RtlProof
<1> QED
  BY <1>3, <1>4

(* One slot on, the slots are numbered one less.                           *)
LEMMA SlotOn ==
    ASSUME NEW m \in Nat \ {0}, NEW a \in 0 .. m - 1, NEW k \in 0 .. m - 1
    PROVE  (((a + 1) % m) + k) % m = (a + (k + 1)) % m /\ (a + 1) % m \in 0 .. m - 1
<1>1. 1 \in 0 .. m /\ k \in 0 .. m /\ k + 1 \in 0 .. m
  OBVIOUS
<1>2. PICK b \in 0 .. m - 1 : b = (a + 1) % m /\ b = IF a + 1 < m THEN a + 1 ELSE a + 1 - m
  BY <1>1, Turn
<1>3. /\ (b + k) % m = IF b + k < m THEN b + k ELSE b + k - m
      /\ (a + (k + 1)) % m = IF a + (k + 1) < m THEN a + (k + 1) ELSE a + (k + 1) - m
  BY <1>1, Turn
<1>4. (b + k) % m = (a + (k + 1)) % m
  BY <1>2, <1>3
<1> QED
  BY <1>2, <1>4

(* The card's slot is sent, and the next is the card's first.              *)
LEMMA TransmitStep ==
    ASSUME Rtl8139!ConstantsOK, RtlProof, Rtl8139!Transmit
    PROVE  RtlProof'
<1>1. /\ v10 \in v11 /\ v11' = v11 \ {v10} /\ v10' = (v10 + 1) % TxSlots
      /\ v4' = v4 \cup {"TOK"} /\ v1' = v1 /\ v2' = v2 /\ v3' = v3 /\ v5' = v5
      /\ v6' = v6 /\ v7' = v7 /\ v8' = v8 /\ v9' = v9 /\ v12' = v12
  BY DEF Rtl8139!Transmit, Rtl8139!rx
<1>2. PacketsRight'
  BY <1>1 DEF RtlProof, PacketsRight, Behind, Rtl8139!Size
<1>3. InterruptsRight'
  BY <1>1 DEF RtlProof, InterruptsRight
<1>4. /\ TxSlots \in Nat \ {0} /\ v9 \in 0 .. TxSlots - 1 /\ v10 \in 0 .. TxSlots - 1
      /\ v11 \subseteq 0 .. TxSlots - 1 /\ v12 \in {"kept", "unknown", "overrun"}
  BY DEF Rtl8139!ConstantsOK, RtlProof, SlotsRight
<1>5. v10' \in 0 .. TxSlots - 1 /\ v11' \subseteq 0 .. TxSlots - 1
  <2>1. 1 \in 0 .. TxSlots
    BY <1>4
  <2> QED
    BY <1>1, <1>4, <2>1, Turn
<1>6. ASSUME v12 = "kept"
      PROVE  \E n \in 0 .. TxSlots : InTurn(n)'
  <2>1. PICK n \in 0 .. TxSlots : InTurn(n)
    BY <1>6 DEF RtlProof, SlotsRight
  <2>3. n # 0
    <3>1. n = 0 => v11 = {}
      BY <2>1 DEF InTurn
    <3> QED
      BY <1>1, <3>1
  <2>4. PICK l \in 0 .. TxSlots - 1 : l = n - 1 /\ n = l + 1
    BY <1>4, <2>1, <2>3
  <2>5. \A k \in 0 .. l : (v10' + k) % TxSlots = (v10 + (k + 1)) % TxSlots
    <3>1. ASSUME NEW k \in 0 .. l PROVE (v10' + k) % TxSlots = (v10 + (k + 1)) % TxSlots
      <4>1. k \in 0 .. TxSlots - 1
        BY <1>4, <2>4
      <4> QED
        BY <1>1, <1>4, <4>1, SlotOn
    <3> QED
      BY <3>1
  <2>6. v9' = (v10' + l) % TxSlots
    <3>1. l \in 0 .. l
      BY <2>4
    <3> QED
      BY <1>1, <2>1, <2>4, <2>5, <3>1 DEF InTurn
  <2>7. \A k \in 1 .. l : (v10 + k) % TxSlots # v10
    <3>1. ASSUME NEW k \in 1 .. l PROVE (v10 + k) % TxSlots # v10
      <4>1. k \in 0 .. TxSlots /\ k > 0 /\ k < TxSlots
        BY <1>4, <2>4
      <4>2. (v10 + k) % TxSlots = IF v10 + k < TxSlots THEN v10 + k ELSE v10 + k - TxSlots
        BY <1>4, <4>1, Turn
      <4> QED
        BY <1>4, <4>1, <4>2
    <3> QED
      BY <3>1
  <2>8. v11' = {(v10' + k) % TxSlots : k \in 0 .. l - 1}
    <3>1. v11 = {(v10 + k) % TxSlots : k \in 0 .. l}
      <4>1. n - 1 = l
        BY <2>4
      <4> QED
        BY <2>1, <4>1 DEF InTurn
    <3>2. ASSUME NEW x \in v11' PROVE \E k \in 0 .. l - 1 : x = (v10' + k) % TxSlots
      <4>1. PICK k \in 0 .. l : x = (v10 + k) % TxSlots /\ x # v10
        BY <1>1, <3>1, <3>2
      <4>2. k # 0
        <5>1. v10 % TxSlots = v10
          BY <1>4
        <5> QED
          BY <1>4, <4>1, <5>1
      <4>3. PICK j \in 0 .. l - 1 : k = j + 1
        BY <2>4, <4>1, <4>2
      <4>4. j \in 0 .. l
        BY <2>4, <4>3
      <4> QED
        BY <2>5, <4>1, <4>3, <4>4
    <3>3. ASSUME NEW k \in 0 .. l - 1 PROVE (v10' + k) % TxSlots \in v11'
      <4>1. k \in 0 .. l /\ k + 1 \in 0 .. l /\ k + 1 \in 1 .. l
        BY <2>4, <3>3
      <4>2. (v10' + k) % TxSlots = (v10 + (k + 1)) % TxSlots
        BY <2>5, <4>1
      <4> QED
        BY <1>1, <2>7, <3>1, <4>1, <4>2
    <3> QED
      BY <3>2, <3>3, Zenon
  <2>9. InTurn(l)'
    BY <2>6, <2>8 DEF InTurn
  <2>10. l \in 0 .. TxSlots
    BY <1>4, <2>4
  <2> QED
    BY <2>9, <2>10
<1>7. SlotsRight'
  BY <1>1, <1>4, <1>5, <1>6 DEF SlotsRight
<1> QED
  BY <1>2, <1>3, <1>7 DEF RtlProof

(* The driver's slot is given to the card behind those that it owns.       *)
LEMMA SendStep ==
    ASSUME Rtl8139!ConstantsOK, RtlProof, Rtl8139!Send
    PROVE  RtlProof'
<1>1. /\ v11' = v11 \cup {v9} /\ v9' = (v9 + 1) % TxSlots
      /\ v12' = IF v9 \in v11 /\ v12 = "kept" THEN "overrun" ELSE v12
      /\ v1' = v1 /\ v2' = v2 /\ v3' = v3 /\ v4' = v4 /\ v5' = v5
      /\ v6' = v6 /\ v7' = v7 /\ v8' = v8 /\ v10' = v10
  BY DEF Rtl8139!Send, Rtl8139!rx
<1>2. PacketsRight' /\ InterruptsRight'
  BY <1>1 DEF RtlProof, PacketsRight, InterruptsRight, Behind, Rtl8139!Size
<1>3. /\ TxSlots \in Nat \ {0} /\ v9 \in 0 .. TxSlots - 1 /\ v10 \in 0 .. TxSlots - 1
      /\ v11 \subseteq 0 .. TxSlots - 1 /\ v12 \in {"kept", "unknown", "overrun"}
  BY DEF Rtl8139!ConstantsOK, RtlProof, SlotsRight
<1>4. v9' \in 0 .. TxSlots - 1 /\ v11' \subseteq 0 .. TxSlots - 1
  <2>1. 1 \in 0 .. TxSlots
    BY <1>3
  <2> QED
    BY <1>1, <1>3, <2>1, Turn
<1>5. ASSUME v12' = "kept"
      PROVE  \E n \in 0 .. TxSlots : InTurn(n)'
  <2>1. v12 = "kept" /\ v9 \notin v11
    BY <1>1, <1>5
  <2>2. PICK n \in 0 .. TxSlots : InTurn(n)
    BY <2>1 DEF RtlProof, SlotsRight
  <2>3. n # TxSlots
    <3>1. ASSUME n = TxSlots PROVE FALSE
      <4>1. /\ v9 = (v10 + TxSlots) % TxSlots
            /\ v11 = {(v10 + k) % TxSlots : k \in 0 .. TxSlots - 1}
        BY <2>2, <3>1 DEF InTurn
      <4>2. 0 \in 0 .. TxSlots /\ TxSlots \in 0 .. TxSlots /\ 0 \in 0 .. TxSlots - 1
        BY <1>3
      <4>3. (v10 + 0) % TxSlots = IF v10 + 0 < TxSlots THEN v10 + 0 ELSE v10 + 0 - TxSlots
        BY <1>3, <4>2, Turn
      <4>4. (v10 + TxSlots) % TxSlots =
                IF v10 + TxSlots < TxSlots THEN v10 + TxSlots ELSE v10 + TxSlots - TxSlots
        BY <1>3, <4>2, Turn
      <4>5. v9 = (v10 + 0) % TxSlots
        BY <1>3, <4>1, <4>3, <4>4
      <4> QED
        BY <2>1, <4>1, <4>2, <4>5
    <3> QED
      BY <3>1
  <2>4. n + 1 \in 0 .. TxSlots
    BY <1>3, <2>2, <2>3
  <2>5. v11' = {(v10' + k) % TxSlots : k \in 0 .. (n + 1) - 1}
    <3>1. v11 = {(v10 + k) % TxSlots : k \in 0 .. n - 1} /\ v9 = (v10 + n) % TxSlots
      BY <2>2 DEF InTurn
    <3>2. (n + 1) - 1 = n /\ \A k \in 0 .. n : k \in 0 .. n - 1 \/ k = n
      BY <2>2
    <3>3. n \in 0 .. n /\ \A k \in 0 .. n - 1 : k \in 0 .. n
      BY <2>2
    <3>4. v11' = {(v10 + k) % TxSlots : k \in 0 .. n}
      BY <1>1, <3>1, <3>2, <3>3, Zenon
    <3> QED
      BY <1>1, <3>2, <3>4
  <2>6. v9' = (v10' + (n + 1)) % TxSlots
    <3>1. n \in 0 .. TxSlots - 1
      BY <1>3, <2>2, <2>4
    <3>2. PICK a \in 0 .. TxSlots - 1 : a = v9 /\ a = (v10 + n) % TxSlots
      BY <1>3, <2>2 DEF InTurn
    <3>3. /\ (v10 + n) % TxSlots = IF v10 + n < TxSlots THEN v10 + n ELSE v10 + n - TxSlots
          /\ (v10 + (n + 1)) % TxSlots =
                IF v10 + (n + 1) < TxSlots THEN v10 + (n + 1) ELSE v10 + (n + 1) - TxSlots
      BY <1>3, <2>2, <2>4, Turn
    <3>4. (a + 1) % TxSlots = IF a + 1 < TxSlots THEN a + 1 ELSE a + 1 - TxSlots
      <4>1. 1 \in 0 .. TxSlots
        BY <1>3
      <4> QED
        BY <1>3, <4>1, Turn
    <3>5. (a + 1) % TxSlots = (v10 + (n + 1)) % TxSlots
      BY <1>3, <3>1, <3>2, <3>3, <3>4
    <3> QED
      BY <1>1, <3>2, <3>5
  <2> QED
    BY <2>4, <2>5, <2>6 DEF InTurn
<1>6. SlotsRight'
  BY <1>1, <1>3, <1>4, <1>5 DEF SlotsRight
<1> QED
  BY <1>2, <1>6 DEF RtlProof

(* Every step of the card and of its driver.                               *)
LEMMA RtlStep ==
    ASSUME Rtl8139!ConstantsOK, RtlProof, [Rtl8139!Next]_(Rtl8139!vars)
    PROVE  RtlProof'
<1>1. CASE UNCHANGED Rtl8139!vars
  <2>1. /\ v1' = v1 /\ v2' = v2 /\ v3' = v3 /\ v4' = v4 /\ v5' = v5 /\ v6' = v6 /\ v7' = v7
        /\ v8' = v8 /\ v9' = v9 /\ v10' = v10 /\ v11' = v11 /\ v12' = v12
    BY <1>1 DEF Rtl8139!vars, Rtl8139!rx, Rtl8139!tx
  <2>2. PacketsRight'
    BY <2>1 DEF RtlProof, PacketsRight, Behind, Rtl8139!Size
  <2>3. InterruptsRight'
    BY <2>1 DEF RtlProof, InterruptsRight
  <2>4. SlotsRight'
    BY <2>1 DEF RtlProof, SlotsRight, InTurn
  <2> QED
    BY <2>2, <2>3, <2>4 DEF RtlProof
<1> QED
  BY <1>1, ArriveStep, TransmitStep, HandlerStep, ReceiveStep, SendStep DEF Rtl8139!Next

(* The driver's parts of the invariant say what the run checks.            *)
LEMMA RtlSuffices ==
    ASSUME Rtl8139!ConstantsOK, RtlProof
    PROVE  Rtl8139!RtlInv
<1>1. RxBufSize \in Nat \ {0} /\ TxSlots \in Nat \ {0}
  BY DEF Rtl8139!ConstantsOK
<1>2. v3 \in Seq(Packet) /\ (v3 # <<>> => v3[1] \in Packet /\ Head(v3) = v3[1])
  <2>1. v3 \in Seq(Packet)
    BY DEF RtlProof, PacketsRight
  <2>2. v3 # <<>> => 1 \in 1 .. Len(v3)
    BY <2>1
  <2> QED
    BY <2>1, <2>2, ElementOfSeq, HeadTailProperties
<1>3. v8 = TRUE \/ v8 = FALSE
  BY Zenon DEF RtlProof, PacketsRight
<1>4. Rtl8139!TypeOK
  <2>1. v1 \in 0 .. RxBufSize
    <3>1. v3 # <<>> => v3[1].begin \in 0 .. RxBufSize - 1
      BY <1>2 DEF Packet
    <3> QED
      BY <1>1, <3>1 DEF RtlProof, PacketsRight
  <2>2. v3 \in Seq([begin : 0 .. RxBufSize - 1, length : RxLengths])
    BY <1>2 DEF Packet
  <2> QED
    BY <2>1, <2>2 DEF Rtl8139!TypeOK, RtlProof, PacketsRight, InterruptsRight, SlotsRight
<1>5. Rtl8139!PointerRight
  BY <1>2, <1>3 DEF Rtl8139!PointerRight, RtlProof, PacketsRight
<1>6. Rtl8139!NoneForgotten
  <2>1. v5 = "receive" => v8 \/ v3 # <<>>
    BY <1>3 DEF RtlProof, InterruptsRight
  <2>2. ASSUME ~v7, ~v8
        PROVE  Len(v3) <= 1 /\ (v3 # <<>> => "ROK" \in v4 /\ v5 # "acknowledge")
    <3>1. v7 = FALSE /\ v8 = FALSE
      BY <2>2, Zenon DEF RtlProof, PacketsRight, InterruptsRight
    <3>2. v3 # <<>> => Tail(v3) = <<>> /\ "ROK" \in v4 /\ v5 # "acknowledge"
      BY <3>1 DEF RtlProof, InterruptsRight
    <3>3. ASSUME v3 # <<>>, Tail(v3) = <<>> PROVE Len(v3) = 1
      <4>1. Len(Tail(v3)) = Len(v3) - 1 /\ Len(v3) \in Nat
        BY <1>2, <3>3, HeadTailProperties
      <4>2. Len(<<>>) = 0
        OBVIOUS
      <4> QED
        BY <3>3, <4>1, <4>2
    <3>4. v3 = <<>> => Len(v3) = 0
      OBVIOUS
    <3> QED
      BY <3>2, <3>3, <3>4
  <2> QED
    BY <2>1, <2>2 DEF Rtl8139!NoneForgotten
<1>7. Rtl8139!SlotsInTurn
  <2>1. ASSUME v12 = "kept"
        PROVE  \E n \in 0 .. TxSlots : /\ v11 = {(v10 + k) % TxSlots : k \in 0 .. n - 1}
                                      /\ v9 = (v10 + n) % TxSlots
    BY <2>1 DEF RtlProof, SlotsRight, InTurn
  <2> QED
    BY <2>1 DEF Rtl8139!SlotsInTurn
<1> QED
  BY <1>4, <1>5, <1>6, <1>7 DEF Rtl8139!RtlInv

(* Whatever frames come and are sent, the RTL8139's driver reads packets   *)
(* where the card has written them, forgets none that had an interrupt of  *)
(* its own and sends through the card's registers in their turn            *)
(* (rtl8139.cpp), and the am79c973's driver keeps whole only the frame     *)
(* that came last (amd_am79c973.cpp); each with the exceptions its module  *)
(* states.                                                                 *)
THEOREM CardsStayRight == Spec => []CardRight
<1> DEFINE Inv == /\ part = "Rtl8139" => RtlProof
                  /\ part = "AmdBuffers" => BuffersProof
<1>1. Init => Inv
  <2> SUFFICES ASSUME Init PROVE Inv
    OBVIOUS
  <2>1. ASSUME part = "Rtl8139" PROVE RtlProof
    <3>1. Rtl8139!Init
      BY <2>1 DEF Init
    <3> QED
      BY <3>1, ConstantsAssumption, RtlInit
  <2>2. ASSUME part = "AmdBuffers" PROVE BuffersProof
    <3>1. AmdBuffers!Init
      BY <2>2 DEF Init
    <3> QED
      BY <3>1, ConstantsAssumption, BuffersInit
  <2> QED
    BY <2>1, <2>2
<1>2. Inv /\ [Next]_all => Inv'
  <2> SUFFICES ASSUME Inv, [Next]_all PROVE Inv'
    OBVIOUS
  <2>1. part' = part
    BY DEF Next, all
  <2>2. ASSUME part = "Rtl8139" PROVE RtlProof'
    <3>1. [Rtl8139!Next]_(Rtl8139!vars)
      BY <2>2 DEF Next, all, rest2, rest3, rest4, rest6, rest9, rest11, rest12,
           Rtl8139!vars, Rtl8139!rx, Rtl8139!tx
    <3> QED
      BY <2>2, <3>1, ConstantsAssumption, RtlStep
  <2>3. ASSUME part = "AmdBuffers" PROVE BuffersProof'
    <3>1. [AmdBuffers!Next]_(AmdBuffers!vars)
      BY <2>3 DEF Next, all, rest2, rest3, AmdBuffers!vars
    <3> QED
      BY <2>3, <3>1, ConstantsAssumption, BuffersStep
  <2> QED
    BY <2>1, <2>2, <2>3
<1>3. Inv => CardRight
  BY ConstantsAssumption, RtlSuffices, BuffersSuffices DEF CardRight
<1> QED
  BY <1>1, <1>2, <1>3, PTL DEF Spec, all

----------------------------------------------------------------------------
(* The rings of the am79c973.  The lemmas are about counting round a ring. *)
USE AmdRingAssumption

(* The k-th descriptor from a, without the remainder.                      *)
LEMMA Around ==
    ASSUME NEW a \in Slots, NEW k \in 0 .. N
    PROVE  /\ (a + k) % N = IF a + k < N THEN a + k ELSE a + k - N
           /\ (a + k) % N \in Slots
BY Turn DEF Slots

(* The next descriptor, without the remainder.                             *)
LEMMA AfterIsNext ==
    ASSUME NEW a \in Slots
    PROVE  /\ After(a) = IF a + 1 < N THEN a + 1 ELSE 0
           /\ After(a) \in Slots
<1>1. 1 \in 0 .. N
  OBVIOUS
<1>2. /\ (a + 1) % N = IF a + 1 < N THEN a + 1 ELSE a + 1 - N
      /\ (a + 1) % N \in Slots
  BY <1>1, Around
<1> QED
  BY <1>2 DEF After, Slots

----------------------------------------------------------------------------
(* The receive ring: RecvRingInv is inductive.                             *)

(* Two descriptors less than a ring apart are different ones.              *)
LEMMA Different ==
    ASSUME NEW a \in Slots, NEW k \in 0 .. N - 1, NEW j \in 0 .. N - 1,
           (a + k) % N = (a + j) % N
    PROVE  k = j
<1>1. k \in 0 .. N /\ j \in 0 .. N
  OBVIOUS
<1>2. /\ (a + k) % N = IF a + k < N THEN a + k ELSE a + k - N
      /\ (a + j) % N = IF a + j < N THEN a + j ELSE a + j - N
  BY <1>1, Around
<1> QED
  BY <1>2, AmdRingAssumption DEF Slots

(* What the card owns holds no frame.                                      *)
LEMMA CardIsNoFrame == Card \notin Frames
BY DEF Card, Frame, Frames, RecvNumbers

(* Going no step, and going once round, lead back.                         *)
LEMMA Here ==
    ASSUME NEW a \in Slots, NEW k \in 0 .. N, k = 0 \/ k = N
    PROVE  (a + k) % N = a
<1>1. (a + k) % N = IF a + k < N THEN a + k ELSE a + k - N
  BY Around
<1> QED
  BY <1>1 DEF Slots

(* From the next descriptor k steps are from this one k + 1.               *)
LEMMA OneFurther ==
    ASSUME NEW a \in Slots, NEW k \in 0 .. N - 1
    PROVE  (After(a) + k) % N = (a + (k + 1)) % N
<1>1. k \in 0 .. N /\ k + 1 \in 0 .. N
  OBVIOUS
<1>2. /\ After(a) \in Slots
      /\ After(a) = IF a + 1 < N THEN a + 1 ELSE 0
  BY AfterIsNext
<1> DEFINE m == k + 1
<1>3. (After(a) + k) % N = IF After(a) + k < N THEN After(a) + k ELSE After(a) + k - N
  BY <1>1, <1>2, Around
<1>4. (a + m) % N = IF a + m < N THEN a + m ELSE a + m - N
  BY <1>1, Around
<1>5. (IF After(a) + k < N THEN After(a) + k ELSE After(a) + k - N)
      = IF a + m < N THEN a + m ELSE a + m - N
  BY <1>2 DEF Slots
<1> QED
  BY <1>3, <1>4, <1>5

(* Every descriptor is some number of steps from a given one.              *)
LEMMA Reachable ==
    ASSUME NEW a \in Slots, NEW b \in Slots
    PROVE  \E k \in Slots : (a + k) % N = b
<1> DEFINE k == IF b >= a THEN b - a ELSE b - a + N
<1>1. k \in Slots /\ k \in 0 .. N
  BY DEF Slots
<1>2. (a + k) % N = IF a + k < N THEN a + k ELSE a + k - N
  BY <1>1, Around
<1>3. (IF a + k < N THEN a + k ELSE a + k - N) = b
  BY DEF Slots
<1> QED
  BY <1>1, <1>2, <1>3

(* What the driver's descriptor holds: the oldest frame, if there is one.  *)
LEMMA Front ==
    ASSUME RecvRingInv
    PROVE  recvBufferDescr[currentRecvBuffer] = IF 0 < Len(pending) THEN pending[1] ELSE Card
<1> USE DEF RecvRingInv, RecvTypeOK
<1>1. PICK k \in Slots : k = 0
  BY DEF Slots
<1>2. k \in 0 .. N
  BY DEF Slots
<1>3. (currentRecvBuffer + k) % N = currentRecvBuffer
  BY <1>1, <1>2, Here
<1>4. recvBufferDescr[(currentRecvBuffer + k) % N] = IF k < Len(pending) THEN pending[k + 1] ELSE Card
  BY DEF RingHoldsPending
<1>5. k + 1 = 1
  BY <1>1
<1> QED
  BY <1>1, <1>3, <1>4, <1>5

(* A frame that finds its descriptor free finds the ring not full.         *)
LEMMA RoomForOne ==
    ASSUME RecvRingInv, recvBufferDescr[cardFills] = Card
    PROVE  Len(pending) < N
<1> USE DEF RecvRingInv, RecvTypeOK, RingHoldsPending
<1> SUFFICES ASSUME Len(pending) = N PROVE FALSE
  OBVIOUS
<1>1. Len(pending) \in 0 .. N
  OBVIOUS
<1>2. cardFills = currentRecvBuffer
  BY <1>1, Here
<1>3. recvBufferDescr[currentRecvBuffer] = pending[1]
  BY Front
<1>4. pending[1] \in Frames
  OBVIOUS
<1> QED
  BY <1>2, <1>3, <1>4, CardIsNoFrame

(* What the card receives is a frame.                                      *)
LEMMA FramesAreFrames ==
    ASSUME RecvTypeOK, NEW kind \in Kinds
    PROVE  Frame(nextIn, kind) \in Frames
BY DEF RecvTypeOK, Frame, Frames

(* The card fills the first descriptor behind the frames in the ring.      *)
LEMMA ArriveKeeps ==
    ASSUME RecvRingInv, NEW kind \in Kinds, Arrive(kind)
    PROVE  RecvRingInv'
<1> USE DEF RecvRingInv
<1> DEFINE f == Frame(nextIn, kind)
<1> DEFINE len == Len(pending)
<1>1. f \in Frames
  BY FramesAreFrames
<1>2. /\ len \in Nat /\ len < N
      /\ pending' = Append(pending, f) /\ pending \in Seq(Frames)
  BY RoomForOne DEF RecvTypeOK, Arrive
<1>3. RecvTypeOK'
  <2>1. After(cardFills) \in Slots
    BY AfterIsNext DEF RecvTypeOK
  <2>2. (nextIn + 1) % RecvNumbers \in 0 .. RecvNumbers - 1
    BY DEF RecvNumbers, RecvTypeOK
  <2>3. pending' \in Seq(Frames)
    BY <1>1, <1>2
  <2> QED
    BY <1>1, <2>1, <2>2, <2>3 DEF Arrive, Bits, RecvTypeOK
<1>4. /\ Len(pending') = len + 1
      /\ \A j \in 1 .. len : pending'[j] = pending[j]
      /\ pending'[len + 1] = f
  BY <1>1, <1>2
<1>5. cardFills' = (currentRecvBuffer' + Len(pending')) % N
  <2>1. cardFills = (currentRecvBuffer + len) % N
    BY DEF RingHoldsPending
  <2>2. After(cardFills) = IF cardFills + 1 < N THEN cardFills + 1 ELSE 0
    BY AfterIsNext DEF RecvTypeOK
  <2>3. cardFills = IF currentRecvBuffer + len < N THEN currentRecvBuffer + len
                 ELSE currentRecvBuffer + len - N
    <3>1. len \in 0 .. N /\ currentRecvBuffer \in Slots
      BY <1>2 DEF RecvTypeOK
    <3> HIDE DEF len
    <3> QED
      BY <2>1, <3>1, Around
  <2> DEFINE m == len + 1
  <2>4. m \in 0 .. N /\ currentRecvBuffer \in Slots
    BY <1>2 DEF RecvTypeOK
  <2>5. (currentRecvBuffer + m) % N =
           IF currentRecvBuffer + m < N THEN currentRecvBuffer + m
           ELSE currentRecvBuffer + m - N
    BY <2>4, Around
  <2>6. After(cardFills) = (currentRecvBuffer + m) % N
    BY <1>2, <2>2, <2>3, <2>5 DEF RecvTypeOK, Slots
  <2> QED
    BY <1>4, <2>6 DEF Arrive
<1>6. ASSUME NEW k \in Slots
      PROVE  recvBufferDescr'[(currentRecvBuffer' + k) % N] =
                IF k < Len(pending') THEN pending'[k + 1] ELSE Card
  <2> DEFINE at == (currentRecvBuffer + k) % N
  <2>1. /\ k \in 0 .. N /\ k \in 0 .. N - 1 /\ len \in 0 .. N - 1
        /\ currentRecvBuffer \in Slots
    BY <1>2 DEF Slots, RecvTypeOK
  <2>2. at \in Slots
    BY <2>1, Around
  <2>3. recvBufferDescr[at] = IF k < len THEN pending[k + 1] ELSE Card
    BY DEF RingHoldsPending
  <2>4. recvBufferDescr'[at] = IF at = cardFills THEN f ELSE recvBufferDescr[at]
    BY <2>2 DEF Arrive, RecvTypeOK
  <2>5. at = cardFills <=> k = len
    BY <2>1, Different DEF RingHoldsPending
  <2>6. (currentRecvBuffer' + k) % N = at
    BY DEF Arrive
  <2>7. len \in Nat /\ k \in Nat
    BY <1>2 DEF Slots
  <2> HIDE DEF at, len, f
  <2>8. CASE k < len
    BY <2>3, <2>4, <2>5, <2>6, <2>7, <2>8, <1>4
  <2>9. CASE k = len
    BY <2>4, <2>5, <2>6, <2>7, <2>9, <1>4
  <2>10. CASE k > len
    BY <2>3, <2>4, <2>5, <2>6, <2>7, <2>10, <1>4
  <2> QED
    BY <2>7, <2>8, <2>9, <2>10
<1> HIDE DEF RecvRingInv
<1>7. Len(pending') <= N
  BY <1>2, <1>4
<1>8. \A k \in Slots : recvBufferDescr'[(currentRecvBuffer' + k) % N] =
                          IF k < Len(pending') THEN pending'[k + 1] ELSE Card
  BY <1>6
<1>9. RingHoldsPending'
  BY ONLY <1>5, <1>7, <1>8 DEF RingHoldsPending
<1> QED
  BY <1>3, <1>9 DEF RecvRingInv

(* One turn of Receive's loop takes the oldest frame out.                  *)
LEMMA TakeKeeps ==
    ASSUME RecvRingInv, Take
    PROVE  RecvRingInv'
<1> USE DEF RecvRingInv
<1> DEFINE len == Len(pending)
<1> DEFINE next == After(currentRecvBuffer)
<1>1. 0 < len /\ len \in Nat /\ len <= N /\ pending \in Seq(Frames) /\ currentRecvBuffer \in Slots
  BY Front DEF Take, RingHoldsPending, RecvTypeOK
<1>2. /\ pending' = Tail(pending)
      /\ Tail(pending) \in Seq(Frames)
      /\ Len(Tail(pending)) = len - 1
      /\ \A k \in 1 .. len - 1 : Tail(pending)[k] = pending[k + 1]
  BY <1>1 DEF Take
<1>3. next \in Slots
  BY <1>1, AfterIsNext
<1>4. RecvTypeOK'
  BY <1>2, <1>3 DEF Take, Release, RecvTypeOK
<1>5. cardFills' = (currentRecvBuffer' + Len(pending')) % N
  <2> DEFINE m == len - 1
  <2>1. m \in 0 .. N - 1 /\ m + 1 = len
    BY <1>1
  <2> HIDE DEF m
  <2>2. (next + m) % N = (currentRecvBuffer + (m + 1)) % N
    BY <1>1, <2>1, OneFurther
  <2>3. cardFills' = (currentRecvBuffer + len) % N
    BY DEF Take, RingHoldsPending
  <2>4. Len(pending') = m
    BY <1>2 DEF m
  <2>5. currentRecvBuffer' = next
    BY DEF Take, Release
  <2> QED
    BY <2>1, <2>2, <2>3, <2>4, <2>5
<1>6. ASSUME NEW k \in Slots
      PROVE  recvBufferDescr'[(currentRecvBuffer' + k) % N] =
                IF k < Len(pending') THEN pending'[k + 1] ELSE Card
  <2> DEFINE at == (currentRecvBuffer + (k + 1)) % N
  <2>1. k \in 0 .. N - 1 /\ k + 1 \in 0 .. N
    BY DEF Slots
  <2>2. (currentRecvBuffer' + k) % N = at
    BY <1>1, <2>1, OneFurther DEF Take, Release
  <2>3. at \in Slots
    <3> DEFINE m == k + 1
    <3>1. (currentRecvBuffer + m) % N \in Slots
      BY <1>1, <2>1, Around
    <3> QED
      BY <3>1
  <2>4. recvBufferDescr'[at] = IF at = currentRecvBuffer THEN Card ELSE recvBufferDescr[at]
    BY <2>3 DEF Take, Release, RecvTypeOK
  <2>5. CASE k = N - 1
    <3> DEFINE m == k + 1
    <3>1. (currentRecvBuffer + m) % N = currentRecvBuffer
      BY <1>1, <2>1, <2>5, Here
    <3>2. recvBufferDescr'[at] = Card
      BY <2>4, <3>1
    <3>3. ~(k < Len(pending'))
      BY <1>1, <1>2, <2>5
    <3> QED
      BY <2>2, <3>2, <3>3
  <2>6. CASE k # N - 1
    <3> DEFINE m == k + 1
    <3>1. m \in Slots /\ m \in 0 .. N - 1
      BY <2>1, <2>6 DEF Slots
    <3>2. (currentRecvBuffer + m) % N # currentRecvBuffer
      <4>1. (currentRecvBuffer + m) % N =
               IF currentRecvBuffer + m < N THEN currentRecvBuffer + m
               ELSE currentRecvBuffer + m - N
        BY <1>1, <2>1, Around
      <4> QED
        BY <1>1, <2>1, <3>1, <4>1 DEF Slots
    <3>3. recvBufferDescr[(currentRecvBuffer + m) % N] = IF m < len THEN pending[m + 1] ELSE Card
      BY <3>1 DEF RingHoldsPending
    <3>4. recvBufferDescr'[at] = IF m < len THEN pending[m + 1] ELSE Card
      BY <2>4, <3>2, <3>3
    <3>5. Len(pending') = len - 1
      BY <1>2
    <3>6. m < len <=> k < Len(pending')
      BY <1>1, <2>1, <3>5
    <3>7. m < len => pending'[k + 1] = pending[m + 1]
      BY <1>1, <1>2, <2>1
    <3> QED
      BY <2>2, <3>4, <3>6, <3>7
  <2> QED
    BY <2>5, <2>6
<1> HIDE DEF RecvRingInv
<1>7. Len(pending') <= N
  BY <1>1, <1>2
<1>8. \A k \in Slots : recvBufferDescr'[(currentRecvBuffer' + k) % N] =
                          IF k < Len(pending') THEN pending'[k + 1] ELSE Card
  BY <1>6
<1>9. RingHoldsPending'
  BY ONLY <1>5, <1>7, <1>8 DEF RingHoldsPending
<1> QED
  BY <1>4, <1>9 DEF RecvRingInv

(* Whatever card and handler do, the ring stays right: only Arrive and     *)
(* Take touch it.                                                          *)
LEMMA RecvRingStep == RecvRingInv /\ [RecvNext]_recvVars => RecvRingInv'
<1> SUFFICES ASSUME RecvRingInv, [RecvNext]_recvVars PROVE RecvRingInv'
  OBVIOUS
<1> USE DEF RecvRingInv, ringVars
<1>1. ASSUME NEW kind \in Kinds, Arrive(kind) PROVE RecvRingInv'
  BY <1>1, ArriveKeeps
<1>2. CASE Take
  BY <1>2, TakeKeeps
<1>3. ASSUME UNCHANGED ringVars, csr' \subseteq Bits, temp' \subseteq Bits,
             pc' \in {"out", "receive", "acknowledge"}, raced' \in BOOLEAN
      PROVE  RecvRingInv'
  BY <1>3 DEF RecvTypeOK, RingHoldsPending
<1>4. CASE Miss
  BY <1>3, <1>4 DEF Miss, Bits, RecvTypeOK
<1>5. CASE Sent
  BY <1>3, <1>5 DEF Sent, Bits, RecvTypeOK
<1>6. CASE Enter
  BY <1>3, <1>6 DEF Enter, RecvTypeOK
<1>7. CASE Drained
  BY <1>3, <1>7 DEF Drained, RecvTypeOK
<1>8. CASE Acknowledge
  BY <1>3, <1>8 DEF Acknowledge, Cleared, RecvTypeOK
<1>9. CASE UNCHANGED recvVars
  BY <1>3, <1>9 DEF recvVars, RecvTypeOK
<1> QED
  BY <1>1, <1>2, <1>4, <1>5, <1>6, <1>7, <1>8, <1>9 DEF RecvNext, Traffic, HandleInterrupt

(* At first the ring is empty.                                             *)
LEMMA ReceiveInit == RecvInit => RecvRingInv
<1> SUFFICES ASSUME RecvInit PROVE RecvRingInv
  OBVIOUS
<1> USE DEF RecvInit
<1>1. 0 \in Slots /\ 0 \in 0 .. N
  BY DEF Slots
<1>2. RecvTypeOK
  BY <1>1 DEF RecvTypeOK, Bits, RecvNumbers
<1>3. Len(pending) = 0
  OBVIOUS
<1>4. cardFills = (currentRecvBuffer + Len(pending)) % N
  <2>1. PICK k \in 0 .. N : k = 0
    OBVIOUS
  <2>2. (currentRecvBuffer + k) % N = currentRecvBuffer
    BY <1>1, <2>1, Here
  <2> QED
    BY <1>3, <2>1, <2>2
<1>5. ASSUME NEW k \in Slots
      PROVE  recvBufferDescr[(currentRecvBuffer + k) % N] = IF k < Len(pending) THEN pending[k + 1] ELSE Card
  <2>1. currentRecvBuffer \in Slots /\ k \in 0 .. N /\ ~(k < Len(pending))
    BY <1>1, <1>3 DEF Slots
  <2>2. (currentRecvBuffer + k) % N \in Slots
    BY <2>1, Around
  <2> HIDE DEF RecvInit
  <2>3. recvBufferDescr = [i \in Slots |-> Card]
    BY DEF RecvInit
  <2> QED
    BY <2>1, <2>2, <2>3
<1> QED
  BY <1>2, <1>3, <1>4, <1>5 DEF RecvRingInv, RingHoldsPending

(* In every reachable state, for every number of descriptors, the ring     *)
(* holds just the frames that Receive has not handled, in order, from      *)
(* currentRecvBuffer on: no frame is skipped, repeated or overwritten.     *)
THEOREM ReceiveRingIsRight == RecvSpec => []RecvRingInv
BY ReceiveInit, RecvRingStep, PTL DEF RecvSpec

----------------------------------------------------------------------------
(* The send ring.                                                          *)

(* How far descriptor i is ahead of c, and frame no of frame d.            *)
Ahead(c, i)  == IF i >= c THEN i - c ELSE i - c + N
Later(d, no) == IF no >= d THEN no - d ELSE no - d + SendNumbers

(* The k-th frame from the one due is that of the application's Send.      *)
Under(k) == app.at # "idle" /\ Later(due, app.no) = k

(* The driver's index is where the next frame goes, or, before Bump, where *)
(* the application's goes.                                                 *)
IndexRight(n) ==
    /\ app.at = "bump" => Under(n - 1) /\ app.slot = currentSendBuffer
    /\ app.at # "bump" => Ahead(cardSends, currentSendBuffer) \in {n, n - N}

(* The frame under way is one of the n, and its descriptor is as far       *)
(* ahead, round the ring, as the frame is later.                           *)
SlotRight(n) ==
    app.at # "idle" =>
        /\ Later(due, app.no) < n
        /\ Ahead(cardSends, app.slot) \in {Later(due, app.no), Later(due, app.no) - N}

(* The card owns the descriptors of the n frames that are not sent, but    *)
(* for the one under way, and they hold them in order.                     *)
Owned(n) == \A i \in Slots : \A k \in 0 .. N - 1 : k = Ahead(cardSends, i) =>
    /\ sendBufferDescr[i] # None <=> k < n /\ ~Under(k)
    /\ sendBufferDescr[i] # None => Later(due, sendBufferDescr[i]) = k

(* With n frames not sent.  They can be one more than the ring holds, when *)
(* the application's Send runs into the end of it.                         *)
CountRight(n) ==
    /\ n = N + 1 => Under(N)
    /\ IndexRight(n) /\ SlotRight(n) /\ Owned(n)

(* The inductive invariant.                                                *)
SendProof ==
    /\ SendTypeOK
    /\ order # "broken"
    /\ order = "kept" =>
          \E n \in 0 .. N + 1 : n = Later(due, nextOut) /\ CountRight(n)

----------------------------------------------------------------------------
(* Differences round the ring, and of the frames' numbers.                 *)
LEMMA Differences ==
    /\ \A c, i \in Slots : Ahead(c, i) \in 0 .. N - 1
    /\ \A c, i, j \in Slots : Ahead(c, i) = Ahead(c, j) => i = j
    /\ \A c, i \in Slots : Ahead(c, i) = 0 <=> i = c
    /\ \A d, no \in 0 .. SendNumbers - 1 : Later(d, no) \in 0 .. N + 1
    /\ \A d, no \in 0 .. SendNumbers - 1 : Later(d, no) = 0 <=> no = d
    /\ \A d, no, nr \in 0 .. SendNumbers - 1 : Later(d, no) = Later(d, nr) => no = nr
BY DEF Ahead, Later, Slots, SendNumbers

(* The number after a number, without the remainder.                       *)
LEMMA IncrementedIsNext ==
    ASSUME NEW no \in 0 .. SendNumbers - 1
    PROVE  /\ Incremented(no) = IF no = SendNumbers - 1 THEN 0 ELSE no + 1
           /\ Incremented(no) \in 0 .. SendNumbers - 1
<1>1. SendNumbers \in Nat \ {0} /\ 1 \in 0 .. SendNumbers
  BY DEF SendNumbers
<1>2. (no + 1) % SendNumbers = IF no + 1 < SendNumbers THEN no + 1 ELSE no + 1 - SendNumbers
  BY <1>1, Turn
<1> QED
  BY <1>1, <1>2 DEF Incremented

(* The next descriptor is one further ahead, and one less ahead when the   *)
(* card has moved on.                                                      *)
LEMMA AheadMoves ==
    ASSUME NEW c \in Slots, NEW i \in Slots
    PROVE  /\ After(i) \in Slots
           /\ Ahead(c, After(i)) = IF Ahead(c, i) = N - 1 THEN 0 ELSE Ahead(c, i) + 1
           /\ Ahead(After(c), i) = IF Ahead(c, i) = 0 THEN N - 1 ELSE Ahead(c, i) - 1
<1>1. \A a \in Slots : After(a) = (IF a + 1 < N THEN a + 1 ELSE 0) /\ After(a) \in Slots
  BY AfterIsNext
<1> QED
  BY <1>1 DEF Ahead, Slots

(* So for the numbers.                                                     *)
LEMMA LaterMoves ==
    ASSUME NEW d \in 0 .. SendNumbers - 1, NEW no \in 0 .. SendNumbers - 1
    PROVE  /\ Incremented(no) \in 0 .. SendNumbers - 1
           /\ Later(d, Incremented(no)) = IF Later(d, no) = N + 1 THEN 0 ELSE Later(d, no) + 1
           /\ Later(Incremented(d), no) = IF Later(d, no) = 0 THEN N + 1 ELSE Later(d, no) - 1
<1>1. \A n \in 0 .. SendNumbers - 1 :
         /\ Incremented(n) = IF n = SendNumbers - 1 THEN 0 ELSE n + 1
         /\ Incremented(n) \in 0 .. SendNumbers - 1
  BY IncrementedIsNext
<1> QED
  BY <1>1 DEF Later, SendNumbers

(* Every step keeps the types.                                             *)
LEMMA SendTyped == SendTypeOK /\ [SendNext]_sendVars => SendTypeOK'
<1> SUFFICES ASSUME SendTypeOK, [SendNext]_sendVars PROVE SendTypeOK'
  OBVIOUS
<1>1. /\ \A i \in Slots : After(i) \in Slots
      /\ \A no \in 0 .. SendNumbers - 1 : Incremented(no) \in 0 .. SendNumbers - 1
      /\ None \in -1 .. SendNumbers - 1 /\ 0 .. SendNumbers - 1 \subseteq -1 .. SendNumbers - 1
      /\ Idle \in [at : {"idle", "bump", "fill"}, slot : Slots, no : 0 .. SendNumbers - 1]
  BY AheadMoves, LaterMoves DEF None, SendNumbers, Idle, Slots
<1> USE <1>1 DEF SendTypeOK
<1>2. CASE Transmit
  BY <1>2 DEF Transmit
<1>3. CASE Pick
  BY <1>3 DEF Pick, cardVars
<1>4. CASE Bump
  <2>1. app' = [at |-> "fill", slot |-> app.slot, no |-> app.no]
    BY <1>4 DEF Bump
  <2> QED
    BY <1>4, <2>1 DEF Bump, cardVars
<1>5. CASE Fill
  BY <1>5 DEF Fill, cardVars, Excuse
<1>6. CASE Reply
  <2>1. order' \in {"kept", "crossed", "overrun", "broken"}
    <3>1. CASE app.at = "bump"
      BY <1>6, <3>1 DEF Reply, Excuse
    <3>2. CASE app.at # "bump" /\ Given(currentSendBuffer)
      BY <1>6, <3>2 DEF Reply, Excuse
    <3>3. CASE app.at # "bump" /\ ~Given(currentSendBuffer)
      BY <1>6, <3>3 DEF Reply, Excuse
    <3> QED
      BY <3>1, <3>2, <3>3
  <2>2. /\ currentSendBuffer' \in Slots
        /\ sendBufferDescr' = [sendBufferDescr EXCEPT ![currentSendBuffer] = nextOut]
        /\ nextOut' = Incremented(nextOut)
        /\ UNCHANGED <<cardSends, due, app>>
    BY <1>6 DEF Reply, cardVars
  <2> QED
    BY <2>1, <2>2
<1>7. CASE UNCHANGED sendVars
  BY <1>7 DEF sendVars, cardVars
<1> QED
  BY <1>2, <1>3, <1>4, <1>5, <1>6, <1>7 DEF SendNext, Send

(* The card sends the frame that is due.                                   *)
LEMMA TransmitKeeps ==
    ASSUME SendProof, order = "kept", Transmit
    PROVE  /\ order' = "kept"
           /\ \E n \in 0 .. N + 1 : n = Later(due', nextOut') /\ CountRight(n)'
<1>1. PICK n \in 0 .. N + 1 : n = Later(due, nextOut) /\ CountRight(n)
  BY DEF SendProof
<1>2. /\ cardSends \in Slots /\ currentSendBuffer \in Slots /\ app.slot \in Slots
      /\ {due, nextOut, app.no} \subseteq 0 .. SendNumbers - 1
      /\ \A i \in Slots : sendBufferDescr[i] # None => sendBufferDescr[i] \in 0 .. SendNumbers - 1
      /\ sendBufferDescr \in [Slots -> -1 .. SendNumbers - 1]
  BY DEF SendProof, SendTypeOK, None
<1>3. /\ sendBufferDescr[cardSends] # None
      /\ sendBufferDescr' = [sendBufferDescr EXCEPT ![cardSends] = None]
      /\ cardSends' = After(cardSends) /\ due' = Incremented(due)
      /\ UNCHANGED <<currentSendBuffer, app, nextOut>>
      /\ sendBufferDescr[cardSends] = due => order' = "kept"
  BY DEF Transmit, SendProof
<1>4. 0 < n /\ ~Under(0) /\ order' = "kept"
  BY <1>1, <1>2, <1>3, Differences DEF CountRight, Owned
<1>5. /\ \A i \in Slots : Ahead(cardSends', i) =
               IF Ahead(cardSends, i) = 0 THEN N - 1 ELSE Ahead(cardSends, i) - 1
      /\ \A no \in 0 .. SendNumbers - 1 : Later(due', no) =
               IF Later(due, no) = 0 THEN N + 1 ELSE Later(due, no) - 1
  BY <1>2, <1>3, AheadMoves, LaterMoves
<1>6. n - 1 \in 0 .. N + 1 /\ n - 1 = Later(due', nextOut')
  BY <1>1, <1>2, <1>3, <1>4, <1>5
<1>7. \A k \in 0 .. N : Under(k)' <=> Under(k + 1)
  BY <1>2, <1>3, <1>4, <1>5, Differences DEF Under
<1>8. IndexRight(n - 1)'
  <2>1. ASSUME app.at = "bump" PROVE Under(n - 2)' /\ app'.slot = currentSendBuffer'
    <3>1. Under(n - 1) /\ app.slot = currentSendBuffer
      BY <1>1, <2>1 DEF CountRight, IndexRight
    <3>2. n - 2 \in 0 .. N /\ (n - 2) + 1 = n - 1
      BY <1>4, <3>1
    <3> QED
      BY <1>3, <1>7, <3>1, <3>2
  <2>2. ASSUME app.at # "bump"
        PROVE  Ahead(cardSends', currentSendBuffer') \in {n - 1, n - 1 - N}
    <3>1. Ahead(cardSends, currentSendBuffer) \in {n, n - N}
      BY <1>1, <2>2 DEF CountRight, IndexRight
    <3> QED
      BY <1>2, <1>3, <1>4, <1>5, <3>1, Differences
  <2>3. (n - 1) - 1 = n - 2
    OBVIOUS
  <2> QED
    BY <1>3, <2>1, <2>2, <2>3 DEF IndexRight
<1>9. SlotRight(n - 1)'
  <2>1. /\ Later(due', app.no) = IF Later(due, app.no) = 0 THEN N + 1 ELSE Later(due, app.no) - 1
        /\ Ahead(cardSends', app.slot) =
               IF Ahead(cardSends, app.slot) = 0 THEN N - 1 ELSE Ahead(cardSends, app.slot) - 1
        /\ Later(due, app.no) \in 0 .. N + 1 /\ Ahead(cardSends, app.slot) \in 0 .. N - 1
    BY <1>2, <1>5, Differences
  <2>2. app.at # "idle" => Later(due, app.no) # 0
    BY <1>4 DEF Under
  <2> QED
    BY <1>1, <1>3, <2>1, <2>2 DEF CountRight, SlotRight
<1>10. Owned(n - 1)'
  <2> SUFFICES ASSUME NEW i \in Slots, NEW k \in 0 .. N - 1, k = Ahead(cardSends', i)
               PROVE  /\ sendBufferDescr'[i] # None <=> k < n - 1 /\ ~Under(k)'
                      /\ sendBufferDescr'[i] # None => Later(due', sendBufferDescr'[i]) = k
    BY DEF Owned
  <2>1. sendBufferDescr'[i] = IF i = cardSends THEN None ELSE sendBufferDescr[i]
    BY <1>2, <1>3
  <2>2. CASE i = cardSends
    <3>1. k = N - 1
      BY <1>2, <1>5, <2>2, Differences
    <3>2. Under(k)' <=> Under(N)
      BY <1>7, <3>1
    <3>3. k < n - 1 => n = N + 1
      BY <3>1
    <3> QED
      BY <1>1, <2>1, <2>2, <3>2, <3>3 DEF CountRight
  <2>3. CASE i # cardSends
    <3>1. k + 1 = Ahead(cardSends, i) /\ k + 1 \in 0 .. N - 1
      BY <1>2, <1>5, <2>3, Differences
    <3>2. /\ sendBufferDescr[i] # None <=> k + 1 < n /\ ~Under(k + 1)
          /\ sendBufferDescr[i] # None => Later(due, sendBufferDescr[i]) = k + 1
      BY <1>1, <3>1 DEF CountRight, Owned
    <3>3. Under(k)' <=> Under(k + 1)
      BY <1>7
    <3>4. sendBufferDescr[i] # None => Later(due', sendBufferDescr[i]) = k
      BY <1>2, <1>5, <3>2
    <3>5. k < n - 1 <=> k + 1 < n
      OBVIOUS
    <3> QED
      BY <2>1, <2>3, <3>2, <3>3, <3>4, <3>5
  <2> QED
    BY <2>2, <2>3
<1>11. n - 1 # N + 1
  OBVIOUS
<1> QED
  BY <1>4, <1>6, <1>8, <1>9, <1>10, <1>11 DEF CountRight

(* The application's Send takes the descriptor after the last frame.       *)
LEMMA PickKeeps ==
    ASSUME SendProof, order = "kept", Pick
    PROVE  \E n \in 0 .. N + 1 : n = Later(due', nextOut') /\ CountRight(n)'
<1>1. PICK n \in 0 .. N + 1 : n = Later(due, nextOut) /\ CountRight(n)
  BY DEF SendProof
<1>2. /\ cardSends \in Slots /\ currentSendBuffer \in Slots
      /\ {due, nextOut} \subseteq 0 .. SendNumbers - 1
  BY DEF SendProof, SendTypeOK
<1>3. /\ app.at = "idle"
      /\ app' = [at |-> "bump", slot |-> currentSendBuffer, no |-> nextOut]
      /\ nextOut' = Incremented(nextOut)
      /\ UNCHANGED <<sendBufferDescr, currentSendBuffer, cardSends, due>>
  BY DEF Pick, cardVars
<1>4. n # N + 1 /\ \A k : ~Under(k)
  BY <1>1, <1>3 DEF CountRight, Under
<1>5. n + 1 \in 0 .. N + 1 /\ n + 1 = Later(due', nextOut')
  BY <1>1, <1>2, <1>3, <1>4, LaterMoves
<1>6. \A k : Under(k)' <=> k = n
  BY <1>1, <1>3 DEF Under
<1>7. IndexRight(n + 1)'
  BY <1>3, <1>6 DEF IndexRight
<1>8. SlotRight(n + 1)'
  <2>1. Ahead(cardSends, currentSendBuffer) \in {n, n - N}
    BY <1>1, <1>3 DEF CountRight, IndexRight
  <2> QED
    BY <1>1, <1>3, <2>1 DEF SlotRight
<1>9. Owned(n + 1)'
  <2>1. ASSUME NEW k \in 0 .. N - 1 PROVE k < n + 1 /\ k # n <=> k < n
    OBVIOUS
  <2> QED
    BY <1>1, <1>3, <1>4, <1>6, <2>1 DEF CountRight, Owned
<1>10. n + 1 = N + 1 => Under(N)'
  BY <1>6
<1> QED
  BY <1>5, <1>7, <1>8, <1>9, <1>10 DEF CountRight

(* Then it advances the index.                                             *)
LEMMA BumpKeeps ==
    ASSUME SendProof, order = "kept", Bump
    PROVE  \E n \in 0 .. N + 1 : n = Later(due', nextOut') /\ CountRight(n)'
<1>1. PICK n \in 0 .. N + 1 : n = Later(due, nextOut) /\ CountRight(n)
  BY DEF SendProof
<1>2. cardSends \in Slots /\ currentSendBuffer \in Slots
  BY DEF SendProof, SendTypeOK
<1>3. /\ app.at = "bump" /\ app'.at = "fill" /\ app'.slot = app.slot /\ app'.no = app.no
      /\ currentSendBuffer' = After(currentSendBuffer)
      /\ UNCHANGED <<sendBufferDescr, nextOut, cardSends, due>>
  BY DEF Bump, cardVars, SendProof, SendTypeOK
<1>4. \A k : Under(k)' <=> Under(k)
  BY <1>3 DEF Under
<1>5. IndexRight(n)'
  <2>1. Later(due, app.no) = n - 1 /\ app.slot = currentSendBuffer
    BY <1>1, <1>3 DEF CountRight, IndexRight, Under
  <2>2. Ahead(cardSends, currentSendBuffer) \in {n - 1, n - 1 - N}
    BY <1>1, <1>3, <2>1 DEF CountRight, SlotRight
  <2>3. Ahead(cardSends, After(currentSendBuffer)) \in {n, n - N}
    <3>1. PICK k \in 0 .. N - 1 : k = Ahead(cardSends, currentSendBuffer)
      BY <1>2, Differences
    <3>2. Ahead(cardSends, After(currentSendBuffer)) = IF k = N - 1 THEN 0 ELSE k + 1
      BY <1>2, <3>1, AheadMoves
    <3>3. k \in {n - 1, n - 1 - N}
      BY <2>2, <3>1
    <3> QED
      BY <3>2, <3>3, AmdSendAssumption
  <2> QED
    BY <1>3, <2>3 DEF IndexRight
<1>6. SlotRight(n)'
  BY <1>1, <1>3 DEF CountRight, SlotRight
<1>7. Owned(n)'
  BY <1>1, <1>3, <1>4 DEF CountRight, Owned
<1> QED
  BY <1>1, <1>3, <1>4, <1>5, <1>6, <1>7 DEF CountRight

(* Then it fills its descriptor, which is free or else all are given away. *)
LEMMA FillKeeps ==
    ASSUME SendProof, order = "kept", Fill
    PROVE  /\ sendBufferDescr[app.slot] # None => \A i \in Slots : Given(i)
           /\ sendBufferDescr[app.slot] = None =>
                 \E n \in 0 .. N + 1 : n = Later(due', nextOut') /\ CountRight(n)'
<1>1. PICK n \in 0 .. N + 1 : n = Later(due, nextOut) /\ CountRight(n)
  BY DEF SendProof
<1>2. /\ cardSends \in Slots /\ app.slot \in Slots
      /\ {due, app.no} \subseteq 0 .. SendNumbers - 1
      /\ sendBufferDescr \in [Slots -> -1 .. SendNumbers - 1]
  BY DEF SendProof, SendTypeOK
<1>3. /\ app.at = "fill" /\ app'.at = "idle"
      /\ sendBufferDescr' = [sendBufferDescr EXCEPT ![app.slot] = app.no]
      /\ UNCHANGED <<currentSendBuffer, nextOut, cardSends, due>>
  BY DEF Fill, cardVars, Idle
<1>4. PICK j \in 0 .. N + 1 : j = Later(due, app.no)
  BY <1>2, Differences
<1>5. PICK h \in 0 .. N - 1 : h = Ahead(cardSends, app.slot)
  BY <1>2, Differences
<1>6. j < n /\ h \in {j, j - N} /\ \A k : Under(k) <=> k = j
  BY <1>1, <1>3, <1>4, <1>5 DEF CountRight, SlotRight, Under
<1>7. sendBufferDescr[app.slot] # None <=> h < n /\ h # j
  BY <1>1, <1>2, <1>5, <1>6 DEF CountRight, Owned
<1>8. ASSUME sendBufferDescr[app.slot] # None, NEW i \in Slots PROVE Given(i)
  <2>1. j = N /\ n = N + 1
    BY <1>6, <1>7, <1>8
  <2>2. PICK k \in 0 .. N - 1 : k = Ahead(cardSends, i)
    BY <1>2, Differences
  <2>3. k < n /\ ~Under(k)
    BY <1>6, <2>1
  <2> QED
    BY <1>1, <2>2, <2>3 DEF CountRight, Owned, Given
<1>9. ASSUME sendBufferDescr[app.slot] = None PROVE CountRight(n)'
  <2>1. h = j
    BY <1>6, <1>7, <1>9
  <2>2. n # N + 1
    BY <1>1, <1>6, <2>1 DEF CountRight
  <2>3. \A k : ~Under(k)'
    BY <1>3 DEF Under
  <2>4. IndexRight(n)' /\ SlotRight(n)'
    BY <1>1, <1>3 DEF CountRight, IndexRight, SlotRight
  <2>5. Owned(n)'
    <3> SUFFICES ASSUME NEW i \in Slots, NEW k \in 0 .. N - 1, k = Ahead(cardSends, i)
                 PROVE  /\ sendBufferDescr'[i] # None <=> k < n
                        /\ sendBufferDescr'[i] # None => Later(due, sendBufferDescr'[i]) = k
      BY <1>3, <2>3 DEF Owned
    <3>1. sendBufferDescr'[i] = IF i = app.slot THEN app.no ELSE sendBufferDescr[i]
      BY <1>2, <1>3
    <3>2. CASE i = app.slot
      <4>1. k = j
        BY <1>5, <2>1, <3>2
      <4>2. app.no # None
        BY <1>2 DEF None, SendNumbers
      <4> QED
        BY <1>4, <1>6, <3>1, <3>2, <4>1, <4>2
    <3>3. CASE i # app.slot
      <4>1. Ahead(cardSends, i) # Ahead(cardSends, app.slot)
        BY <1>2, <3>3, Differences
      <4>2. k # j
        BY <1>5, <2>1, <4>1
      <4> QED
        BY <1>1, <1>6, <3>1, <3>3, <4>2 DEF CountRight, Owned
    <3> QED
      BY <3>2, <3>3
  <2> QED
    BY <2>2, <2>4, <2>5 DEF CountRight
<1> QED
  BY <1>1, <1>3, <1>8, <1>9

(* The handler's Send, unless it crosses the application's.                *)
LEMMA ReplyKeeps ==
    ASSUME SendProof, order = "kept", Reply, app.at # "bump"
    PROVE  /\ Given(currentSendBuffer) => \A i \in Slots : Given(i)
           /\ ~Given(currentSendBuffer) =>
                 \E n \in 0 .. N + 1 : n = Later(due', nextOut') /\ CountRight(n)'
<1>1. PICK n \in 0 .. N + 1 : n = Later(due, nextOut) /\ CountRight(n)
  BY DEF SendProof
<1>2. /\ cardSends \in Slots /\ currentSendBuffer \in Slots /\ app.slot \in Slots
      /\ {due, app.no, nextOut} \subseteq 0 .. SendNumbers - 1
      /\ sendBufferDescr \in [Slots -> -1 .. SendNumbers - 1]
      /\ app.at \in {"idle", "bump", "fill"}
  BY DEF SendProof, SendTypeOK
<1>3. /\ sendBufferDescr' = [sendBufferDescr EXCEPT ![currentSendBuffer] = nextOut]
      /\ currentSendBuffer' = After(currentSendBuffer)
      /\ nextOut' = Incremented(nextOut)
      /\ UNCHANGED <<cardSends, due, app>>
  BY DEF Reply, cardVars
<1>4. PICK h \in 0 .. N - 1 : h = Ahead(cardSends, currentSendBuffer)
  BY <1>2, Differences
<1>5. h \in {n, n - N}
  BY <1>1, <1>4 DEF CountRight, IndexRight
<1>6. /\ sendBufferDescr[currentSendBuffer] # None <=> h < n /\ ~Under(h)
      /\ \A i \in Slots : \A k \in 0 .. N - 1 : k = Ahead(cardSends, i) =>
            (sendBufferDescr[i] # None <=> k < n /\ ~Under(k))
  BY <1>1, <1>2, <1>4 DEF CountRight, Owned
<1>7. ASSUME NEW i \in Slots, NEW k \in 0 .. N - 1, k = Ahead(cardSends, i)
      PROVE  Given(i) <=> k < n
  <2>1. app.at = "fill" =>
           /\ Later(due, app.no) \in 0 .. N + 1 /\ Later(due, app.no) < n
           /\ Ahead(cardSends, app.slot) \in 0 .. N - 1
           /\ Ahead(cardSends, app.slot) \in {Later(due, app.no), Later(due, app.no) - N}
    BY <1>1, <1>2, Differences DEF CountRight, SlotRight
  <2>2. Given(i) => k < n
    BY <1>6, <1>7, <2>1 DEF Given
  <2>3. Under(k) => app.at = "fill" /\ Ahead(cardSends, app.slot) = k
    BY <1>2, <2>1 DEF Under
  <2>4. Under(k) => app.at = "fill" /\ app.slot = i
    BY <1>2, <1>7, <2>3, Differences
  <2> QED
    BY <1>6, <1>7, <2>2, <2>4 DEF Given
<1>8. Given(currentSendBuffer) <=> h < n
  BY <1>2, <1>4, <1>7
<1>9. ASSUME Given(currentSendBuffer), NEW i \in Slots PROVE Given(i)
  <2>1. n >= N
    BY <1>5, <1>8, <1>9
  <2>2. PICK k \in 0 .. N - 1 : k = Ahead(cardSends, i)
    BY <1>2, Differences
  <2> QED
    BY <1>7, <2>1, <2>2
<1>10. ASSUME ~Given(currentSendBuffer)
       PROVE  n + 1 \in 0 .. N + 1 /\ n + 1 = Later(due', nextOut') /\ CountRight(n + 1)'
  <2>1. h = n /\ n <= N - 1
    BY <1>5, <1>8, <1>10
  <2>2. n + 1 = Later(due', nextOut')
    BY <1>1, <1>2, <1>3, <2>1, LaterMoves
  <2>3. \A k : Under(k)' <=> Under(k)
    BY <1>3 DEF Under
  <2>4. IndexRight(n + 1)'
    <3>1. Ahead(cardSends, After(currentSendBuffer)) = IF h = N - 1 THEN 0 ELSE h + 1
      BY <1>2, <1>4, AheadMoves
    <3> QED
      BY <1>3, <2>1, <3>1 DEF IndexRight
  <2>5. SlotRight(n + 1)'
    <3>1. app.at # "idle" => Later(due, app.no) \in Nat /\ Later(due, app.no) < n
      BY <1>1, <1>2, Differences DEF CountRight, SlotRight
    <3> QED
      BY <1>1, <1>3, <3>1 DEF CountRight, SlotRight
  <2>6. Owned(n + 1)'
    <3> SUFFICES ASSUME NEW i \in Slots, NEW k \in 0 .. N - 1, k = Ahead(cardSends, i)
                 PROVE  /\ sendBufferDescr'[i] # None <=> k < n + 1 /\ ~Under(k)
                        /\ sendBufferDescr'[i] # None => Later(due, sendBufferDescr'[i]) = k
      BY <1>3, <2>3 DEF Owned
    <3>1. sendBufferDescr'[i] = IF i = currentSendBuffer THEN nextOut ELSE sendBufferDescr[i]
      BY <1>2, <1>3
    <3>2. CASE i = currentSendBuffer
      <4>1. k = n
        BY <1>4, <2>1, <3>2
      <4>2. nextOut # None
        BY <1>2 DEF None, SendNumbers
      <4>3. ~Under(n)
        BY <1>1, <1>2, Differences DEF Under, CountRight, SlotRight
      <4> QED
        BY <1>1, <3>1, <3>2, <4>1, <4>2, <4>3
    <3>3. CASE i # currentSendBuffer
      <4>1. Ahead(cardSends, i) # Ahead(cardSends, currentSendBuffer)
        BY <1>2, <3>3, Differences
      <4>2. k # n
        BY <1>4, <2>1, <4>1
      <4>3. k < n + 1 <=> k < n
        BY <4>2
      <4> QED
        BY <1>1, <3>1, <3>3, <4>3 DEF CountRight, Owned
    <3> QED
      BY <3>2, <3>3
  <2>7. n + 1 = N + 1 => FALSE
    BY <2>1
  <2> QED
    BY <2>1, <2>2, <2>4, <2>5, <2>6, <2>7 DEF CountRight
<1> QED
  BY <1>9, <1>10

(* Every step keeps the invariant, and a Send runs into a descriptor that  *)
(* was given away only when all were.                                      *)
LEMMA SendRingStep ==
    SendProof /\ [SendNext]_sendVars =>
        /\ SendProof'
        /\ order = "kept" /\ order' = "overrun" => \A i \in Slots : Given(i)
<1> SUFFICES ASSUME SendProof, [SendNext]_sendVars
             PROVE  /\ SendProof'
                    /\ order = "kept" /\ order' = "overrun" => \A i \in Slots : Given(i)
  OBVIOUS
<1>1. SendTypeOK' /\ order # "broken"
  BY SendTyped DEF SendProof
<1>2. CASE order # "kept"
  <2>1. order' = order
    BY <1>2 DEF SendNext, Send, Transmit, Pick, Bump, Fill, Reply, Excuse, sendVars
  <2> QED
    BY <1>1, <1>2, <2>1 DEF SendProof
<1>3. CASE order = "kept" /\ Transmit
  BY <1>1, <1>3, TransmitKeeps DEF SendProof
<1>4. CASE order = "kept" /\ Pick
  <2>1. order' = "kept"
    BY <1>4 DEF Pick
  <2> QED
    BY <1>1, <1>4, <2>1, PickKeeps DEF SendProof
<1>5. CASE order = "kept" /\ Bump
  <2>1. order' = "kept"
    BY <1>5 DEF Bump
  <2> QED
    BY <1>1, <1>5, <2>1, BumpKeeps DEF SendProof
<1>6. CASE order = "kept" /\ Fill
  <2>1. order' = IF sendBufferDescr[app.slot] # None THEN "overrun" ELSE "kept"
    BY <1>6 DEF Fill, Excuse
  <2> QED
    BY <1>1, <1>6, <2>1, FillKeeps DEF SendProof
<1>7. CASE order = "kept" /\ Reply
  <2>1. CASE app.at = "bump"
    <3>1. order' = "crossed"
      BY <1>7, <2>1 DEF Reply, Excuse
    <3> QED
      BY <1>1, <3>1 DEF SendProof
  <2>2. CASE app.at # "bump"
    <3>1. order' = IF Given(currentSendBuffer) THEN "overrun" ELSE "kept"
      BY <1>7, <2>2 DEF Reply, Excuse
    <3> QED
      BY <1>1, <1>7, <2>2, <3>1, ReplyKeeps DEF SendProof
  <2> QED
    BY <2>1, <2>2
<1>8. CASE UNCHANGED sendVars
  BY <1>8 DEF sendVars, cardVars, SendProof, SendTypeOK, CountRight, IndexRight, SlotRight,
              Owned, Under, Ahead, Later, None
<1> QED
  BY <1>2, <1>3, <1>4, <1>5, <1>6, <1>7, <1>8 DEF SendNext, Send

(* At first the ring is empty.                                             *)
LEMMA SendInitial == SendInit => SendProof
<1> SUFFICES ASSUME SendInit PROVE SendProof
  OBVIOUS
<1>1. 0 \in Slots /\ 0 \in 0 .. SendNumbers - 1 /\ 0 \in 0 .. N + 1
  BY DEF Slots, SendNumbers
<1>2. SendTypeOK
  <2>1. -1 \in -1 .. SendNumbers - 1
    BY DEF SendNumbers
  <2> QED
    BY <1>1, <2>1 DEF SendInit, SendTypeOK, Idle, None
<1>3. 0 = Later(due, nextOut)
  BY DEF SendInit, Later
<1>4. CountRight(0)
  <2>1. app.at = "idle" /\ \A k : ~Under(k)
    BY DEF SendInit, Idle, Under
  <2>2. Ahead(cardSends, currentSendBuffer) = 0
    BY DEF SendInit, Ahead
  <2>3. \A i \in Slots : sendBufferDescr[i] = None
    BY DEF SendInit
  <2> QED
    BY <2>1, <2>2, <2>3 DEF CountRight, IndexRight, SlotRight, Owned
<1> QED
  BY <1>1, <1>2, <1>3, <1>4 DEF SendProof, SendInit

(* A difference of numbers below m, without the remainder.                 *)
LEMMA Between ==
    ASSUME NEW m \in Nat \ {0}, NEW a \in 0 .. m - 1, NEW b \in 0 .. m - 1
    PROVE  (b - a) % m = IF b >= a THEN b - a ELSE b - a + m
<1>1. ASSUME NEW x \in 0 .. m - 1 PROVE x % m = x
  BY SMTT(30)
<1>2. ASSUME NEW x \in 1 - m .. -1 PROVE x % m = x + m
  BY SMTT(30)
<1> DEFINE x == b - a
<1>3. CASE b >= a
  <2>1. x \in 0 .. m - 1
    BY <1>3
  <2> QED
    BY <1>1, <1>3, <2>1
<1>4. CASE ~(b >= a)
  <2>1. x \in 1 - m .. -1
    BY <1>4
  <2> QED
    BY <1>2, <1>4, <2>1
<1> QED
  BY <1>3, <1>4

(* The descriptor that is k further than c, and the frame k later than d.  *)
LEMMA Further ==
    /\ \A c \in Slots : \A k \in 0 .. N :
          /\ (c + k) % N \in Slots
          /\ Ahead(c, (c + k) % N) = IF k = N THEN 0 ELSE k
    /\ \A d \in 0 .. SendNumbers - 1 : \A k \in 0 .. N :
          /\ (d + k) % SendNumbers \in 0 .. SendNumbers - 1
          /\ Later(d, (d + k) % SendNumbers) = k
<1>1. ASSUME NEW c \in Slots, NEW k \in 0 .. N
      PROVE  /\ (c + k) % N \in Slots
             /\ Ahead(c, (c + k) % N) = IF k = N THEN 0 ELSE k
  <2>1. PICK i \in Slots : i = (c + k) % N
    BY Around
  <2>2. i = IF c + k < N THEN c + k ELSE c + k - N
    BY <2>1, Around
  <2>3. Ahead(c, i) = IF k = N THEN 0 ELSE k
    BY <2>2 DEF Ahead, Slots
  <2> QED
    BY <2>1, <2>3
<1>2. ASSUME NEW d \in 0 .. SendNumbers - 1, NEW k \in 0 .. N
      PROVE  /\ (d + k) % SendNumbers \in 0 .. SendNumbers - 1
             /\ Later(d, (d + k) % SendNumbers) = k
  <2>1. SendNumbers \in Nat \ {0} /\ SendNumbers = N + 2 /\ k \in 0 .. SendNumbers
    BY DEF SendNumbers
  <2>2. PICK no \in 0 .. SendNumbers - 1 : no = (d + k) % SendNumbers
    BY <2>1, Turn
  <2>3. no = IF d + k < SendNumbers THEN d + k ELSE d + k - SendNumbers
    BY <2>1, <2>2, Turn
  <2>4. Later(d, no) = k
    BY <2>1, <2>3 DEF Later
  <2> QED
    BY <2>2, <2>4
<1> QED
  BY <1>1, <1>2

(* What the invariant says of the ring, in the remainders of the code.     *)
LEMMA RingIsHeld == SendProof => SendRingInv
<1> SUFFICES ASSUME SendProof, order = "kept" PROVE RingHoldsFrames
  BY DEF SendProof, SendRingInv, RingHoldsFrames
<1>1. PICK n \in 0 .. N + 1 : n = Later(due, nextOut) /\ CountRight(n)
  BY DEF SendProof
<1>2. /\ cardSends \in Slots /\ app.slot \in Slots
      /\ due \in 0 .. SendNumbers - 1 /\ nextOut \in 0 .. SendNumbers - 1
      /\ app.no \in 0 .. SendNumbers - 1
      /\ sendBufferDescr \in [Slots -> -1 .. SendNumbers - 1]
  BY DEF SendProof, SendTypeOK
<1>3. Outstanding = n
  <2>1. SendNumbers \in Nat \ {0}
    BY DEF SendNumbers
  <2> QED
    BY <1>1, <1>2, <2>1, Between DEF Outstanding, Later
<1>4. ASSUME NEW k \in 0 .. n - 1, NEW i \in Slots, NEW nr \in 0 .. SendNumbers - 1,
             Ahead(cardSends, i) = IF k = N THEN 0 ELSE k, Later(due, nr) = k
      PROVE  IF app.at # "idle" /\ app.no = nr
             THEN app.slot = i
             ELSE sendBufferDescr[i] = nr
  <2>1. CASE app.at # "idle" /\ app.no = nr
    <3>1. PICK h \in 0 .. N - 1 : h = Ahead(cardSends, app.slot)
      BY <1>2, Differences
    <3>2. h \in {k, k - N}
      BY <1>1, <1>4, <2>1, <3>1 DEF CountRight, SlotRight
    <3>3. h = IF k = N THEN 0 ELSE k
      BY <3>2
    <3>4. Ahead(cardSends, app.slot) = Ahead(cardSends, i)
      BY <1>4, <3>1, <3>3
    <3>5. app.slot = i
      BY <1>2, <3>4, Differences
    <3> QED
      BY <2>1, <3>5
  <2>2. CASE ~(app.at # "idle" /\ app.no = nr)
    <3>1. ~Under(k)
      <4>1. Later(due, app.no) = Later(due, nr) => app.no = nr
        BY <1>2, Differences
      <4> QED
        BY <1>4, <2>2, <4>1 DEF Under
    <3>2. k # N
      BY <1>1, <3>1 DEF CountRight
    <3>3. k \in 0 .. N - 1 /\ k = Ahead(cardSends, i) /\ k < n
      BY <1>4, <3>2
    <3>4. sendBufferDescr[i] # None /\ Later(due, sendBufferDescr[i]) = k
      BY <1>1, <3>1, <3>3 DEF CountRight, Owned
    <3>5. PICK m \in 0 .. SendNumbers - 1 : m = sendBufferDescr[i]
      BY <1>2, <3>4 DEF None
    <3>6. sendBufferDescr[i] = nr
      BY <1>2, <1>4, <3>4, <3>5, Differences
    <3> QED
      BY <2>2, <3>6
  <2> QED
    BY <2>1, <2>2
<1>5. ASSUME NEW k \in 0 .. n - 1
      PROVE  IF app.at # "idle" /\ app.no = (due + k) % SendNumbers
             THEN app.slot = (cardSends + k) % N
             ELSE sendBufferDescr[(cardSends + k) % N] = (due + k) % SendNumbers
  <2>1. k \in 0 .. N
    OBVIOUS
  <2>2. /\ (cardSends + k) % N \in Slots
        /\ Ahead(cardSends, (cardSends + k) % N) = IF k = N THEN 0 ELSE k
    BY <1>2, <2>1, Further
  <2>3. /\ (due + k) % SendNumbers \in 0 .. SendNumbers - 1
        /\ Later(due, (due + k) % SendNumbers) = k
    BY <1>2, <2>1, Further
  <2> QED
    BY <1>4, <2>2, <2>3
<1> QED
  BY <1>3, <1>5 DEF RingHoldsFrames

(* For every number of descriptors, while no Send has crossed another or   *)
(* run into a descriptor given away, the descriptors from the card's index *)
(* to the driver's hold the frames due, in order and without a gap.        *)
THEOREM SendRingIsRight == SendSpec => []SendRingInv
BY SendInitial, SendRingStep, RingIsHeld, PTL DEF SendSpec

(* The card sends the frames in the order of the calls of Send and each    *)
(* once, but for those two exceptions.                                     *)
THEOREM FramesSentInOrder == SendSpec => []SentInOrder
<1>1. SendProof => SentInOrder
  BY DEF SendProof, SentInOrder
<1> QED
  BY <1>1, SendInitial, SendRingStep, PTL DEF SendSpec

(* A Send runs into a descriptor that was given away only when all were.   *)
THEOREM OverrunsOnlyWhenFull == SendSpec => OverrunOnlyWhenFull
<1>1. SendProof /\ [SendNext]_sendVars
          => [order = "kept" /\ order' = "overrun" => \A i \in Slots : Given(i)]_sendVars
  BY SendRingStep
<1> QED
  BY <1>1, SendInitial, SendRingStep, PTL DEF SendSpec, OverrunOnlyWhenFull
=============================================================================
