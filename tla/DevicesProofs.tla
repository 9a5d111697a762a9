--------------------------- MODULE DevicesProofs ---------------------------
(***************************************************************************)
(* Theorems about parts that run by themselves, for every value of their   *)
(* constants: interrupt stubs, boot, shutdown, segments and the disk;      *)
(* DriverProofs.tla has the drivers.  The variables of a part are v1, v2,  *)
(* ... in the order of its module.                                         *)
(***************************************************************************)
EXTENDS Devices, SequenceTheorems, WellFoundedInduction, TLAPS

all == <<part, v1, v2, rest2>>

----------------------------------------------------------------------------
(* Interrupts: vector v1, stack v2, cpuRegs v3, resumed v4, number v5,     *)
(* stage v6.                                                               *)

Words ==
    {"eax", "ebx", "ecx", "edx", "esi", "edi", "ebp", "eip", "cs", "eflags",
     "local", "return", "error", "0", "?", "entrypoint", "0x202"}
Stack == Seq(Words)
Code == Vectors!Interrupted \o Vectors!Below
Rest == <<"cs", "eflags">> \o Vectors!Below
Begun == <<"entrypoint", "cs", "0x202">> \o <<"?", "?">>
Zeros == [k \in 1 .. 7 |-> "0"]

Request(v) == Vectors!Gate(v) = "HandleInterruptRequest"
Exception(v) == Vectors!Gate(v) = "HandleException"
Ignored(v) == Vectors!Gate(v) = "InterruptIgnore"

(* What lies on the stack when the interrupt comes, and what int_bottom    *)
(* finds there: one word above eip, or none for some exceptions.           *)
Entered(v) == IF Vectors!HasErrorCode(v) THEN <<"error">> \o Code ELSE Code

Framed(v) ==
    IF Request(v) THEN <<"0">> \o Code
    ELSE IF Vectors!HasErrorCode(v) THEN <<"error">> \o Code
    ELSE <<"eip">> \o Rest

(* What iret pops: the interrupted code's frame, that of a new task, or    *)
(* one that has slipped by a word.                                         *)
Resumes(v) ==
    \/ v2 = Code /\ v3 = Vectors!Names /\ ~Vectors!Unbalanced
    \/ v = 32 /\ v2 = Begun /\ v3 = Zeros
    \/ v2 \in Stack /\ Len(v2) >= 3 /\ v2[1] \in {"cs", "error"} /\ Vectors!Unbalanced

VectorsProof ==
    /\ v6 = "HandleInterruptRequest" => Request(v1) /\ v2 = Code /\ v3 = Vectors!Names
    /\ v6 = "HandleException" => Exception(v1) /\ v2 = Entered(v1) /\ v3 = Vectors!Names
    /\ v6 = "int_bottom" => v2 = Framed(v1) /\ v3 = Vectors!Names
    /\ v6 = "call" => v2 = Vectors!Names \o Framed(v1)
    /\ v6 = "restore" =>
          v2 = Vectors!Names \o Framed(v1) \/ (v1 = 32 /\ v2 = Vectors!Fresh)
    /\ v6 \in {"int_bottom", "call", "restore"} => v5 = v1 /\ (Request(v1) \/ Exception(v1))
    /\ v6 = "InterruptIgnore" => Resumes(v1)
    /\ Vectors!ReturnsRight

(* The kinds of vector.                                                    *)
LEMMA Gates ==
    ASSUME NEW v
    PROVE  /\ Request(v) <=> v \in 32 .. 47
           /\ Exception(v) <=> v \in 0 .. 19
           /\ Ignored(v) <=> ~Request(v) /\ ~Exception(v)
           /\ Request(v) => ~Exception(v) /\ ~Vectors!HasErrorCode(v)
BY DEF Request, Exception, Ignored, Vectors!Gate, Vectors!HardwareInterruptOffset,
       Vectors!HasErrorCode

(* One word, and one part of a stack on another.                           *)
LEMMA Single ==
    ASSUME NEW W, NEW w \in W
    PROVE  <<w>> \in Seq(W) /\ Len(<<w>>) = 1 /\ <<w>> # <<>> /\ <<w>>[1] = w
OBVIOUS

(* Two parts of a stack, one on the other.                                 *)
LEMMA Joined ==
    ASSUME NEW W, NEW q \in Seq(W), NEW r \in Seq(W), q # <<>>
    PROVE  /\ q \o r \in Seq(W) /\ Len(q \o r) = Len(q) + Len(r)
           /\ q \o r # <<>> /\ (q \o r)[1] = q[1]
<1>1. PICK m \in Nat, n \in Nat : m = Len(q) /\ n = Len(r)
  OBVIOUS
<1>2. m >= 1
  BY <1>1
<1>3. q \o r \in Seq(W) /\ Len(q \o r) = Len(q) + Len(r)
  BY ConcatProperties
<1>4. q \o r # <<>>
  BY ConcatEqualIffEmpty
<1>5. 1 \in 1 .. Len(q) + Len(r) /\ 1 <= Len(q)
  BY <1>1, <1>2
<1>6. (q \o r)[1] = q[1]
  BY <1>5, ConcatProperties
<1> QED
  BY <1>3, <1>4, <1>6

(* A stack of two parts, cut between them.                                 *)
LEMMA Cut ==
    ASSUME NEW W, NEW q \in Seq(W), NEW r \in Seq(W), q # <<>>, r # <<>>,
           NEW n \in Nat, n = Len(q)
    PROVE  /\ q \o r \in Seq(W) /\ Len(q \o r) = n + Len(r)
           /\ SubSeq(q \o r, 1, n) = q
           /\ SubSeq(q \o r, n + 1, Len(q \o r)) = r
<1>1. q \o r \in Seq(W) /\ Len(q \o r) = n + Len(r)
  BY ConcatProperties
<1>2. PICK m \in Nat : m = Len(r)
  OBVIOUS
<1>3. m >= 1 /\ n >= 1
  BY <1>2
<1>4. SubSeq(q \o r, 1, n) = SubSeq(q, 1, n)
  BY <1>3, SubSeqOfConcat1
<1>5. SubSeq(q \o r, n + 1, n + m) = SubSeq(r, 1, m)
  <2>1. /\ n + 1 \in Len(q) + 1 .. Len(q) + Len(r)
        /\ n + m \in Len(q) + 1 .. Len(q) + Len(r)
    BY <1>2, <1>3
  <2>2. (n + 1) - Len(q) = 1 /\ (n + m) - Len(q) = m
    BY <1>2
  <2> QED
    BY <2>1, <2>2, SubSeqOfConcat2
<1> QED
  BY <1>1, <1>2, <1>4, <1>5, SubSeqFull

(* The registers, a word, and what is below it.                            *)
LEMMA Dropped ==
    ASSUME NEW q \in Stack, Len(q) = 7, NEW w \in Words, NEW r \in Stack, r # <<>>
    PROVE  LET s == q \o (<<w>> \o r)
           IN  SubSeq(s, 1, 7) = q /\ SubSeq(s, 9, Len(s)) = r
<1>1. /\ q # <<>> /\ <<w>> \in Stack /\ <<w>> # <<>> /\ Len(<<w>>) = 1
      /\ <<w>> \o r \in Stack /\ <<w>> \o r # <<>>
      /\ q \o <<w>> \in Stack /\ q \o <<w>> # <<>> /\ Len(q \o <<w>>) = 8
  <2>1. q # <<>>
    OBVIOUS
  <2>2. PICK t \in Stack : t = <<w>> /\ t # <<>> /\ Len(t) = 1
    BY Single DEF Stack
  <2>3. t \o r \in Stack /\ t \o r # <<>> /\ Len(t \o r) = 1 + Len(r)
    BY <2>2, Joined DEF Stack
  <2>4. q \o t \in Stack /\ q \o t # <<>> /\ Len(q \o t) = Len(q) + Len(t)
    BY <2>1, <2>2, Joined DEF Stack
  <2> QED
    BY <2>1, <2>2, <2>3, <2>4
<1>2. q \o (<<w>> \o r) = (q \o <<w>>) \o r
  BY <1>1, ConcatAssociative DEF Stack
<1>3. SubSeq(q \o (<<w>> \o r), 1, 7) = q
  BY SMTT(30), <1>1, Cut DEF Stack
<1>4. SubSeq((q \o <<w>>) \o r, 8 + 1, Len((q \o <<w>>) \o r)) = r
  BY SMTT(30), <1>1, Cut DEF Stack
<1> QED
  BY <1>2, <1>3, <1>4

(* The pieces of a stack.                                                  *)
LEMMA Pieces ==
    /\ Vectors!Names \in Stack /\ Len(Vectors!Names) = 7
    /\ Vectors!Interrupted \in Stack /\ Len(Vectors!Interrupted) = 3 /\ Vectors!Interrupted # <<>>
    /\ Vectors!Below \in Stack /\ Len(Vectors!Below) = 2 /\ Vectors!Below # <<>>
    /\ Zeros \in Stack /\ Len(Zeros) = 7
    /\ Code \in Stack /\ Len(Code) = 5 /\ Code # <<>>
    /\ Rest \in Stack /\ Len(Rest) = 4 /\ Rest # <<>> /\ Rest[1] = "cs"
    /\ Begun \in Stack /\ Len(Begun) = 5 /\ Begun # <<>>
<1>1. Vectors!Names \in Stack /\ Len(Vectors!Names) = 7
  BY DEF Vectors!Names, Stack, Words
<1>2. /\ Vectors!Interrupted \in Stack /\ Len(Vectors!Interrupted) = 3
      /\ Vectors!Interrupted # <<>>
  BY DEF Vectors!Interrupted, Stack, Words
<1>3. Vectors!Below \in Stack /\ Len(Vectors!Below) = 2 /\ Vectors!Below # <<>>
  BY DEF Vectors!Below, Stack, Words
<1>4. Zeros \in Stack
  BY DEF Zeros, Stack, Words
<1>5. Len(Zeros) = 7
  BY DEF Zeros
<1>6. Code \in Stack /\ Len(Code) = 5 /\ Code # <<>>
  <2>1. /\ Code \in Stack /\ Code # <<>>
        /\ Len(Code) = Len(Vectors!Interrupted) + Len(Vectors!Below)
    <3>1. PICK q \in Stack, r \in Stack :
             q = Vectors!Interrupted /\ r = Vectors!Below /\ q # <<>>
      BY <1>2, <1>3
    <3>2. q \o r \in Stack /\ q \o r # <<>> /\ Len(q \o r) = Len(q) + Len(r)
      BY <3>1, Joined DEF Stack
    <3> QED
      BY <3>1, <3>2 DEF Code
  <2> QED
    BY <1>2, <1>3, <2>1
<1>7. Rest \in Stack /\ Len(Rest) = 4 /\ Rest # <<>> /\ Rest[1] = "cs"
  <2>1. <<"cs", "eflags">> \in Stack /\ Len(<<"cs", "eflags">>) = 2
    BY DEF Stack, Words
  <2>2. PICK q \in Stack : q = <<"cs", "eflags">> /\ q # <<>> /\ Len(q) = 2 /\ q[1] = "cs"
    BY <2>1
  <2>3. /\ Rest \in Stack /\ Rest # <<>> /\ Rest[1] = q[1]
        /\ Len(Rest) = Len(q) + Len(Vectors!Below)
    <3>1. PICK r \in Stack : r = Vectors!Below
      BY <1>3
    <3>2. /\ q \o r \in Stack /\ q \o r # <<>> /\ (q \o r)[1] = q[1]
          /\ Len(q \o r) = Len(q) + Len(r)
      BY <2>2, Joined DEF Stack
    <3> QED
      BY <2>2, <3>1, <3>2 DEF Rest
  <2> QED
    BY <1>3, <2>2, <2>3
<1>8. Begun \in Stack /\ Len(Begun) = 5 /\ Begun # <<>>
  <2>1. /\ <<"entrypoint", "cs", "0x202">> \in Stack /\ <<"?", "?">> \in Stack
        /\ Len(<<"entrypoint", "cs", "0x202">>) = 3 /\ Len(<<"?", "?">>) = 2
        /\ <<"?", "?">> # <<>>
    BY DEF Stack, Words
  <2> QED
    BY <2>1, ConcatProperties, ConcatEqualIffEmpty DEF Begun, Stack
<1> QED
  BY <1>1, <1>2, <1>3, <1>4, <1>5, <1>6, <1>7, <1>8

(* The frame of a new task: a word above the entry point.                  *)
LEMMA FreshIs == Vectors!Fresh = Zeros \o (<<"?">> \o Begun)
<1> DEFINE s == <<"?", "entrypoint", "cs", "0x202", "?", "?">>
           t == <<"?">> \o Begun
<1>1. s \in Stack /\ Len(s) = 6
  BY DEF Stack, Words
<1>2. /\ <<"entrypoint", "cs", "0x202">> \in Stack /\ Len(<<"entrypoint", "cs", "0x202">>) = 3
      /\ <<"?", "?">> \in Stack /\ Len(<<"?", "?">>) = 2
      /\ <<"?">> \in Stack /\ Len(<<"?">>) = 1
  BY DEF Stack, Words
<1>3. /\ Begun[1] = "entrypoint" /\ Begun[2] = "cs" /\ Begun[3] = "0x202"
      /\ Begun[4] = "?" /\ Begun[5] = "?"
  BY <1>2 DEF Begun, Stack
<1>4. /\ t \in Stack /\ Len(t) = 6 /\ t[1] = "?"
      /\ \A k \in 2 .. 6 : t[k] = Begun[k - 1]
  <2>1. PICK q \in Stack, r \in Stack : q = <<"?">> /\ r = Begun /\ Len(q) = 1 /\ Len(r) = 5
    BY <1>2, Pieces
  <2>2. /\ q \o r \in Stack /\ Len(q \o r) = Len(q) + Len(r)
        /\ \A k \in 1 .. Len(q) + Len(r) :
              (q \o r)[k] = IF k <= Len(q) THEN q[k] ELSE r[k - Len(q)]
    BY ConcatProperties DEF Stack
  <2>3. q[1] = "?"
    BY <2>1
  <2> QED
    BY <2>1, <2>2, <2>3
<1>5. \A k \in 1 .. 6 : s[k] = t[k]
  <2>1. ASSUME NEW k \in 1 .. 6 PROVE s[k] = t[k]
    <3>1. k = 1 \/ k = 2 \/ k = 3 \/ k = 4 \/ k = 5 \/ k = 6
      OBVIOUS
    <3> QED
      BY <1>3, <1>4, <3>1
  <2> QED
    BY <2>1
<1>6. s = t
  <2> HIDE DEF s, t
  <2> QED
    BY <1>1, <1>4, <1>5, SeqEqual DEF Stack
<1> QED
  BY <1>6 DEF Vectors!Fresh, Zeros

(* What int_bottom finds, as a word on the rest.                           *)
LEMMA FramedIs ==
    ASSUME NEW v
    PROVE  \E w \in Words, r \in Stack :
              /\ Framed(v) = <<w>> \o r /\ r # <<>>
              /\ r = IF Request(v) \/ Vectors!HasErrorCode(v) THEN Code ELSE Rest
<1>1. "0" \in Words /\ "error" \in Words /\ "eip" \in Words
  BY DEF Words
<1> QED
  BY <1>1, Pieces DEF Framed

(* The interrupted code's frame has eip above the rest.                    *)
LEMMA CodeIs == Code = <<"eip">> \o Rest
<1>1. /\ <<"eip">> \in Stack /\ <<"cs", "eflags">> \in Stack
  BY DEF Stack, Words
<1>2. <<"eip", "cs", "eflags">> = <<"eip">> \o <<"cs", "eflags">>
  <2>1. PICK s \in Stack : s = <<"eip", "cs", "eflags">> /\ Len(s) = 3
    BY Pieces DEF Vectors!Interrupted
  <2>2. PICK q \in Stack, r \in Stack :
           q = <<"eip">> /\ r = <<"cs", "eflags">> /\ Len(q) = 1 /\ Len(r) = 2
    BY <1>1
  <2>3. /\ q \o r \in Stack /\ Len(q \o r) = Len(q) + Len(r)
        /\ \A k \in 1 .. Len(q) + Len(r) :
              (q \o r)[k] = IF k <= Len(q) THEN q[k] ELSE r[k - Len(q)]
    BY ConcatProperties DEF Stack
  <2>4. \A k \in 1 .. 3 : s[k] = (q \o r)[k]
    <3>1. ASSUME NEW k \in 1 .. 3 PROVE s[k] = (q \o r)[k]
      <4>1. k = 1 \/ k = 2 \/ k = 3
        OBVIOUS
      <4> QED
        BY <2>1, <2>2, <2>3, <4>1
    <3> QED
      BY <3>1
  <2>5. s = q \o r
    BY <2>1, <2>2, <2>3, <2>4, SeqEqual DEF Stack
  <2> QED
    BY <2>1, <2>2, <2>5
<1>3. (<<"eip">> \o <<"cs", "eflags">>) \o Vectors!Below
        = <<"eip">> \o (<<"cs", "eflags">> \o Vectors!Below)
  <2>1. Vectors!Below \in Stack
    BY Pieces
  <2> QED
    BY <1>1, <2>1, ConcatAssociative DEF Stack
<1> QED
  BY <1>2, <1>3 DEF Code, Rest, Vectors!Interrupted

(* Before the interrupt there is only the code it interrupts.              *)
LEMMA VectorsInit ==
    ASSUME Vectors!Init
    PROVE  VectorsProof
<1>1. v2 = Entered(v1)
  <2>1. <<"error">> \in Stack
    BY DEF Stack, Words
  <2>2. (<<"error">> \o Vectors!Interrupted) \o Vectors!Below = <<"error">> \o Code
    BY <2>1, Pieces, ConcatAssociative DEF Code, Stack
  <2>3. (<<>> \o Vectors!Interrupted) \o Vectors!Below = Code
    BY Pieces, ConcatEmptySeq DEF Code, Stack
  <2> QED
    BY <2>2, <2>3 DEF Vectors!Init, Entered
<1>2. v3 = Vectors!Names /\ v6 = Vectors!Gate(v1)
  BY DEF Vectors!Init
<1>3. Vectors!Gate(v1) \in {"HandleInterruptRequest", "HandleException", "InterruptIgnore"}
  BY DEF Vectors!Gate
<1>4. ASSUME v6 = "HandleInterruptRequest" PROVE Request(v1) /\ v2 = Code
  BY <1>1, <1>2, <1>4, Gates DEF Request, Entered
<1>5. ASSUME v6 = "HandleException" PROVE Exception(v1)
  BY <1>2, <1>5 DEF Exception
<1>6. ASSUME v6 = "InterruptIgnore" PROVE Resumes(v1)
  <2>1. Vectors!Unbalanced <=> Vectors!HasErrorCode(v1)
    BY <1>2, <1>6 DEF Vectors!Unbalanced
  <2>2. PICK q \in Stack : q = <<"error">> /\ q # <<>> /\ q[1] = "error" /\ Len(q) = 1
    <3>1. "error" \in Words
      BY DEF Words
    <3> QED
      BY <3>1, Single DEF Stack
  <2>3. PICK r \in Stack : r = Code /\ Len(r) = 5
    BY Pieces
  <2>4. q \o r \in Stack /\ Len(q \o r) = Len(q) + Len(r) /\ (q \o r)[1] = q[1]
    BY <2>2, Joined DEF Stack
  <2> QED
    BY <1>1, <1>2, <2>1, <2>2, <2>3, <2>4 DEF Resumes, Entered
<1>7. Vectors!ReturnsRight
  BY <1>2, <1>3 DEF Vectors!ReturnsRight
<1> QED
  BY <1>1, <1>2, <1>3, <1>4, <1>5, <1>6, <1>7 DEF VectorsProof

(* Each entry, handler and return leaves the stack as the next one needs   *)
(* it.                                                                     *)
LEMMA VectorsStep ==
    ASSUME VectorsProof, [Vectors!Next]_(Vectors!vars)
    PROVE  VectorsProof'
<1>0. ASSUME UNCHANGED v1
      PROVE  /\ Vectors!Unbalanced' <=> Vectors!Unbalanced
             /\ Request(v1)' <=> Request(v1)
             /\ Exception(v1)' <=> Exception(v1)
             /\ Framed(v1)' = Framed(v1)
             /\ Entered(v1)' = Entered(v1)
  BY <1>0 DEF Vectors!Unbalanced, Request, Exception, Framed, Entered
<1>1. CASE Vectors!HandleInterruptRequest
  <2>1. /\ v6 = "HandleInterruptRequest" /\ v6' = "int_bottom" /\ v5' = (v1 - 32) + 32
        /\ v2' = <<"0">> \o v2 /\ UNCHANGED <<v1, v3, v4>>
    BY <1>1 DEF Vectors!HandleInterruptRequest, Vectors!HardwareInterruptOffset, Vectors!IrqBase
  <2>2. Request(v1) /\ v2 = Code /\ v3 = Vectors!Names
    BY <2>1 DEF VectorsProof
  <2>3. v5' = v1'
    <3>1. v1 \in 32 .. 47
      BY <2>2, Gates
    <3> QED
      BY <2>1, <3>1
  <2>4. v2' = Framed(v1)'
    BY <2>1, <2>2 DEF Framed, Request
  <2> QED
    BY <1>0, <2>1, <2>2, <2>3, <2>4 DEF VectorsProof, Vectors!ReturnsRight, Vectors!Names
<1>2. CASE Vectors!HandleException
  <2>1. /\ v6 = "HandleException" /\ v6' = "int_bottom" /\ v5' = v1
        /\ UNCHANGED <<v1, v2, v3, v4>>
    BY <1>2 DEF Vectors!HandleException
  <2>2. Exception(v1) /\ v2 = Entered(v1) /\ v3 = Vectors!Names
    BY <2>1 DEF VectorsProof
  <2>3. v2 = Framed(v1)
    BY <2>2, CodeIs, Gates DEF Framed, Entered
  <2> QED
    BY <1>0, <2>1, <2>2, <2>3 DEF VectorsProof, Vectors!ReturnsRight, Vectors!Names
<1>3. CASE Vectors!Bottom
  <2>1. /\ v6 = "int_bottom" /\ v6' = "call" /\ v2' = v3 \o v2
        /\ UNCHANGED <<v1, v3, v4, v5>>
    BY <1>3 DEF Vectors!Bottom
  <2>2. /\ v2 = Framed(v1) /\ v3 = Vectors!Names
        /\ v5 = v1 /\ (Request(v1) \/ Exception(v1))
    BY <2>1 DEF VectorsProof
  <2> QED
    BY <1>0, <2>1, <2>2 DEF VectorsProof, Vectors!ReturnsRight, Vectors!Names
<1>4. CASE Vectors!Call
  <2>1. /\ v6 = "call" /\ v6' = "restore" /\ UNCHANGED <<v1, v4, v5>>
        /\ v2' = v2 \/ (v1 = 32 /\ v2' = Vectors!Fresh)
    BY <1>4 DEF Vectors!Call, Vectors!HardwareInterruptOffset
  <2>2. /\ v2 = Vectors!Names \o Framed(v1)
        /\ v5 = v1 /\ (Request(v1) \/ Exception(v1))
    BY <2>1 DEF VectorsProof
  <2> QED
    BY <1>0, <2>1, <2>2
    DEF VectorsProof, Vectors!ReturnsRight, Vectors!Names, Vectors!Fresh
<1>5. CASE Vectors!Restore
  <2>1. /\ v6 = "restore" /\ v6' = "InterruptIgnore" /\ UNCHANGED <<v1, v4, v5>>
        /\ v3' = SubSeq(v2, 1, 7) /\ v2' = SubSeq(v2, 9, Len(v2))
    BY <1>5 DEF Vectors!Restore
  <2>2. /\ v2 = Vectors!Names \o Framed(v1) \/ (v1 = 32 /\ v2 = Vectors!Fresh)
        /\ Request(v1) \/ Exception(v1)
    BY <2>1 DEF VectorsProof
  <2>3. Resumes(v1)'
    <3>1. CASE v2 = Vectors!Names \o Framed(v1)
      <4>1. PICK w \in Words, r \in Stack :
               /\ Framed(v1) = <<w>> \o r /\ r # <<>>
               /\ r = IF Request(v1) \/ Vectors!HasErrorCode(v1) THEN Code ELSE Rest
        BY FramedIs
      <4>2. v3' = Vectors!Names /\ v2' = r
        <5>1. PICK q \in Stack : q = Vectors!Names /\ Len(q) = 7
          BY Pieces
        <5>2. LET s == q \o (<<w>> \o r)
              IN  SubSeq(s, 1, 7) = q /\ SubSeq(s, 9, Len(s)) = r
          BY SMTT(30), <4>1, <5>1, Dropped
        <5> QED
          BY <2>1, <3>1, <4>1, <5>1, <5>2
      <4>3. Vectors!Unbalanced <=> ~(Request(v1) \/ Vectors!HasErrorCode(v1))
        BY <2>2, Gates DEF Vectors!Unbalanced, Request, Exception
      <4>4. CASE Request(v1) \/ Vectors!HasErrorCode(v1)
        BY <1>0, <2>1, <4>1, <4>2, <4>3, <4>4 DEF Resumes, Code, Vectors!Names,
              Vectors!Interrupted, Vectors!Below
      <4>5. CASE ~(Request(v1) \/ Vectors!HasErrorCode(v1))
        <5>1. Len(r) >= 3 /\ r[1] = "cs"
          <6>1. r = Rest
            BY <4>1, <4>5
          <6>2. Len(Rest) = 4 /\ Rest[1] = "cs"
            BY Pieces
          <6> QED
            BY <6>1, <6>2
        <5> QED
          BY <1>0, <2>1, <4>2, <4>3, <4>5, <5>1 DEF Resumes, Stack, Words
      <4> QED
        BY <4>4, <4>5
    <3>2. CASE v1 = 32 /\ v2 = Vectors!Fresh
      <4>1. "?" \in Words
        BY DEF Words
      <4>2. v3' = Zeros /\ v2' = Begun
        <5>1. PICK q \in Stack, r \in Stack :
                 q = Zeros /\ r = Begun /\ Len(q) = 7 /\ r # <<>>
          BY Pieces
        <5>2. LET s == q \o (<<"?">> \o r)
              IN  SubSeq(s, 1, 7) = q /\ SubSeq(s, 9, Len(s)) = r
          BY SMTT(30), <4>1, <5>1, Dropped
        <5> QED
          BY <2>1, <3>2, <5>1, <5>2, FreshIs
      <4> QED
        BY <2>1, <3>2, <4>2 DEF Resumes, Zeros, Begun
    <3> QED
      BY <2>2, <3>1, <3>2
  <2> QED
    BY <2>1, <2>3 DEF VectorsProof, Vectors!ReturnsRight
<1>6. CASE Vectors!Iret
  <2>1. /\ v6 = "InterruptIgnore" /\ v6' = "done" /\ UNCHANGED <<v1, v3, v5>>
        /\ v4' = SubSeq(v2, 1, 3) /\ v2' = SubSeq(v2, 4, Len(v2))
    BY <1>6 DEF Vectors!Iret
  <2>2. Resumes(v1)
    BY <2>1 DEF VectorsProof
  <2>3. Vectors!ReturnsRight'
    <3>1. CASE v2 = Code /\ v3 = Vectors!Names /\ ~Vectors!Unbalanced
      <4>1. v4' = Vectors!Interrupted /\ v2' = Vectors!Below
        <5>1. PICK q \in Stack, r \in Stack :
                 q = Vectors!Interrupted /\ r = Vectors!Below /\ Len(q) = 3 /\ q # <<>> /\ r # <<>>
          BY Pieces
        <5>2. PICK n \in Nat : n = Len(q) /\ n = 3
          BY <5>1
        <5>3. SubSeq(q \o r, 1, n) = q /\ SubSeq(q \o r, n + 1, Len(q \o r)) = r
          <6>1. q # <<>> /\ r # <<>> /\ n = Len(q)
            BY <5>1, <5>2
          <6> QED
            BY <6>1, Cut DEF Stack
        <5>4. n + 1 = 4
          BY <5>2
        <5> QED
          BY <2>1, <3>1, <5>1, <5>2, <5>3, <5>4 DEF Code
      <4> QED
        BY <1>0, <2>1, <3>1, <4>1 DEF Vectors!ReturnsRight, Vectors!GoesOn, Vectors!Interrupted,
              Vectors!Below, Vectors!Names
    <3>2. CASE v1 = 32 /\ v2 = Begun /\ v3 = Zeros
      <4>1. v4' = <<"entrypoint", "cs", "0x202">>
        <5>1. PICK q \in Stack, r \in Stack :
                 /\ q = <<"entrypoint", "cs", "0x202">> /\ r = <<"?", "?">> /\ Len(q) = 3
                 /\ q # <<>> /\ r # <<>>
          <6>1. <<"entrypoint", "cs", "0x202">> \in Stack /\ <<"?", "?">> \in Stack
            BY DEF Stack, Words
          <6>2. /\ Len(<<"entrypoint", "cs", "0x202">>) = 3
                /\ <<"entrypoint", "cs", "0x202">> # <<>> /\ <<"?", "?">> # <<>>
            OBVIOUS
          <6> QED
            BY <6>1, <6>2
        <5>2. PICK n \in Nat : n = Len(q) /\ n = 3
          BY <5>1
        <5>3. SubSeq(q \o r, 1, n) = q
          <6>1. q # <<>> /\ r # <<>> /\ n = Len(q)
            BY <5>1, <5>2
          <6> QED
            BY <6>1, Cut DEF Stack
        <5> QED
          BY <2>1, <3>2, <5>1, <5>2, <5>3 DEF Begun
      <4>2. ~Vectors!Unbalanced'
        <5>1. Request(v1)
          BY <3>2, Gates
        <5>2. ~Vectors!Unbalanced
          BY <5>1 DEF Vectors!Unbalanced, Request
        <5> QED
          BY <1>0, <2>1, <5>2
      <4> QED
        BY <2>1, <3>2, <4>1, <4>2 DEF Vectors!ReturnsRight, Vectors!Begins, Zeros,
              Vectors!HardwareInterruptOffset
    <3>3. CASE /\ v2 \in Stack /\ Len(v2) >= 3 /\ v2[1] \in {"cs", "error"}
               /\ Vectors!Unbalanced
      <4>1. PICK s \in Stack, n \in Nat : s = v2 /\ n = Len(s) /\ n >= 3
        BY <3>3 DEF Stack
      <4>2. 1 \in 1 .. Len(s) /\ 3 \in 1 .. Len(s)
        BY <4>1
      <4>3. Head(SubSeq(s, 1, 3)) = s[1]
        BY <4>2, HeadTailOfSubSeq DEF Stack
      <4> QED
        BY <1>0, <2>1, <3>3, <4>1, <4>3 DEF Vectors!ReturnsRight
    <3> QED
      BY <2>2, <3>1, <3>2, <3>3 DEF Resumes
  <2> QED
    BY <2>1, <2>3 DEF VectorsProof
<1>7. CASE Vectors!Returned \/ UNCHANGED Vectors!vars
  <2>1. UNCHANGED <<v1, v2, v3, v4, v5, v6>>
    BY <1>7 DEF Vectors!Returned, Vectors!vars
  <2> QED
    BY <2>1 DEF VectorsProof, Vectors!ReturnsRight, Resumes, Vectors!Unbalanced, Vectors!GoesOn,
          Vectors!Begins, Request, Exception, Framed, Entered
<1> QED
  BY <1>1, <1>2, <1>3, <1>4, <1>5, <1>6, <1>7 DEF Vectors!Next

(* A hardware interrupt returns to the code it interrupted, or to a task,  *)
(* and its handler is the one of its line, whatever vectors occur; what    *)
(* becomes of the exceptions is as the module states it (interrupts.cpp,   *)
(* interruptstubs.s).                                                      *)
THEOREM InterruptsReturnRight == Spec => []VectorsRight
<1> DEFINE Inv == part = "Vectors" => VectorsProof
<1>1. Init => Inv
  <2> SUFFICES ASSUME Init, part = "Vectors" PROVE VectorsProof
    OBVIOUS
  <2>1. Vectors!Init
    BY DEF Init
  <2> QED
    BY <2>1, VectorsInit
<1>2. Inv /\ [Next]_all => Inv'
  <2> SUFFICES ASSUME Inv, [Next]_all, part' = "Vectors" PROVE VectorsProof'
    OBVIOUS
  <2>1. part = "Vectors" /\ [Vectors!Next]_(Vectors!vars)
    BY DEF Next, all, rest2, rest3, rest4, rest6, Vectors!vars
  <2> QED
    BY <2>1, VectorsStep
<1>3. Inv => VectorsRight
  <2> SUFFICES ASSUME VectorsProof PROVE Vectors!VectorsInv
    BY DEF VectorsRight
  <2>1. Vectors!NumberRight
    <3>1. ASSUME v5 = v1, NEW line \in 0 .. 15, v1 = Vectors!VectorOf(line)
          PROVE  v5 = 32 + line
      BY <3>1 DEF Vectors!VectorOf, Vectors!HardwareInterruptOffset
    <3> QED
      BY <3>1 DEF VectorsProof, Vectors!NumberRight, Vectors!HardwareInterruptOffset
  <2> QED
    BY <2>1 DEF VectorsProof, Vectors!VectorsInv
<1> QED
  BY <1>1, <1>2, <1>3, PTL DEF Spec, all

----------------------------------------------------------------------------
(* A set of numbers has a least one.                                       *)
LEMMA Least ==
    ASSUME NEW T, T \subseteq Nat, T # {}
    PROVE  \E x \in T : \A y \in T : x <= y
<1> DEFINE R == OpToRel(<, Nat)
<1>1. IsWellFoundedOn(R, Nat)
  BY NatLessThanWellFounded
<1>2. R = {ss \in Nat \X Nat : ss[1] < ss[2]}
  BY DEF OpToRel
<1>3. \A x \in Nat, y \in Nat : x < y => <<x, y>> \in R
  BY <1>2
<1> HIDE DEF R
<1>4. PICK x \in T : \A y \in T : ~(<<y, x>> \in R)
  BY <1>1, WFMin
<1>0. ASSUME NEW y \in T PROVE x <= y
  <2>1. ~(y < x)
    BY <1>3, <1>4
  <2> QED
    BY <2>1
<1> QED
  BY <1>0

----------------------------------------------------------------------------
(* Booting: pci v1, bootStep v2, toScan v3, drivers v4, handlers v5,       *)
(* baseAddress v6, activated v7, raised v8, unhandled v9.                  *)

Places == PciDevices \X Functions

DriverType ==
    [kind : {"keyboard", "mouse", "amd", "rtl"}, card : Places \cup {<<>>},
     line : Boot!Lines, ports : Places \cup {<<>>, <<"?">>}]

PciType ==
    [PciDevices -> [multi : BOOLEAN, fn : [Functions -> Cards \cup {Boot!Absent}]]]

(* What kernelMain has yet to do is one of these.                          *)
Scanning == <<"pci", "activate", "pit", "interrupts">>
Activating == <<"activate", "pit", "interrupts">>
NoTimer == <<"pit", "interrupts">>
Quiet == <<"interrupts">>
Stages == {Boot!Order, Scanning, Activating, NoTimer, Quiet, <<>>}

(* Driver k of ds keeps its line in hs, unless a later one took it.        *)
LineKept(k, ds, hs) ==
    \/ hs[ds[k].line] = Boot!Pit
    \/ /\ hs[ds[k].line] \in k .. Len(ds) /\ hs[ds[k].line] # Boot!None
       /\ ds[hs[ds[k].line]].line = ds[k].line

(* A driver was made for a function that the scan has been to, and it      *)
(* goes by that function's registers.                                      *)
MadeFor(d, scan) ==
    IF d.kind \in {"amd", "rtl"}
    THEN /\ d.card \in Places \ scan
         /\ v1[d.card[1]].fn[d.card[2]].line = d.line
         /\ d.card[2] = 0 \/ v1[d.card[1]].multi = TRUE
         /\ d.kind = "amd" => d.ports = Boot!PortBase(d.card)
    ELSE d.card = <<>> /\ d.ports = <<>>

(* The base that all RTL8139s share is the last one's.                     *)
BaseKept(k, ds, base) ==
    ds[k].kind = "rtl" =>
        \E j \in k .. Len(ds) : ds[j].kind = "rtl" /\ base = Boot!PortBase(ds[j].card)

BootTypes ==
    /\ v1 \in PciType /\ v2 \in Stages /\ v3 \subseteq Places
    /\ v4 \in Seq(DriverType) /\ v7 \in 0 .. Len(v4)
    /\ v5 \in [Boot!Lines -> {Boot!None, Boot!Pit} \cup 1 .. Len(v4)]
    /\ v8 \subseteq Boot!Lines /\ v9 = {}

(* What each stage of kernelMain leaves behind it.                         *)
StagesRight ==
    /\ v2 = Boot!Order => v4 = <<>> /\ v5 = [l \in Boot!Lines |-> Boot!None]
    /\ v2 # Boot!Order =>
          /\ Len(v4) >= 2
          /\ v5[Boot!KeyboardLine] # Boot!None /\ v5[Boot!MouseLine] # Boot!None
    /\ v2 \in {NoTimer, Quiet, <<>>} => v7 = Len(v4)
    /\ v2 \in {Quiet, <<>>} => v5[Boot!TimerLine] = Boot!Pit

DriversRight ==
    \A k \in 1 .. Len(v4) :
        /\ LineKept(k, v4, v5) /\ MadeFor(v4[k], v3) /\ BaseKept(k, v4, v6)
        /\ v4[k].card # <<>> => \A j \in 1 .. Len(v4) : v4[j].card = v4[k].card => j = k

(* Only a line that somebody has registered for is raised, besides the     *)
(* two that are never quiet.                                               *)
RaisedRight ==
    \A l \in v8 : l \in {Boot!TimerLine, Boot!KeyboardLine} \/ v5[l] # Boot!None

BootProof == BootTypes /\ StagesRight /\ DriversRight /\ RaisedRight

(* The marks of no card and of no base are no places on the bus.           *)
LEMMA NoPlace == <<>> \notin Places /\ <<"?">> \notin Places
<1>1. \A p \in Places : DOMAIN p = 1 .. 2
  BY DEF Places
<1>2. DOMAIN <<>> = 1 .. 0 /\ DOMAIN <<"?">> = 1 .. 1
  OBVIOUS
<1>3. 2 \in 1 .. 2 /\ 2 \notin 1 .. 1 /\ 2 \notin 1 .. 0
  OBVIOUS
<1> QED
  BY <1>1, <1>2, <1>3, Zenon

(* The stages of kernelMain can be told apart.                             *)
LEMMA StagesDiffer ==
    /\ Boot!Order # Scanning /\ Boot!Order # Activating /\ Boot!Order # NoTimer
    /\ Boot!Order # Quiet /\ Boot!Order # <<>>
    /\ Scanning # Activating /\ Scanning # NoTimer /\ Scanning # Quiet /\ Scanning # <<>>
    /\ Activating # NoTimer /\ Activating # Quiet /\ Activating # <<>>
    /\ NoTimer # Quiet /\ NoTimer # <<>> /\ Quiet # <<>>
<1>1. /\ Len(Boot!Order) = 5 /\ Len(Scanning) = 4 /\ Len(Activating) = 3
      /\ Len(NoTimer) = 2 /\ Len(Quiet) = 1
  BY DEF Boot!Order, Scanning, Activating, NoTimer, Quiet
<1>2. Len(<<>>) = 0
  OBVIOUS
<1>3. \A s, t : Len(s) # Len(t) => s # t
  OBVIOUS
<1>4. 5 # 4 /\ 5 # 3 /\ 5 # 2 /\ 5 # 1 /\ 5 # 0 /\ 4 # 3 /\ 4 # 2 /\ 4 # 1 /\ 4 # 0
      /\ 3 # 2 /\ 3 # 1 /\ 3 # 0 /\ 2 # 1 /\ 2 # 0 /\ 1 # 0
  OBVIOUS
<1> QED
  BY <1>1, <1>2, <1>3, <1>4, Zenon

(* What is to be done at each stage, and what then remains.                *)
LEMMA StageOf ==
    ASSUME v2 \in Stages
    PROVE  /\ Boot!At("drivers") => v2 = Boot!Order /\ Tail(v2) = Scanning
           /\ Boot!At("pci") => v2 = Scanning /\ Tail(v2) = Activating
           /\ Boot!At("activate") => v2 = Activating /\ Tail(v2) = NoTimer
           /\ Boot!At("pit") => v2 = NoTimer /\ Tail(v2) = Quiet
           /\ Boot!At("interrupts") => v2 = Quiet /\ Tail(v2) = <<>>
           /\ Boot!InterruptsOn => v2 = <<>>
<1>1. CASE v2 = Boot!Order
  <2>1. Head(v2) = "drivers" /\ Tail(v2) = Scanning
    BY <1>1 DEF Boot!Order, Scanning
  <2>2. v2[5] = "interrupts" /\ 5 \in DOMAIN v2
    BY <1>1 DEF Boot!Order
  <2> QED
    BY <1>1, <2>1, <2>2 DEF Boot!At, Boot!InterruptsOn
<1>2. CASE v2 = Scanning
  <2>1. Head(v2) = "pci" /\ Tail(v2) = Activating
    BY <1>2 DEF Activating, Scanning
  <2>2. v2[4] = "interrupts" /\ 4 \in DOMAIN v2
    BY <1>2 DEF Scanning
  <2> QED
    BY <1>2, <2>1, <2>2 DEF Boot!At, Boot!InterruptsOn
<1>3. CASE v2 = Activating
  <2>1. Head(v2) = "activate" /\ Tail(v2) = NoTimer
    BY <1>3 DEF Activating, NoTimer
  <2>2. v2[3] = "interrupts" /\ 3 \in DOMAIN v2
    BY <1>3 DEF Activating
  <2> QED
    BY <1>3, <2>1, <2>2 DEF Boot!At, Boot!InterruptsOn
<1>4. CASE v2 = NoTimer
  <2>1. Head(v2) = "pit" /\ Tail(v2) = Quiet
    BY <1>4 DEF Quiet, NoTimer
  <2>2. v2[2] = "interrupts" /\ 2 \in DOMAIN v2
    BY <1>4 DEF NoTimer
  <2> QED
    BY <1>4, <2>1, <2>2 DEF Boot!At, Boot!InterruptsOn
<1>5. CASE v2 = Quiet
  <2>1. Head(v2) = "interrupts" /\ Tail(v2) = <<>>
    BY <1>5 DEF Quiet
  <2>2. v2[1] = "interrupts" /\ 1 \in DOMAIN v2
    BY <1>5 DEF Quiet
  <2> QED
    BY <1>5, <2>1, <2>2 DEF Boot!At, Boot!InterruptsOn
<1>6. CASE v2 = <<>>
  BY <1>6 DEF Boot!At
<1> QED
  BY <1>1, <1>2, <1>3, <1>4, <1>5, <1>6 DEF Stages

(* The function that the scan comes to next.                               *)
LEMMA NextIsOne ==
    ASSUME Boot!ConstantsOK, v3 \subseteq Places, v3 # {}
    PROVE  Boot!NextFunction \in v3
<1> DEFINE T == {p[1] : p \in v3}
<1>1. \A p \in v3 : p[1] \in Nat /\ p[2] \in Nat /\ p[1] \in T
  BY DEF Places, Boot!ConstantsOK
<1>2. PICK d \in T : \A e \in T : d <= e
  <2>1. T \subseteq Nat /\ T # {}
    BY <1>1
  <2> QED
    BY <2>1, Least
<1> DEFINE U == {p[2] : p \in {q \in v3 : q[1] = d}}
<1>3. PICK f \in U : \A g \in U : f <= g
  <2>1. U \subseteq Nat /\ U # {}
    BY <1>1
  <2> QED
    BY <2>1, Least
<1>4. PICK p \in v3 : p[1] = d /\ p[2] = f
  OBVIOUS
<1>5. ASSUME NEW q \in v3 PROVE Boot!Before(p, q)
  <2>1. d <= q[1] /\ (q[1] = d => f <= q[2])
    BY <1>1, <1>2, <1>3
  <2> QED
    BY <1>1, <1>4, <2>1 DEF Boot!Before
<1> QED
  BY <1>4, <1>5 DEF Boot!NextFunction

(* Whoever drives a card's function has registered for its line.           *)
LEMMA ReachedIsServed ==
    ASSUME BootTypes, DriversRight, NEW k \in 1 .. Len(v4), Boot!Reaches(k) \in Places
    PROVE  v5[v1[Boot!Reaches(k)[1]].fn[Boot!Reaches(k)[2]].line] # Boot!None
<1>1. ASSUME NEW j \in 1 .. Len(v4), v4[j].kind \in {"amd", "rtl"},
             Boot!Reaches(k) = Boot!PortBase(v4[j].card)
      PROVE  v5[v1[Boot!Reaches(k)[1]].fn[Boot!Reaches(k)[2]].line] # Boot!None
  <2>1. Boot!Reaches(k) = v4[j].card
    BY <1>1, NoPlace DEF Boot!PortBase
  <2>2. v1[v4[j].card[1]].fn[v4[j].card[2]].line = v4[j].line
    BY <1>1 DEF DriversRight, MadeFor
  <2>3. v5[v4[j].line] # Boot!None
    BY DEF DriversRight, LineKept, Boot!None, Boot!Pit
  <2> QED
    BY SMTT(30), <2>1, <2>2, <2>3
<1>2. v4[k].kind \in {"keyboard", "mouse", "amd", "rtl"} /\ Len(v4) \in Nat
  <2>1. v4[k] \in DriverType /\ Len(v4) \in Nat
    BY SMTT(30), ElementOfSeq DEF BootTypes
  <2> QED
    BY <2>1 DEF DriverType
<1>3. CASE v4[k].kind = "rtl"
  <2>1. PICK j \in k .. Len(v4) : v4[j].kind = "rtl" /\ v6 = Boot!PortBase(v4[j].card)
    BY <1>3 DEF DriversRight, BaseKept
  <2>2. j \in 1 .. Len(v4)
    BY SMTT(30), <1>2
  <2> QED
    BY <1>1, <1>3, <2>1, <2>2 DEF Boot!Reaches
<1>4. CASE v4[k].kind = "amd"
  BY ZenonT(60), <1>1, <1>4 DEF DriversRight, MadeFor, Boot!Reaches
<1>5. CASE v4[k].kind \in {"keyboard", "mouse"}
  BY Zenon, <1>5, NoPlace DEF DriversRight, MadeFor, Boot!Reaches
<1> QED
  BY <1>2, <1>3, <1>4, <1>5

(* At first no function has been scanned and no line registered for.       *)
LEMMA BootInit ==
    ASSUME Boot!ConstantsOK, Boot!Init
    PROVE  BootProof
<1>1. /\ v1 \in PciType /\ v2 = Boot!Order /\ v3 = Places /\ v4 = <<>> /\ v7 = 0
      /\ v5 = [l \in Boot!Lines |-> Boot!None] /\ v8 = {} /\ v9 = {}
  BY DEF Boot!Init, PciType, Places
<1>2. Len(v4) = 0 /\ v4 \in Seq(DriverType)
  BY <1>1
<1>3. BootTypes
  BY <1>1, <1>2 DEF BootTypes, Stages
<1>4. StagesRight
  BY <1>1, StagesDiffer DEF StagesRight
<1>5. DriversRight /\ RaisedRight
  BY <1>1, <1>2 DEF DriversRight, RaisedRight
<1> QED
  BY <1>3, <1>4, <1>5 DEF BootProof

(* The drivers stay right when none is added and no line changes hands,    *)
(* but for a line that is given to the timer.                              *)
LEMMA DriversStay ==
    ASSUME BootTypes, DriversRight, v1' = v1, v3' \subseteq v3, v4' = v4, v6' = v6,
           \A l \in Boot!Lines : v5'[l] = v5[l] \/ v5'[l] = Boot!Pit
    PROVE  DriversRight'
<1>1. SUFFICES ASSUME NEW k \in 1 .. Len(v4)
               PROVE  /\ LineKept(k, v4, v5') /\ MadeFor(v4[k], v3)' /\ BaseKept(k, v4, v6)'
                      /\ v4[k].card # <<>> =>
                            \A j \in 1 .. Len(v4) : v4[j].card = v4[k].card => j = k
  BY DEF DriversRight
<1>2. /\ LineKept(k, v4, v5) /\ MadeFor(v4[k], v3) /\ BaseKept(k, v4, v6)
      /\ v4[k].card # <<>> => \A j \in 1 .. Len(v4) : v4[j].card = v4[k].card => j = k
  BY <1>1 DEF DriversRight
<1>3. v4[k].line \in Boot!Lines
  <2>1. v4[k] \in DriverType
    BY ElementOfSeq DEF BootTypes
  <2> QED
    BY <2>1 DEF DriverType
<1>4. LineKept(k, v4, v5')
  BY SMTT(60), <1>2, <1>3 DEF LineKept
<1>5. MadeFor(v4[k], v3)'
  BY SMTT(60), <1>2 DEF MadeFor, Boot!PortBase
<1>6. BaseKept(k, v4, v6)'
  BY <1>2 DEF BaseKept, Boot!PortBase
<1> QED
  BY <1>2, <1>4, <1>5, <1>6

(* A driver that the scan adds.                                            *)
LEMMA DriverAdded ==
    ASSUME BootTypes, DriversRight, v1' = v1, NEW p \in v3, v3' = v3 \ {p},
           NEW d \in DriverType, d.card = p, d.kind \in {"amd", "rtl"}, MadeFor(d, v3'),
           Boot!AddDriver(d), v6' = IF d.kind = "rtl" THEN Boot!PortBase(p) ELSE v6
    PROVE  /\ v4' \in Seq(DriverType) /\ Len(v4') = Len(v4) + 1
           /\ v5' \in [Boot!Lines -> {Boot!None, Boot!Pit} \cup 1 .. Len(v4')]
           /\ \A l \in Boot!Lines : v5[l] # Boot!None => v5'[l] # Boot!None
           /\ DriversRight'
<1> DEFINE n == Len(v4)
<1>1. /\ n \in Nat /\ v4 \in Seq(DriverType) /\ v4' = Append(v4, d)
      /\ v5' = [v5 EXCEPT ![d.line] = n + 1]
  BY DEF BootTypes, Boot!AddDriver
<1>2. /\ v4' \in Seq(DriverType) /\ Len(v4') = n + 1 /\ v4'[n + 1] = d
      /\ \A k \in 1 .. n : v4'[k] = v4[k]
  BY <1>1, AppendProperties
<1>3. v5 \in [Boot!Lines -> {Boot!None, Boot!Pit} \cup 1 .. n] /\ d.line \in Boot!Lines
  BY DEF BootTypes, DriverType
<1>4. v5'[d.line] = n + 1 /\ \A l \in Boot!Lines : l # d.line => v5'[l] = v5[l]
  BY <1>1, <1>3
<1>5. v5' \in [Boot!Lines -> {Boot!None, Boot!Pit} \cup 1 .. (n + 1)]
  <2>1. \A l \in Boot!Lines : v5'[l] \in {Boot!None, Boot!Pit} \cup 1 .. (n + 1)
    BY <1>1, <1>3, <1>4
  <2>2. v5' = [l \in Boot!Lines |-> v5'[l]]
    BY <1>1, <1>3
  <2> QED
    BY <2>1, <2>2
<1>6. \A l \in Boot!Lines : v5[l] # Boot!None => v5'[l] # Boot!None
  BY <1>1, <1>4 DEF Boot!None
<1> HIDE DEF n
<1>7. ASSUME NEW k \in 1 .. n
      PROVE  /\ LineKept(k, v4', v5') /\ MadeFor(v4[k], v3)' /\ BaseKept(k, v4, v6)'
             /\ v4[k].card # p
             /\ v4[k].card # <<>> => \A j \in 1 .. n : v4[j].card = v4[k].card => j = k
  <2>1. /\ LineKept(k, v4, v5) /\ MadeFor(v4[k], v3) /\ BaseKept(k, v4, v6)
        /\ v4[k].card # <<>> => \A j \in 1 .. n : v4[j].card = v4[k].card => j = k
    BY DEF DriversRight, n
  <2>2. v4[k].line \in Boot!Lines
    <3>1. v4[k] \in DriverType
      BY <1>1, ElementOfSeq DEF n
    <3> QED
      BY <3>1 DEF DriverType
  <2>3. LineKept(k, v4', v5')
    <3> DEFINE l == v4[k].line
    <3>1. v4'[k].line = l
      BY <1>2
    <3>2. CASE l = d.line
      BY <1>1, <1>2, <1>4, <3>1, <3>2 DEF LineKept, Boot!None
    <3>3. CASE l # d.line
      <4>1. v5'[l] = v5[l]
        BY <1>4, <2>2, <3>3
      <4>2. v5[l] = Boot!Pit \/ (v5[l] \in k .. n /\ v5[l] # Boot!None /\ v4[v5[l]].line = l)
        BY <2>1 DEF LineKept, n
      <4>3. ASSUME v5[l] \in k .. n
            PROVE  v5[l] \in k .. n + 1 /\ v4'[v5[l]] = v4[v5[l]]
        BY SMTT(30), <1>1, <1>2, <4>3
      <4> QED
        BY <1>2, <3>1, <4>1, <4>2, <4>3 DEF LineKept
    <3> QED
      BY <3>2, <3>3
  <2>4. MadeFor(v4[k], v3)'
    <3>1. MadeFor(v4[k], v3')
      BY <2>1 DEF MadeFor
    <3>2. v4'[k] = v4[k]
      BY <1>2
    <3> QED
      BY Zenon, <3>1, <3>2 DEF MadeFor, Boot!PortBase
  <2>5. BaseKept(k, v4, v6)'
    <3> SUFFICES ASSUME v4[k].kind = "rtl"
                 PROVE  \E j \in k .. n + 1 :
                           v4'[j].kind = "rtl" /\ v6' = Boot!PortBase(v4'[j].card)
      BY <1>2 DEF BaseKept, Boot!PortBase
    <3>1. CASE d.kind = "rtl"
      BY <1>1, <1>2, <3>1
    <3>2. CASE d.kind = "amd"
      <4>1. PICK j \in k .. n : v4[j].kind = "rtl" /\ v6 = Boot!PortBase(v4[j].card)
        BY <2>1 DEF BaseKept, n
      <4>2. j \in 1 .. n /\ j \in k .. n + 1 /\ v6' = v6
        BY <1>1, <3>2
      <4> QED
        BY <1>2, <4>1, <4>2
    <3> QED
      BY SMTT(30), <3>1, <3>2
  <2>6. v4[k].card # p
    <3>1. p \in Places
      BY DEF BootTypes
    <3> QED
      BY <2>1, <3>1, NoPlace DEF MadeFor
  <2> QED
    BY <2>1, <2>3, <2>4, <2>5, <2>6
<1>8. ASSUME NEW k \in Nat, k = n + 1
      PROVE  LineKept(k, v4', v5') /\ MadeFor(v4[k], v3)' /\ BaseKept(k, v4, v6)'
  <2>1. v4'[k] = d /\ Len(v4') = k /\ v5'[d.line] = k /\ k \in k .. k /\ k # 0
    BY <1>1, <1>2, <1>4, <1>8
  <2>2. LineKept(k, v4', v5')
    BY <2>1 DEF LineKept, Boot!None
  <2>3. MadeFor(v4[k], v3)'
    BY <2>1 DEF MadeFor, Boot!PortBase
  <2>4. BaseKept(k, v4, v6)'
    BY <2>1 DEF BaseKept, Boot!PortBase
  <2> QED
    BY <2>2, <2>3, <2>4
<1>9. DriversRight'
  <2>1. SUFFICES ASSUME NEW k \in 1 .. n + 1
                 PROVE  /\ LineKept(k, v4', v5') /\ MadeFor(v4[k], v3)' /\ BaseKept(k, v4, v6)'
                        /\ v4'[k].card # <<>> =>
                              \A j \in 1 .. n + 1 : v4'[j].card = v4'[k].card => j = k
    BY <1>2 DEF DriversRight
  <2>2. CASE k \in 1 .. n
    <3>1. MadeFor(v4[k], v3)'
      BY Zenon, <1>2, <1>7, <2>2 DEF MadeFor, Boot!PortBase
    <3>2. ASSUME v4'[k].card # <<>>, NEW j \in 1 .. n + 1, v4'[j].card = v4'[k].card PROVE j = k
      <4>1. CASE j \in 1 .. n
        BY <1>2, <1>7, <2>2, <3>2, <4>1
      <4>2. CASE j = n + 1
        BY <1>2, <1>7, <2>2, <3>2, <4>2
      <4> QED
        BY <1>1, <4>1, <4>2
    <3> QED
      BY <1>7, <2>2, <3>1, <3>2
  <2>3. CASE k = n + 1
    <3>0. k \in Nat /\ k = n + 1
      BY <1>1, <2>3
    <3>1. LineKept(k, v4', v5') /\ MadeFor(v4[k], v3)' /\ BaseKept(k, v4, v6)'
      BY <1>8, <3>0, Zenon
    <3>2. ASSUME NEW j \in 1 .. n + 1, v4'[j].card = v4'[k].card PROVE j = k
      <4>1. CASE j \in 1 .. n
        BY <1>2, <1>7, <2>3, <3>2, <4>1
      <4> QED
        BY <1>1, <2>3, <4>1
    <3> QED
      BY <3>1, <3>2
  <2>4. k \in 1 .. n \/ k = n + 1
    BY <1>1
  <2> QED
    BY <2>2, <2>3, <2>4
<1> QED
  BY <1>2, <1>5, <1>6, <1>9 DEF n

(* What the scan leaves as it was but for the functions it has reached.    *)
LEMMA ScanStays ==
    ASSUME BootProof, v2 = Scanning, v2' \in {Scanning, Activating}, v3' \subseteq v3,
           v1' = v1, v4' = v4, v5' = v5, v6' = v6, v7' = v7, v8' = v8, v9' = v9
    PROVE  BootProof'
<1>1. DriversRight'
  BY DriversStay DEF BootProof
<1>2. BootTypes'
  BY DEF BootProof, BootTypes, Stages
<1>3. StagesRight' /\ RaisedRight'
  BY StagesDiffer DEF BootProof, StagesRight, RaisedRight
<1> QED
  BY <1>1, <1>2, <1>3 DEF BootProof

(* The scan adds a driver for the next function, or none.                  *)
LEMMA ScanStep ==
    ASSUME Boot!ConstantsOK, BootProof, Boot!SelectDrivers
    PROVE  BootProof'
<1>1. /\ v2 = Scanning /\ Tail(v2) = Activating
      /\ v1' = v1 /\ v7' = v7 /\ v8' = v8 /\ v9' = v9
  BY StageOf DEF BootProof, BootTypes, Boot!SelectDrivers
<1>2. CASE v3 = {}
  <2>1. v2' = Activating /\ UNCHANGED <<v3, v4, v5, v6>>
    BY <1>1, <1>2 DEF Boot!SelectDrivers
  <2> QED
    BY <1>1, <2>1, ScanStays
<1>3. CASE v3 # {}
  <2>1. PICK p : p = Boot!NextFunction
    OBVIOUS
  <2>2. p \in v3 /\ p \in Places
    BY <1>3, <2>1, NextIsOne DEF BootProof, BootTypes
  <2> DEFINE c == v1[p[1]].fn[p[2]]
  <2>3. /\ v3' = v3 \ {p} /\ v2' = v2
        /\ \/ UNCHANGED <<v4, v5, v6>>
           \/ /\ c.kind \in {"amd", "rtl"} /\ Boot!GetDriver(p, c)
              /\ p[2] \in (IF v1[p[1]].multi THEN Functions ELSE {0})
    BY <1>3, <2>1 DEF Boot!SelectDrivers, Boot!DeviceHasFunctions
  <2>4. CASE UNCHANGED <<v4, v5, v6>>
    BY <1>1, <2>3, <2>4, ScanStays
  <2>5. ASSUME c.kind \in {"amd", "rtl"}, NEW d \in DriverType, d.card = p, d.kind = c.kind,
               d.line = c.line, Boot!AddDriver(d), d.kind = "amd" => d.ports = Boot!PortBase(p),
               p[2] = 0 \/ v1[p[1]].multi = TRUE,
               v6' = IF d.kind = "rtl" THEN Boot!PortBase(p) ELSE v6
        PROVE  BootProof'
    <3>1. MadeFor(d, v3')
      BY SMTT(30), <2>2, <2>3, <2>5 DEF MadeFor
    <3>2. /\ v4' \in Seq(DriverType) /\ Len(v4') = Len(v4) + 1
          /\ v5' \in [Boot!Lines -> {Boot!None, Boot!Pit} \cup 1 .. Len(v4')]
          /\ \A l \in Boot!Lines : v5[l] # Boot!None => v5'[l] # Boot!None
          /\ DriversRight'
      BY <1>1, <2>2, <2>3, <2>5, <3>1, DriverAdded DEF BootProof
    <3>3. /\ v1 \in PciType /\ v2 \in Stages /\ v3' \subseteq Places /\ v7 \in 0 .. Len(v4)
          /\ v8 \subseteq Boot!Lines /\ v9 = {} /\ Len(v4) \in Nat
      BY <2>3 DEF BootProof, BootTypes
    <3>4. v7 \in 0 .. Len(v4')
      BY <3>2, <3>3
    <3>5. BootTypes'
      BY <1>1, <2>3, <3>2, <3>3, <3>4 DEF BootTypes
    <3>6. StagesRight'
      <4>1. Len(v4) >= 2 /\ v5[Boot!KeyboardLine] # Boot!None /\ v5[Boot!MouseLine] # Boot!None
        BY <1>1, StagesDiffer DEF BootProof, StagesRight
      <4>2. Boot!KeyboardLine \in Boot!Lines /\ Boot!MouseLine \in Boot!Lines
        BY DEF Boot!Lines
      <4>3. /\ v5'[Boot!KeyboardLine] # Boot!None /\ v5'[Boot!MouseLine] # Boot!None
        BY <3>2, <4>1, <4>2
      <4>4. Len(v4') >= 2
        BY <3>2, <3>3, <4>1
      <4> QED
        BY <1>1, <2>3, <4>3, <4>4, StagesDiffer DEF StagesRight
    <3>7. RaisedRight'
      BY <1>1, <3>2, <3>3 DEF BootProof, RaisedRight
    <3> QED
      BY <3>2, <3>5, <3>6, <3>7 DEF BootProof
  <2>6. CASE /\ c.kind \in {"amd", "rtl"} /\ Boot!GetDriver(p, c)
             /\ p[2] \in (IF v1[p[1]].multi THEN Functions ELSE {0})
    <3>1. /\ v1[p[1]].multi \in BOOLEAN /\ c \in Cards \cup {Boot!Absent}
      BY <2>2 DEF BootProof, BootTypes, PciType, Places
    <3>2. c \in Cards /\ c.line \in Boot!Lines
      BY <2>6, <3>1 DEF Boot!Absent, Boot!Lines
    <3>3. Boot!PortBase(p) \in Places \cup {<<>>, <<"?">>}
      BY <2>2 DEF Boot!PortBase
    <3>4. p[2] = 0 \/ v1[p[1]].multi = TRUE
      BY <2>6, <3>1
    <3> HIDE DEF c
    <3>5. CASE c.kind = "amd" /\ Boot!AddDriver(Boot!Driver("amd", p, c.line, Boot!PortBase(p)))
               /\ UNCHANGED v6
      <4> DEFINE d == Boot!Driver("amd", p, c.line, Boot!PortBase(p))
      <4>1. /\ d \in DriverType /\ d.card = p /\ d.kind = c.kind /\ d.line = c.line
            /\ d.ports = Boot!PortBase(p)
        BY <2>2, <3>2, <3>3, <3>5 DEF Boot!Driver, DriverType
      <4> HIDE DEF d
      <4>2. Boot!AddDriver(d)
        BY SMTT(30), <3>5 DEF d
      <4> QED
        BY <2>5, <2>6, <3>4, <3>5, <4>1, <4>2 DEF c
    <3>6. CASE c.kind = "rtl" /\ v6' = Boot!PortBase(p)
               /\ Boot!AddDriver(Boot!Driver("rtl", p, c.line, <<>>))
      <4> DEFINE d == Boot!Driver("rtl", p, c.line, <<>>)
      <4>1. /\ d \in DriverType /\ d.card = p /\ d.kind = c.kind /\ d.line = c.line
        BY <2>2, <3>2, <3>6 DEF Boot!Driver, DriverType
      <4> HIDE DEF d
      <4>2. Boot!AddDriver(d)
        BY <3>6 DEF d
      <4> QED
        BY <2>5, <2>6, <3>4, <3>6, <4>1, <4>2 DEF c
    <3>7. CASE UNCHANGED <<v4, v5, v6>>
      BY <2>4, <3>7
    <3> QED
      BY <2>6, <3>5, <3>6, <3>7 DEF Boot!GetDriver
  <2> QED
    BY <2>3, <2>4, <2>6
<1> QED
  BY <1>2, <1>3

(* The keyboard and the mouse, which are always there, come first.         *)
LEMMA LoadStep ==
    ASSUME Boot!ConstantsOK, BootProof, Boot!LoadDrivers
    PROVE  BootProof'
<1> DEFINE a == Boot!Driver("keyboard", <<>>, Boot!KeyboardLine, <<>>)
           b == Boot!Driver("mouse", <<>>, Boot!MouseLine, <<>>)
<1>1. /\ v2 = Boot!Order /\ v2' = Scanning /\ v4' = <<a, b>>
      /\ v5' = [v5 EXCEPT ![Boot!KeyboardLine] = 1, ![Boot!MouseLine] = 2]
      /\ UNCHANGED <<v1, v3, v6, v7, v8, v9>>
  BY StageOf DEF BootProof, BootTypes, Boot!LoadDrivers
<1>2. /\ Boot!KeyboardLine \in Boot!Lines /\ Boot!MouseLine \in Boot!Lines
      /\ Boot!KeyboardLine # Boot!MouseLine
  BY DEF Boot!Lines, Boot!KeyboardLine, Boot!MouseLine
<1>3. /\ a \in DriverType /\ a.kind = "keyboard" /\ a.card = <<>> /\ a.ports = <<>>
      /\ a.line = Boot!KeyboardLine
      /\ b \in DriverType /\ b.kind = "mouse" /\ b.card = <<>> /\ b.ports = <<>>
      /\ b.line = Boot!MouseLine
  BY <1>2 DEF Boot!Driver, DriverType
<1> HIDE DEF a, b
<1>4. v4' \in Seq(DriverType) /\ v4'[1] = a /\ v4'[2] = b
  BY <1>1, <1>3
<1>5. Len(v4') = 2
  BY <1>1
<1>6. v5 = [l \in Boot!Lines |-> Boot!None] /\ v4 = <<>>
  BY <1>1 DEF BootProof, StagesRight
<1>7. /\ v5' \in [Boot!Lines -> {0, 1, 2}]
      /\ v5'[Boot!KeyboardLine] = 1 /\ v5'[Boot!MouseLine] = 2
  BY <1>1, <1>2, <1>6 DEF Boot!None
<1>8. BootTypes'
  <2>1. {0, 1, 2} \subseteq {Boot!None, Boot!Pit} \cup 1 .. 2
    BY DEF Boot!None
  <2>2. v5' \in [Boot!Lines -> {Boot!None, Boot!Pit} \cup 1 .. Len(v4')]
    BY <1>5, <1>7, <2>1
  <2>3. v7' \in 0 .. Len(v4')
    <3>1. v7 \in 0 .. Len(v4)
      BY DEF BootProof, BootTypes
    <3>2. Len(v4) = 0
      BY <1>6
    <3> QED
      BY <1>1, <1>5, <3>1, <3>2
  <2> QED
    BY <1>1, <1>4, <2>2, <2>3 DEF BootProof, BootTypes, Stages
<1>9. StagesRight'
  BY <1>1, <1>5, <1>7, StagesDiffer DEF StagesRight, Boot!None
<1>10. DriversRight'
  <2>1. ASSUME NEW k \in {1, 2}
        PROVE  /\ LineKept(k, v4', v5') /\ MadeFor(v4[k], v3)' /\ BaseKept(k, v4, v6)'
               /\ v4'[k].card = <<>>
    <3>1. CASE k = 1
      BY <1>3, <1>4, <1>5, <1>7, <3>1 DEF LineKept, MadeFor, BaseKept, Boot!None
    <3>2. CASE k = 2
      BY <1>3, <1>4, <1>5, <1>7, <3>2 DEF LineKept, MadeFor, BaseKept, Boot!None
    <3> QED
      BY <3>1, <3>2
  <2>2. 1 .. Len(v4') = {1, 2}
    BY <1>5
  <2> QED
    BY <2>1, <2>2 DEF DriversRight
<1>11. RaisedRight'
  <2>1. \A l \in v8 : l \in {Boot!TimerLine, Boot!KeyboardLine}
    BY <1>6 DEF BootProof, BootTypes, RaisedRight
  <2> QED
    BY <1>1, <2>1 DEF RaisedRight
<1> QED
  BY <1>8, <1>9, <1>10, <1>11 DEF BootProof

(* Activation, the timer and the interrupts, in this order.                *)
LEMMA LaterStep ==
    ASSUME BootProof, Boot!ActivateAll \/ Boot!LoadPit \/ Boot!Activate
    PROVE  BootProof'
<1>1. CASE Boot!ActivateAll
  <2>1. /\ v2 = Activating /\ v1' = v1 /\ v3' = v3 /\ v4' = v4 /\ v5' = v5 /\ v6' = v6
        /\ v8' = v8 /\ v9' = v9
        /\ \/ v7 = Len(v4) /\ v2' = NoTimer /\ v7' = v7
           \/ v7 # Len(v4) /\ v7' = v7 + 1 /\ v2' = v2
    BY <1>1, StageOf DEF BootProof, BootTypes, Boot!ActivateAll
  <2>2. DriversRight'
    BY <2>1, DriversStay DEF BootProof
  <2>3. v7' \in 0 .. Len(v4)
    <3>1. v7 \in 0 .. Len(v4) /\ Len(v4) \in Nat
      BY DEF BootProof, BootTypes
    <3> QED
      BY <2>1, <3>1
  <2>4. BootTypes'
    BY <2>1, <2>3 DEF BootProof, BootTypes, Stages
  <2>5. StagesRight' /\ RaisedRight'
    BY <2>1, StagesDiffer DEF BootProof, StagesRight, RaisedRight
  <2> QED
    BY <2>2, <2>4, <2>5 DEF BootProof
<1>2. CASE Boot!LoadPit
  <2>1. /\ v2 = NoTimer /\ v2' = Quiet /\ v5' = [v5 EXCEPT ![Boot!TimerLine] = Boot!Pit]
        /\ v1' = v1 /\ v3' = v3 /\ v4' = v4 /\ v6' = v6 /\ v7' = v7 /\ v8' = v8 /\ v9' = v9
    BY <1>2, StageOf DEF BootProof, BootTypes, Boot!LoadPit
  <2>2. /\ v5 \in [Boot!Lines -> {Boot!None, Boot!Pit} \cup 1 .. Len(v4)]
        /\ Boot!TimerLine \in Boot!Lines /\ Boot!KeyboardLine \in Boot!Lines
        /\ Boot!MouseLine \in Boot!Lines
    BY DEF BootProof, BootTypes, Boot!Lines
  <2>3. /\ v5' \in [Boot!Lines -> {Boot!None, Boot!Pit} \cup 1 .. Len(v4)]
        /\ v5'[Boot!TimerLine] = Boot!Pit
        /\ \A l \in Boot!Lines : v5'[l] = v5[l] \/ v5'[l] = Boot!Pit
    BY <2>1, <2>2
  <2>4. DriversRight'
    BY <2>1, <2>3, DriversStay DEF BootProof
  <2>5. BootTypes'
    BY <2>1, <2>3 DEF BootProof, BootTypes, Stages
  <2>6. StagesRight'
    BY <2>1, <2>2, <2>3, StagesDiffer DEF BootProof, StagesRight, Boot!Pit, Boot!None
  <2>7. RaisedRight'
    BY <2>1, <2>3 DEF BootProof, BootTypes, RaisedRight, Boot!Pit, Boot!None
  <2> QED
    BY <2>4, <2>5, <2>6, <2>7 DEF BootProof
<1>3. CASE Boot!Activate
  <2>1. v2 = Quiet /\ v2' = <<>> /\ UNCHANGED <<v1, v3, v4, v5, v6, v7, v8, v9>>
    BY <1>3, StageOf DEF BootProof, BootTypes, Boot!Activate
  <2>2. DriversRight'
    BY <2>1, DriversStay DEF BootProof
  <2>3. BootTypes'
    BY <2>1 DEF BootProof, BootTypes, Stages
  <2>4. StagesRight' /\ RaisedRight'
    BY <2>1, StagesDiffer DEF BootProof, StagesRight, RaisedRight
  <2> QED
    BY <2>2, <2>3, <2>4 DEF BootProof
<1> QED
  BY <1>1, <1>2, <1>3

(* Nothing is raised that nobody has registered for, and nothing that is   *)
(* delivered meets a driver that is not activated.                         *)
LEMMA LineStep ==
    ASSUME BootProof, NEW line \in Boot!Lines, Boot!Raise(line) \/ Boot!Deliver(line)
    PROVE  BootProof'
<1>1. UNCHANGED <<v1, v2, v3, v4, v5, v6, v7>>
  BY DEF Boot!Raise, Boot!Deliver
<1>2. DriversRight' /\ StagesRight'
  BY <1>1, DriversStay DEF BootProof, StagesRight
<1>3. BootTypes
  BY SMTT(30) DEF BootProof
<1>4. CASE Boot!Raise(line)
  <2>1. v8' = v8 \cup {line} /\ v9' = v9
    BY <1>4 DEF Boot!Raise
  <2>2. BootTypes'
    BY <1>1, <1>3, <2>1 DEF BootTypes
  <2>3. CASE line = Boot!MouseLine /\ v7 >= 2
    <3>1. v2 # Boot!Order
      <4>1. ASSUME v2 = Boot!Order PROVE FALSE
        <5>1. v4 = <<>> /\ v7 \in 0 .. Len(v4)
          BY <1>3, <4>1 DEF BootProof, BootTypes, StagesRight
        <5>2. v7 \in 0 .. 0
          BY <5>1
        <5> QED
          BY <2>3, <5>2
      <4> QED
        BY <4>1
    <3>2. v5[line] # Boot!None
      BY <2>3, <3>1 DEF BootProof, StagesRight
    <3> QED
      BY <1>1, <1>2, <2>1, <2>2, <3>2 DEF BootProof, RaisedRight
  <2>4. ASSUME NEW k \in 1 .. v7, Boot!Reaches(k) \in Places,
               v1[Boot!Reaches(k)[1]].fn[Boot!Reaches(k)[2]].line = line
        PROVE  BootProof'
    <3>1. k \in 1 .. Len(v4)
      <4>1. v7 \in 0 .. Len(v4) /\ Len(v4) \in Nat
        BY <1>3 DEF BootTypes
      <4> QED
        BY <4>1
    <3>2. v5[line] # Boot!None
      BY <1>3, <2>4, <3>1, ReachedIsServed DEF BootProof
    <3> QED
      BY <1>1, <1>2, <2>1, <2>2, <3>2 DEF BootProof, RaisedRight
  <2>5. CASE line \in {Boot!TimerLine, Boot!KeyboardLine}
    BY <1>1, <1>2, <2>1, <2>2, <2>5 DEF BootProof, RaisedRight
  <2> QED
    BY <1>4, <2>3, <2>4, <2>5 DEF Boot!Raise, Boot!Alive, Places
<1>5. CASE Boot!Deliver(line)
  <2>1. /\ v2 = <<>> /\ line \in v8 /\ v8' = v8 \ {line}
        /\ v9' = IF Boot!Ready(v5[line]) THEN v9 ELSE v9 \cup {line}
    BY <1>3, <1>5, StageOf DEF BootTypes, Boot!Deliver
  <2>2. /\ v7 = Len(v4) /\ v5[Boot!TimerLine] = Boot!Pit /\ v5[Boot!KeyboardLine] # Boot!None
    BY <2>1, StagesDiffer DEF BootProof, StagesRight
  <2>3. v5[line] # Boot!None
    BY <2>1, <2>2 DEF BootProof, RaisedRight, Boot!None, Boot!Pit
  <2>4. v5[line] \in {Boot!None, Boot!Pit} \cup 1 .. Len(v4)
    BY <1>3 DEF BootTypes
  <2>5. Boot!Ready(v5[line])
    BY <2>2, <2>3, <2>4 DEF Boot!Ready
  <2>6. BootTypes'
    BY <1>1, <1>3, <2>1, <2>5 DEF BootTypes
  <2>7. RaisedRight'
    BY <1>1, <2>1 DEF BootProof, RaisedRight
  <2> QED
    BY <1>2, <2>6, <2>7 DEF BootProof
<1> QED
  BY <1>4, <1>5

(* Every step of kernelMain, and every line that is raised meanwhile.      *)
LEMMA BootStep ==
    ASSUME Boot!ConstantsOK, BootProof, [Boot!Next]_(Boot!vars)
    PROVE  BootProof'
<1>1. CASE UNCHANGED Boot!vars
  <2>1. UNCHANGED <<v1, v2, v3, v4, v5, v6, v7, v8, v9>>
    BY <1>1 DEF Boot!vars
  <2>2. DriversRight'
    BY <2>1, DriversStay DEF BootProof
  <2> QED
    BY <2>1, <2>2 DEF BootProof, BootTypes, StagesRight, RaisedRight
<1> QED
  BY <1>1, LoadStep, ScanStep, LaterStep, LineStep DEF Boot!Next

(* What the proof carries is what was to be shown.                         *)
LEMMA BootSuffices ==
    ASSUME BootProof
    PROVE  Boot!BootInv
<1>1. BootTypes /\ v4 \in Seq(DriverType) /\ DOMAIN v4 = 1 .. Len(v4) /\ Len(v4) \in Nat
  BY DEF BootProof, BootTypes
<1>2. Boot!TypeOK /\ Boot!NothingUnhandled
  BY <1>1 DEF BootTypes, Boot!TypeOK, Boot!NothingUnhandled, Places
<1>3. Boot!LineOfLast
  <2>1. Boot!InterruptsOn => v5[Boot!TimerLine] = Boot!Pit
    BY <1>1, StageOf DEF BootProof, BootTypes, StagesRight
  <2>2. ASSUME NEW k \in 1 .. Len(v4)
        PROVE  LET h == v5[v4[k].line]
               IN  h = Boot!Pit \/ (h >= k /\ h # Boot!None /\ v4[h].line = v4[k].line)
    BY <1>1 DEF BootProof, DriversRight, LineKept
  <2> QED
    BY <1>1, <2>1, <2>2 DEF Boot!LineOfLast
<1>4. ASSUME NEW k \in 1 .. Len(v4), v4[k].card # <<>>
      PROVE  /\ v4[k].kind \in {"amd", "rtl"} /\ v4[k].card \in Places
             /\ v4[k].card[2] = 0 \/ v1[v4[k].card[1]].multi
             /\ v4[k].kind = "amd" => v4[k].ports = Boot!PortBase(v4[k].card)
             /\ \A j \in 1 .. Len(v4) : v4[j].card = v4[k].card => j = k
  BY <1>4 DEF BootProof, DriversRight, MadeFor
<1>5. Boot!OneDriverEach
  BY <1>1, <1>4 DEF Boot!OneDriverEach
<1>6. Boot!OwnCard
  <2>1. SUFFICES ASSUME NEW k \in 1 .. Len(v4), v4[k].card # <<>>, Boot!Reaches(k) # v4[k].card,
                        Boot!Reaches(k) # <<"?">>
                 PROVE  \E j \in k + 1 .. Len(v4) :
                           v4[k].kind = "rtl" /\ v4[j].kind = "rtl"
                           /\ Boot!Reaches(k) = Boot!PortBase(v4[j].card)
    BY SMTT(30), <1>1 DEF Boot!OwnCard
  <2>2. v4[k].kind = "rtl"
    BY <1>4, <2>1 DEF Boot!Reaches, Boot!PortBase
  <2>3. PICK j \in k .. Len(v4) : v4[j].kind = "rtl" /\ v6 = Boot!PortBase(v4[j].card)
    BY SMTT(30), <2>2 DEF BootProof, DriversRight, BaseKept
  <2>4. j # k
    BY Zenon, <2>1, <2>2, <2>3 DEF Boot!Reaches, Boot!PortBase
  <2>5. j \in k + 1 .. Len(v4)
    BY <1>1, <2>3, <2>4
  <2> QED
    BY <2>2, <2>3, <2>5 DEF Boot!Reaches
<1> QED
  BY <1>2, <1>3, <1>5, <1>6 DEF Boot!BootInv

----------------------------------------------------------------------------
(* Shutdown: roots v1, rsdt v2, machine v3, enabled v4, step v5, i v6,     *)
(* slept v7, result v8, written v9.                                        *)

(* Where shutdown is, what it has found out about the registers is so; it  *)
(* has come there with a table, or without one from the stack alone.       *)
AcpiProof ==
    /\ Acpi!TypeOK /\ v7 = v6
    /\ v8 = "enabled" => v4 = Acpi!Registers
    /\ v8 = "already" => "a" \in v4
    /\ v5 \in {"initAcpi", "check", "pollA", "pollB"} => v9 = "nothing"
    /\ v5 \in {"check", "pollA", "pollB"} => Acpi!Found
    /\ v5 = "pollB" => v3.b = TRUE /\ ("a" \in v4 \/ v6 = Polls)
    /\ v5 = "write" => IF Acpi!Found THEN v8 # "none" ELSE v3.stack = TRUE
    /\ v9 = "registers" => v8 # "none"
    /\ v9 = "unknown port" => v3.stack = TRUE /\ ~Acpi!Found

(* If every good one has one before it that is good or bad, every good one *)
(* has a bad one before it.                                                *)
LEMMA BadBefore ==
    ASSUME NEW S, NEW s \in Seq(S), NEW good, NEW bad,
           \A k \in DOMAIN s : s[k] = good => \E j \in 1 .. k - 1 : s[j] = good \/ s[j] \in bad
    PROVE  Acpi!Before(s, good, bad)
<1>1. SUFFICES ASSUME NEW k \in DOMAIN s, s[k] = good
               PROVE  \E j \in 1 .. k - 1 : s[j] \in bad
  BY DEF Acpi!Before
<1>2. DOMAIN s = 1 .. Len(s) /\ Len(s) \in Nat
  OBVIOUS
<1> DEFINE T == {n \in 1 .. k : s[n] = good}
<1>3. T \subseteq Nat /\ k \in T
  BY <1>1, <1>2
<1>4. PICK n \in T : \A m \in T : n <= m
  BY <1>3, Least
<1>0. n \in 1 .. k /\ s[n] = good /\ n \in DOMAIN s
  BY <1>2, <1>4
<1>6. PICK j \in 1 .. n - 1 : s[j] = good \/ s[j] \in bad
  BY <1>0
<1>7. j \in 1 .. k - 1 /\ ~(j >= n) /\ j \in 1 .. k
  BY <1>2, <1>0, <1>6
<1>8. s[j] # good
  BY <1>4, <1>7
<1> QED
  BY <1>6, <1>7, <1>8

(* Nothing has been looked for at first.                                   *)
LEMMA AcpiInit ==
    ASSUME Acpi!ConstantsOK, Acpi!Init
    PROVE  AcpiProof
BY DEF Acpi!ConstantsOK, Acpi!Init, AcpiProof, Acpi!TypeOK, Acpi!Registers

(* Whether initAcpi finds its table stays as it is.                        *)
LEMMA FoundStays ==
    ASSUME v1' = v1, v2' = v2
    PROVE  Acpi!Found' <=> Acpi!Found
BY DEF Acpi!Found, Acpi!FirstRsdt, Acpi!FirstFacp

(* The polls, and the registers that become enabled between them.          *)
LEMMA AcpiStep ==
    ASSUME Acpi!ConstantsOK, AcpiProof, [Acpi!Next]_(Acpi!vars)
    PROVE  AcpiProof'
<1>0. v6 \in 0 .. Polls /\ Polls \in Nat /\ v4 \subseteq Acpi!Registers /\ v3.b \in BOOLEAN
  BY DEF AcpiProof, Acpi!TypeOK, Acpi!ConstantsOK
<1>1. CASE Acpi!PowerOff
  <2>1. Acpi!Found' <=> Acpi!Found
    BY <1>1, FoundStays DEF Acpi!PowerOff
  <2>2. v3.stack \in BOOLEAN
    BY DEF AcpiProof, Acpi!TypeOK
  <2>3. /\ v5 = "initAcpi" /\ v5' \in {"check", "write", "done"}
        /\ v5' = "check" => Acpi!Found
        /\ v5' = "write" => ~Acpi!Found /\ v3.stack = TRUE
    BY <1>1, <2>2 DEF Acpi!PowerOff
  <2>4. UNCHANGED <<v1, v2, v3, v4, v6, v7, v8, v9>>
    BY <1>1 DEF Acpi!PowerOff
  <2> QED
    BY <2>1, <2>3, <2>4 DEF AcpiProof, Acpi!TypeOK, Acpi!Registers
<1>2. CASE Acpi!Check
  <2>1. Acpi!Found' <=> Acpi!Found
    BY <1>2, FoundStays DEF Acpi!Check
  <2> QED
    BY <1>2, <2>1 DEF Acpi!Check, AcpiProof, Acpi!TypeOK, Acpi!Registers
<1>3. ASSUME v6 # Polls, v5 \in {"pollA", "pollB"}, Acpi!Wait, UNCHANGED <<v1, v2, v3, v4, v9>>
      PROVE  AcpiProof'
  <2>1. Acpi!Found' <=> Acpi!Found
    BY <1>3, FoundStays
  <2>2. v6 + 1 \in 0 .. Polls
    BY <1>0, <1>3
  <2> QED
    BY <1>3, <2>1, <2>2 DEF Acpi!Wait, AcpiProof, Acpi!TypeOK, Acpi!Registers
<1>4. ASSUME v6 < Polls => v4 = Acpi!Registers, v5 \in {"pollA", "pollB"}, Acpi!Return,
             UNCHANGED <<v1, v2, v3, v4, v6, v9>>
      PROVE  AcpiProof'
  <2>1. Acpi!Found' <=> Acpi!Found
    BY <1>4, FoundStays
  <2>2. /\ v8' \in {"enabled", "failed"} /\ (v8' = "enabled" => v4 = Acpi!Registers)
        /\ v5' = "write" /\ v7' = v7
    BY <1>4 DEF Acpi!Return
  <2> QED
    BY <1>4, <2>1, <2>2 DEF AcpiProof, Acpi!TypeOK, Acpi!Registers
<1>6. CASE Acpi!PollA
  <2>1. v5 = "pollA" /\ UNCHANGED <<v1, v2, v3, v4, v9>>
    BY <1>6 DEF Acpi!PollA
  <2>2. CASE ~Acpi!Ends("a") /\ Acpi!Wait
    BY <1>3, <2>1, <2>2 DEF Acpi!Ends
  <2>3. CASE Acpi!Ends("a") /\ v3.b /\ v5' = "pollB" /\ UNCHANGED <<v6, v7, v8>>
    <3>1. Acpi!Found' <=> Acpi!Found
      BY <2>1, FoundStays
    <3>2. "a" \in v4 \/ v6 = Polls
      BY <2>3 DEF Acpi!Ends
    <3> QED
      BY <1>0, <2>1, <2>3, <3>1, <3>2 DEF AcpiProof, Acpi!TypeOK, Acpi!Registers
  <2>4. CASE Acpi!Ends("a") /\ ~v3.b /\ Acpi!Return /\ UNCHANGED v6
    <3>1. v6 < Polls => v4 = Acpi!Registers
      <4>1. v6 < Polls => "a" \in v4
        BY <1>0, <2>4 DEF Acpi!Ends
      <4>2. Acpi!Registers = {"a"}
        BY <2>4 DEF Acpi!Registers
      <4>3. "a" \in v4 => v4 = Acpi!Registers
        BY <1>0, <4>2, Zenon
      <4> QED
        BY <4>1, <4>3
    <3> QED
      BY <1>4, <2>1, <2>4, <3>1
  <2> QED
    BY <1>6, <2>2, <2>3, <2>4 DEF Acpi!PollA
<1>7. CASE Acpi!PollB
  <2>1. v5 = "pollB" /\ UNCHANGED <<v1, v2, v3, v4, v9>>
    BY <1>7 DEF Acpi!PollB
  <2>2. CASE ~Acpi!Ends("b") /\ Acpi!Wait
    BY <1>3, <2>1, <2>2 DEF Acpi!Ends
  <2>3. CASE Acpi!Ends("b") /\ Acpi!Return /\ UNCHANGED v6
    <3>1. v3.b = TRUE /\ ("a" \in v4 \/ v6 = Polls)
      BY <2>1 DEF AcpiProof
    <3>2. v6 < Polls => v4 = Acpi!Registers
      <4>1. v6 < Polls => "a" \in v4 /\ "b" \in v4
        BY <1>0, <2>3, <3>1 DEF Acpi!Ends
      <4>2. Acpi!Registers = {"a", "b"}
        BY <3>1 DEF Acpi!Registers
      <4>3. "a" \in v4 /\ "b" \in v4 => v4 = Acpi!Registers
        BY <1>0, <4>2, Zenon
      <4> QED
        BY <4>1, <4>3
    <3> QED
      BY <1>4, <2>1, <2>3, <3>2
  <2> QED
    BY <1>7, <2>2, <2>3 DEF Acpi!PollB
<1>8. CASE Acpi!Write
  <2>1. Acpi!Found' <=> Acpi!Found
    BY <1>8, FoundStays DEF Acpi!Write
  <2> QED
    BY <1>8, <2>1 DEF Acpi!Write, AcpiProof, Acpi!TypeOK, Acpi!Registers
<1>9. ASSUME NEW r \in {"a", "b"}, Acpi!Enable(r) PROVE AcpiProof'
  <2>1. UNCHANGED <<v1, v2, v3, v5, v6, v7, v8, v9>> /\ v4' = v4 \cup {r} /\ r \in Acpi!Registers
    BY <1>9 DEF Acpi!Enable
  <2>2. Acpi!Found' <=> Acpi!Found
    BY <2>1, FoundStays
  <2>3. Acpi!Registers' = Acpi!Registers
    BY <2>1 DEF Acpi!Registers
  <2>4. /\ v4' \subseteq Acpi!Registers /\ (v4 = Acpi!Registers => v4' = Acpi!Registers)
        /\ "a" \in v4 => "a" \in v4'
    BY <1>0, <2>1
  <2> QED
    BY ZenonT(60), <2>1, <2>2, <2>3, <2>4 DEF AcpiProof, Acpi!TypeOK
<1>10. CASE Acpi!Finished \/ UNCHANGED Acpi!vars
  <2>1. UNCHANGED <<v1, v2, v3, v4, v5, v6, v7, v8, v9>>
    BY <1>10 DEF Acpi!Finished, Acpi!vars
  <2>2. Acpi!Found' <=> Acpi!Found
    BY <2>1, FoundStays
  <2> QED
    BY ZenonT(60), <2>1, <2>2 DEF AcpiProof, Acpi!TypeOK, Acpi!Registers
<1> QED
  BY <1>1, <1>2, <1>6, <1>7, <1>8, <1>9, <1>10 DEF Acpi!Next

(* What the proof carries is what was to be shown.                         *)
LEMMA AcpiSuffices ==
    ASSUME Acpi!ConstantsOK, AcpiProof
    PROVE  Acpi!AcpiInv
<1>1. Acpi!SuccessMeansEnabled
  <2>1. v7 \in 0 .. Polls /\ Polls \in Nat
    BY DEF AcpiProof, Acpi!TypeOK, Acpi!ConstantsOK
  <2>2. v7 <= Polls
    BY <2>1
  <2> QED
    BY <2>2 DEF AcpiProof, Acpi!SuccessMeansEnabled
<1>2. v9 = "registers" => v4 = Acpi!Registers \/ v8 = "failed" \/ (v8 = "already" /\ v3.b)
  BY DEF AcpiProof, Acpi!TypeOK, Acpi!Registers
<1>3. ASSUME v9 = "unknown port"
      PROVE  \/ Acpi!Before(v1, "RSDT", {"bad RSDT"})
             \/ Acpi!Before(v2, "FACP", Acpi!FacpKinds \ {"FACP"})
  <2>1. v1 \in Seq(Acpi!RootKinds) /\ v2 \in Seq(Acpi!Skipped \cup Acpi!FacpKinds)
    BY DEF AcpiProof, Acpi!TypeOK, Acpi!ConstantsOK
  <2>2. CASE ~Acpi!FirstRsdt(v1)
    BY <2>1, <2>2, BadBefore DEF Acpi!FirstRsdt, Acpi!Checked
  <2>3. CASE ~Acpi!FirstFacp(v2)
    <3> DEFINE bad == Acpi!FacpKinds \ {"FACP"}
    <3>1. ASSUME NEW k \in DOMAIN v2, v2[k] = "FACP"
          PROVE  \E j \in 1 .. k - 1 : v2[j] = "FACP" \/ v2[j] \in bad
      <4>1. PICK j \in 1 .. k - 1 : v2[j] \notin Acpi!Skipped
        BY <2>3, <3>1 DEF Acpi!FirstFacp
      <4>2. v2[j] \in Acpi!Skipped \cup Acpi!FacpKinds
        BY <2>1, <3>1
      <4> QED
        BY <4>1, <4>2
    <3> HIDE DEF bad
    <3>2. Acpi!Before(v2, "FACP", bad)
      BY <2>1, <3>1, BadBefore
    <3> QED
      BY <3>2 DEF bad
  <2> QED
    BY <1>3, <2>2, <2>3 DEF AcpiProof, Acpi!Found
<1>4. Acpi!CommandExcused
  BY <1>2, <1>3 DEF Acpi!CommandExcused, AcpiProof
<1> QED
  BY <1>1, <1>4 DEF Acpi!AcpiInv, AcpiProof

----------------------------------------------------------------------------
(* Segments: limit v1, base v2, target v3.  The lemmas follow the numbers  *)
(* into the bytes of the descriptor and back.                              *)

(* What the descriptor says of the limit as a number, small or in pages.   *)
LEMMA StoredLimit ==
    ASSUME NEW l \in Gdt!Word
    PROVE  /\ Gdt!Stored(l) \in Nat /\ Gdt!Stored(l) \div 65536 < 16
           /\ Gdt!Small(l) => Gdt!Stored(l) = l
           /\ ~Gdt!Small(l) => Gdt!Stored(l) * 4096 + 4095 \in l - 4095 .. l
BY SMTT(60) DEF Gdt!Stored, Gdt!Small, Gdt!Pages, Gdt!Word

(* A number of 20 bits in two bytes and a half.                            *)
LEMMA TwentyBits ==
    ASSUME NEW s \in Nat, s \div 65536 < 16
    PROVE  (((s \div 65536) % 16) * 256 + ((s \div 256) % 256)) * 256 + (s % 256) = s
BY SMTT(60)

(* A number of 32 bits in four bytes.                                      *)
LEMMA FourBytes ==
    ASSUME NEW v \in Gdt!Word
    PROVE  (((v \div 16777216) * 256 + ((v \div 65536) % 256)) * 256
                 + ((v \div 256) % 256)) * 256 + (v % 256) = v
BY SMTT(60) DEF Gdt!Word

(* The flags and the high bits of the limit share a byte.                  *)
LEMMA SharedByte ==
    ASSUME NEW n \in 0 .. 15, NEW f \in {64, 192}
    PROVE  (f + n) % 16 = n /\ ((f + n) \div 64 = 3 <=> f = 192)
BY SMT

(* Base returns the address whose bytes the constructor stored.            *)
LEMMA BaseBack ==
    ASSUME NEW b \in Gdt!Word, NEW l \in Gdt!Word
    PROVE  Gdt!Base(Gdt!Encode(b, l)) = b
<1> DEFINE t == Gdt!Encode(b, l)
<1>1. /\ t[7] = b \div 16777216
      /\ t[4] = (b \div 65536) % 256
      /\ t[3] = (b \div 256) % 256
      /\ t[2] = b % 256
  BY DEF Gdt!Encode
<1> HIDE DEF t
<1>2. Gdt!Base(t) = b
  BY <1>1, FourBytes DEF Gdt!Base
<1> QED
  BY <1>2 DEF t

(* Limit returns what the constructor kept of the limit.                   *)
LEMMA LimitBack ==
    ASSUME NEW b \in Gdt!Word, NEW l \in Gdt!Word
    PROVE  Gdt!Limit(Gdt!Encode(b, l)) \in l - 4095 .. l
<1> DEFINE t == Gdt!Encode(b, l)
           s == Gdt!Stored(l)
           n == (s \div 65536) % 16
<1>1. /\ t[0] = s % 256
      /\ t[1] = (s \div 256) % 256
      /\ t[6] = Gdt!Flags(l) + n
  BY DEF Gdt!Encode
<1>2. /\ s \in Nat /\ s \div 65536 < 16
      /\ Gdt!Small(l) => s = l
      /\ ~Gdt!Small(l) => s * 4096 + 4095 \in l - 4095 .. l
  BY StoredLimit
<1>3. n \in 0 .. 15
  BY <1>2
<1>4. Gdt!Flags(l) \in {64, 192} /\ (Gdt!Flags(l) = 192 <=> ~Gdt!Small(l))
  BY DEF Gdt!Flags
<1> HIDE DEF t, s
<1>5. t[6] % 16 = n /\ (t[6] \div 64 = 3 <=> ~Gdt!Small(l))
  BY <1>1, <1>3, <1>4, SharedByte
<1>6. ((t[6] % 16) * 256 + t[1]) * 256 + t[0] = s
  BY <1>1, <1>2, <1>5, TwentyBits
<1>7. Gdt!Limit(t) = IF ~Gdt!Small(l) THEN s * 4096 + 4095 ELSE s
  BY <1>5, <1>6 DEF Gdt!Limit
<1>8. Gdt!Limit(t) \in l - 4095 .. l
  BY <1>2, <1>7 DEF Gdt!Word
<1> QED
  BY <1>8 DEF t

(* A segment's descriptor is right for every base and limit of 32 bits.    *)
GdtProof == v1 \in Gdt!Word /\ v2 \in Gdt!Word /\ Gdt!SegmentRight

(* The base and the limit are numbers of 32 bits.                          *)
LEMMA GdtInit ==
    ASSUME Gdt!ConstantsOK, Gdt!Init
    PROVE  GdtProof
BY DEF Gdt!ConstantsOK, Gdt!Init, GdtProof, Gdt!SegmentRight

(* The descriptor is made of the two.                                      *)
LEMMA GdtStep ==
    ASSUME GdtProof, [Gdt!Next]_(Gdt!vars)
    PROVE  GdtProof'
<1>1. CASE Gdt!SegmentDescriptor
  <2>1. v1' = v1 /\ v2' = v2 /\ v3' = Gdt!Encode(v2, v1) /\ v1 \in Gdt!Word /\ v2 \in Gdt!Word
    BY <1>1 DEF Gdt!SegmentDescriptor, GdtProof
  <2>2. Gdt!Base(Gdt!Encode(v2, v1)) = v2
    BY <2>1, BaseBack
  <2>3. Gdt!Limit(Gdt!Encode(v2, v1)) \in v1 - 4095 .. v1
    BY <2>1, LimitBack
  <2>4. /\ Gdt!Limit(Gdt!Encode(v2, v1)) <= v1
        /\ v1 - Gdt!Limit(Gdt!Encode(v2, v1)) <= 4095
    BY <2>1, <2>3 DEF Gdt!Word
  <2> QED
    BY <2>1, <2>2, <2>4 DEF GdtProof, Gdt!SegmentRight, Gdt!Base, Gdt!Limit
<1>2. CASE UNCHANGED Gdt!vars
  BY <1>2 DEF Gdt!vars, GdtProof, Gdt!SegmentRight, Gdt!Base, Gdt!Limit
<1> QED
  BY <1>1, <1>2 DEF Gdt!Next

(* Whatever cards are plugged in, every interrupt finds an activated       *)
(* driver and each driver its own card (kernel.cpp, pci.cpp, driver.cpp);  *)
(* every segment is what was asked for (gdt.cpp); whatever tables the      *)
(* firmware has, the shutdown command goes to enabled registers and to no  *)
(* other port (acpi.cpp); each with the exceptions its module states.      *)
THEOREM StartsAndStops == Spec => []StartAndStop
<1> DEFINE Inv == /\ part = "Boot" => BootProof
                  /\ part = "Acpi" => AcpiProof
                  /\ part = "Gdt" => GdtProof
<1>1. Init => Inv
  <2> SUFFICES ASSUME Init PROVE Inv
    OBVIOUS
  <2>1. ASSUME part = "Boot" PROVE BootProof
    <3>1. Boot!Init
      BY <2>1 DEF Init
    <3> QED
      BY <3>1, ConstantsAssumption, BootInit
  <2>2. ASSUME part = "Acpi" PROVE AcpiProof
    <3>1. Acpi!Init
      BY <2>2 DEF Init
    <3> QED
      BY <3>1, ConstantsAssumption, AcpiInit
  <2>3. ASSUME part = "Gdt" PROVE GdtProof
    <3>1. Gdt!Init
      BY <2>3 DEF Init
    <3> QED
      BY <3>1, ConstantsAssumption, GdtInit
  <2> QED
    BY <2>1, <2>2, <2>3
<1>2. Inv /\ [Next]_all => Inv'
  <2> SUFFICES ASSUME Inv, [Next]_all PROVE Inv'
    OBVIOUS
  <2>1. part' = part
    BY DEF Next, all
  <2>2. ASSUME part = "Boot" PROVE BootProof'
    <3>1. [Boot!Next]_(Boot!vars)
      BY <2>2 DEF Next, all, rest2, rest3, rest4, rest6, rest9, Boot!vars
    <3> QED
      BY <2>2, <3>1, ConstantsAssumption, BootStep
  <2>3. ASSUME part = "Acpi" PROVE AcpiProof'
    <3>1. [Acpi!Next]_(Acpi!vars)
      BY <2>3 DEF Next, all, rest2, rest3, rest4, rest6, rest9, Acpi!vars
    <3> QED
      BY <2>3, <3>1, ConstantsAssumption, AcpiStep
  <2>4. ASSUME part = "Gdt" PROVE GdtProof'
    <3>1. [Gdt!Next]_(Gdt!vars)
      BY <2>4 DEF Next, all, rest2, rest3, Gdt!vars
    <3> QED
      BY <2>4, <3>1, GdtStep
  <2> QED
    BY <2>1, <2>2, <2>3, <2>4
<1>3. Inv => StartAndStop
  BY ConstantsAssumption, BootSuffices, AcpiSuffices DEF StartAndStop, GdtProof
<1> QED
  BY <1>1, <1>2, <1>3, PTL DEF Spec, all

----------------------------------------------------------------------------
(* Two sequences put together, and a part of one.                          *)
LEMMA Chained ==
    ASSUME NEW S, NEW q \in Seq(S), NEW r \in Seq(S), NEW m \in Nat, NEW n \in Nat,
           m = Len(q), n = Len(r), NEW t, t = q \o r
    PROVE  /\ t \in Seq(S) /\ Len(t) = m + n
           /\ \A k \in 1 .. m : t[k] = q[k]
           /\ \A k \in 1 .. n : t[m + k] = r[k]
<1>1. t \in Seq(S) /\ Len(t) = m + n
  BY ConcatProperties
<1>2. ASSUME NEW k \in 1 .. m PROVE t[k] = q[k]
  <2>1. k \in 1 .. Len(q) + Len(r) /\ k <= Len(q)
    OBVIOUS
  <2> QED
    BY <2>1, ConcatProperties
<1>3. ASSUME NEW k \in 1 .. n PROVE t[m + k] = r[k]
  <2>1. m + k \in 1 .. Len(q) + Len(r) /\ ~(m + k <= Len(q)) /\ (m + k) - Len(q) = k
    OBVIOUS
  <2> QED
    BY <2>1, ConcatProperties
<1> QED
  BY <1>1, <1>2, <1>3

(* An element of a part of a sequence is one of the sequence.              *)
LEMMA PartOf ==
    ASSUME NEW S, NEW q \in Seq(S), NEW a \in Nat, NEW b \in Nat, 1 <= a, a <= b, b <= Len(q),
           NEW t, t = SubSeq(q, a, b)
    PROVE  /\ t \in Seq(S) /\ Len(t) = b - a + 1
           /\ \A k \in 1 .. b - a + 1 : t[k] = q[a + k - 1]
BY SubSeqProperties
----------------------------------------------------------------------------
(* The disk: medium v1, drive v2, failed v3, call v4, phase v5, pos v6,    *)
(* data v7, calls v8, expected v9, slips v10, attached v11.                *)

Block == {q \in Seq(Nat) : Len(q) = bytesPerSector}
DriveModes ==
    {"idle", "seeking", "identifying", "sending", "preparing", "receiving", "storing",
     "flushing"}
DriveType == [mode : DriveModes, sector : Sectors \cup {0}, buffer : Seq(Nat)]
CallType ==
    [op : {"none", "Read28", "Write28", "Identify"}, sector : Sectors \cup {0},
     count : 0 .. bytesPerSector, id : Nat]
Slips == {"command", "flush", "early", "late", "no word"}

Even(n) == \E m \in Nat : n = m + m

AtaTypes ==
    /\ v1 \in [Sectors -> Block] /\ v9 \in [Sectors -> Block]
    /\ v2 \in DriveType
    /\ v2.mode \notin {"idle", "identifying", "sending"} => v2.sector \in Sectors
    /\ v2.mode = "preparing" => v2.buffer = <<>>
    /\ v2.mode = "storing" => Len(v2.buffer) = bytesPerSector
    /\ v2.mode = "receiving" => Even(Len(v2.buffer)) /\ Len(v2.buffer) < bytesPerSector
    /\ v3 \in BOOLEAN
    /\ v4 \in CallType
    /\ v5 \in {"none", "status", "words"}
    /\ v5 # "none" => v4.op # "none" /\ (v4.op # "Identify" => v4.sector \in Sectors)
    /\ v6 \in Nat /\ Even(v6)
    /\ v8 \in 0 .. MaxCalls
    /\ v10 \subseteq Slips
    /\ v11 \in {"drive", "none", "floating"}

(* What a call of Write28 writes.                                          *)
BlockOf(id, count) == [k \in 1 .. bytesPerSector |-> IF k <= count THEN id ELSE 0]

Given == BlockOf(v4.id, v4.count)

(* The bytes of a sector are one call's, and zeros.                        *)
OneCalls(q) == \E id \in Nat : \A k \in 1 .. bytesPerSector : q[k] \in {0, id}

Pending == v9 = [v1 EXCEPT ![v4.sector] = Given]

(* Where the drive is when no word has been lost, between calls ...        *)
Resting == v5 = "none" /\ v2.mode = "idle" /\ v1 = v9

(* ... while Read28 waits, and reads ...                                   *)
Asking ==
    /\ v5 = "status" /\ v4.op = "Read28" /\ v1 = v9 /\ v6 = 0 /\ v7 = <<>>
    /\ \/ v2.mode = "seeking" /\ v2.sector = v4.sector /\ ~v3
       \/ v2.mode = "sending" /\ v2.buffer = v1[v4.sector] /\ ~v3
       \/ v2.mode = "idle" /\ v3

ReadSoFar ==
    /\ v7 \in Seq(Nat)
    /\ Len(v7) = IF v6 < v4.count THEN v6 ELSE v4.count
    /\ \A k \in 1 .. Len(v7) : v7[k] = v9[v4.sector][k]

Reading ==
    /\ v5 = "words" /\ v4.op = "Read28" /\ v1 = v9 /\ ~v3 /\ ReadSoFar
    /\ \/ /\ v2.mode = "sending" /\ v6 < bytesPerSector
          /\ Len(v2.buffer) = bytesPerSector - v6
          /\ \A k \in 1 .. Len(v2.buffer) : v2.buffer[k] = v1[v4.sector][v6 + k]
       \/ v2.mode = "idle" /\ v6 = bytesPerSector

(* ... the same for Identify ...                                           *)
Meeting ==
    /\ v5 = "status" /\ v4.op = "Identify" /\ v1 = v9 /\ v6 = 0 /\ v7 = <<>>
    /\ \/ v2.mode = "identifying" /\ ~v3
       \/ v2.mode = "sending" /\ v2.buffer = Ata!Identity /\ ~v3
       \/ v2.mode = "idle" /\ v3

HeaderSoFar ==
    /\ v7 \in Seq(SUBSET Nat) /\ Len(v7) + Len(v7) = v6
    /\ \A k \in 1 .. Len(v7) : v7[k] = {2 * k - 1, 2 * k}

Describing ==
    /\ v5 = "words" /\ v4.op = "Identify" /\ v1 = v9 /\ ~v3 /\ HeaderSoFar
    /\ \/ /\ v2.mode = "sending" /\ v6 < bytesPerSector
          /\ Len(v2.buffer) = bytesPerSector - v6
          /\ \A k \in 1 .. Len(v2.buffer) : v2.buffer[k] = v6 + k
       \/ v2.mode = "idle" /\ v6 = bytesPerSector

(* ... while Write28 writes, and waits.                                    *)
Storing ==
    /\ v2.mode = "storing" /\ v2.sector = v4.sector /\ v2.buffer = Given
    /\ Pending /\ ~v3

Writing ==
    /\ v5 = "words" /\ v4.op = "Write28"
    /\ \/ v2.mode = "preparing" /\ v2.sector = v4.sector /\ Pending /\ ~v3 /\ v6 = 0
       \/ /\ v2.mode = "receiving" /\ v2.sector = v4.sector /\ Pending /\ ~v3
          /\ v6 < bytesPerSector /\ Len(v2.buffer) = v6
          /\ \A k \in 1 .. v6 : v2.buffer[k] = Given[k]
       \/ Storing /\ v6 = bytesPerSector
       \/ v2.mode = "idle" /\ v1 = v9 /\ ~v3 /\ v6 = bytesPerSector
       \/ v2.mode = "idle" /\ v1 = v9 /\ v3 /\ v6 = 0

Flushing ==
    /\ v5 = "status" /\ v4.op = "Write28"
    /\ Storing \/ (v2.mode \in {"idle", "flushing"} /\ v1 = v9 /\ ~v3)

AtaRight ==
    /\ v10 \subseteq {"flush"}
    /\ Resting \/ Asking \/ Reading \/ Meeting \/ Describing \/ Writing \/ Flushing

(* Without a drive nothing is on the disk, and Identify has found that.    *)
Missing == v2.mode = "idle" /\ v4.op # "Identify" /\ \A s \in Sectors : OneCalls(v1[s])

AtaProof ==
    /\ AtaTypes
    /\ v11 # "drive" => Missing
    /\ v11 = "drive" /\ "early" \notin v10 =>
          AtaRight /\ \A s \in Sectors : OneCalls(v1[s]) /\ OneCalls(v9[s])

(* Even numbers.                                                           *)
LEMMA EvenIs ==
    /\ \A n \in Nat : n % 2 = 0 => Even(n)
    /\ Even(0) /\ \A n \in Nat : Even(n) => Even(n + 2)
    /\ \A n \in Nat, c \in Nat : Even(n) /\ n + 2 >= c /\ n < c => c + (c % 2) = n + 2
    /\ \A n \in Nat, b \in Nat : Even(n) /\ Even(b) /\ n < b => n + 2 <= b
<1>1. ASSUME NEW n \in Nat, n % 2 = 0 PROVE Even(n)
  <2>1. PICK m \in Nat : m = n \div 2
    OBVIOUS
  <2>2. n = m + m
    BY <1>1, <2>1
  <2> QED
    BY <2>2 DEF Even
<1>2. Even(0)
  <2>1. 0 \in Nat /\ 0 = 0 + 0
    OBVIOUS
  <2> QED
    BY <2>1 DEF Even
<1>3. ASSUME NEW n \in Nat, Even(n) PROVE Even(n + 2)
  <2>1. PICK m \in Nat : n = m + m
    BY <1>3 DEF Even
  <2>2. m + 1 \in Nat /\ n + 2 = (m + 1) + (m + 1)
    BY <2>1
  <2> QED
    BY <2>2 DEF Even
<1>4. ASSUME NEW n \in Nat, NEW c \in Nat, Even(n), n + 2 >= c, n < c PROVE c + (c % 2) = n + 2
  <2>1. PICK m \in Nat : n = m + m
    BY <1>4 DEF Even
  <2>2. c = m + m + 1 \/ c = m + m + 2
    BY <1>4, <2>1
  <2>3. (m + m + 1) % 2 = 1 /\ (m + m + 2) % 2 = 0
    OBVIOUS
  <2> QED
    BY <2>1, <2>2, <2>3
<1>5. ASSUME NEW n \in Nat, NEW b \in Nat, Even(n), Even(b), n < b PROVE n + 2 <= b
  BY <1>5 DEF Even
<1> QED
  BY <1>1, <1>2, <1>3, <1>4, <1>5

(* The words come two bytes after one another, whatever the caller asks    *)
(* for.                                                                    *)
LEMMA NextWord ==
    ASSUME Ata!ConstantsOK, AtaTypes
    PROVE  /\ Ata!NextPos = v6 + 2 /\ Even(v6 + 2)
           /\ ~Ata!Finished => v6 + 2 <= bytesPerSector
<1>1. bytesPerSector \in Nat /\ Even(bytesPerSector)
  BY EvenIs DEF Ata!ConstantsOK
<1>2. v6 \in Nat /\ Even(v6) /\ v4.count \in Nat
  BY <1>1 DEF AtaTypes, CallType
<1>3. Ata!NextPos = v6 + 2
  BY <1>2, EvenIs DEF Ata!NextPos, Ata!EndOfData
<1>4. v6 < bytesPerSector => v6 + 2 <= bytesPerSector
  BY <1>1, <1>2, EvenIs
<1> QED
  BY <1>1, <1>2, <1>3, <1>4, EvenIs DEF Ata!Finished
(* The bytes of a call are a block, and one call's.                        *)
LEMMA BlockIs ==
    ASSUME Ata!ConstantsOK, NEW id \in Nat, NEW count
    PROVE  /\ BlockOf(id, count) \in Block /\ OneCalls(BlockOf(id, count))
           /\ DOMAIN BlockOf(id, count) = 1 .. bytesPerSector
           /\ \A k \in 1 .. bytesPerSector :
                 BlockOf(id, count)[k] = IF k <= count THEN id ELSE 0
<1>1. bytesPerSector \in Nat
  BY DEF Ata!ConstantsOK
<1>2. PICK q : q = BlockOf(id, count)
  OBVIOUS
<1>3. q \in [1 .. bytesPerSector -> Nat]
  BY <1>2 DEF BlockOf
<1>4. q \in Seq(Nat) /\ Len(q) = bytesPerSector /\ DOMAIN q = 1 .. bytesPerSector
  BY <1>1, <1>3
<1>5. \A k \in 1 .. bytesPerSector : q[k] = IF k <= count THEN id ELSE 0
  BY <1>2 DEF BlockOf
<1> QED
  BY <1>2, <1>4, <1>5 DEF Block, OneCalls

(* Nothing is on the disk at first, and nothing has been asked for.        *)
LEMMA AtaInit ==
    ASSUME Ata!ConstantsOK, Ata!Init
    PROVE  AtaProof
<1>1. bytesPerSector \in Nat /\ MaxCalls \in Nat
  BY DEF Ata!ConstantsOK
<1>2. PICK q : q = [k \in 1 .. bytesPerSector |-> 0]
  OBVIOUS
<1>3. q \in Seq(Nat) /\ Len(q) = bytesPerSector
  BY <1>1, <1>2
<1>4. OneCalls(q) /\ q \in Block
  BY <1>2, <1>3 DEF OneCalls, Block
<1>5. /\ v1 = [s \in Sectors |-> q] /\ v9 = v1
      /\ v2 = [mode |-> "idle", sector |-> 0, buffer |-> <<>>] /\ v3 = FALSE
      /\ v4 = [op |-> "none", sector |-> 0, count |-> 0, id |-> 0]
      /\ v5 = "none" /\ v6 = 0 /\ v8 = 0 /\ v10 = {}
      /\ v11 \in {"drive", "none", "floating"}
  BY <1>2 DEF Ata!Init, Ata!Zeros, Ata!Idle, Ata!NoCall
<1>6. v2 \in DriveType /\ v2.mode = "idle"
  BY <1>5 DEF DriveType, DriveModes
<1>7. v4 \in CallType
  BY <1>1, <1>5 DEF CallType
<1>8. AtaTypes
  <2>1. v1 \in [Sectors -> Block] /\ v9 \in [Sectors -> Block]
    BY <1>4, <1>5
  <2>2. v6 \in Nat /\ Even(v6) /\ v8 \in 0 .. MaxCalls /\ v10 \subseteq Slips /\ v3 \in BOOLEAN
    <3>1. v6 = 0 /\ v8 = 0 /\ v10 = {} /\ v3 = FALSE
      BY <1>5
    <3>2. Even(v6)
      BY <3>1, EvenIs, Zenon
    <3>3. 0 \in 0 .. MaxCalls /\ FALSE \in BOOLEAN /\ 0 \in Nat
      BY <1>1
    <3> QED
      BY <3>1, <3>2, <3>3, Zenon
  <2> QED
    BY <1>5, <1>6, <1>7, <2>1, <2>2 DEF AtaTypes
<1>9. AtaRight
  BY <1>5, <1>6 DEF AtaRight, Resting
<1>10. Missing
  BY <1>4, <1>5, <1>6 DEF Missing
<1> QED
  BY <1>4, <1>5, <1>8, <1>9, <1>10 DEF AtaProof

(* The types are kept by every step.                                       *)
LEMMA AtaTypesStep ==
    ASSUME Ata!ConstantsOK, AtaTypes, Ata!Next
    PROVE  AtaTypes'
<1>1. /\ bytesPerSector \in Nat /\ MaxCalls \in Nat /\ Counts \subseteq Nat
      /\ Even(bytesPerSector) /\ Even(0)
  BY EvenIs DEF Ata!ConstantsOK
<1>2. /\ v2 \in DriveType /\ v2.mode \in DriveModes /\ v2.buffer \in Seq(Nat)
      /\ v4 \in CallType /\ v4.id \in Nat /\ v4.count \in Nat
  BY <1>1 DEF AtaTypes, DriveType, CallType
<1>3. /\ [mode |-> "idle", sector |-> 0, buffer |-> <<>>] \in DriveType
      /\ [op |-> "none", sector |-> 0, count |-> 0, id |-> 0] \in CallType
  BY <1>1 DEF DriveType, DriveModes, CallType
<1>4. ASSUME NEW mode \in {"seeking", "identifying", "preparing", "flushing"},
             NEW sector \in Sectors \cup {0}, mode # "identifying" => sector \in Sectors,
             Ata!Command(mode, sector)
      PROVE  /\ v2' \in DriveType /\ v3' \in BOOLEAN /\ v10' \subseteq Slips
             /\ v2'.mode \notin {"idle", "identifying", "sending"} => v2'.sector \in Sectors
             /\ v2'.mode = "preparing" => v2'.buffer = <<>>
             /\ v2'.mode = "storing" => Len(v2'.buffer) = bytesPerSector
             /\ v2'.mode = "receiving" => Even(Len(v2'.buffer)) /\ Len(v2'.buffer) < bytesPerSector
  <2>1. CASE v11 = "drive" /\ v2.mode = "idle"
    <3>1. /\ v2' = [mode |-> mode, sector |-> sector, buffer |-> <<>>]
          /\ v3' = FALSE /\ v10' = v10
      BY <1>4, <2>1 DEF Ata!Command
    <3>2. v2' \in DriveType
      BY <3>1 DEF DriveType, DriveModes
    <3>3. /\ v2'.mode = mode /\ mode \notin {"storing", "receiving"}
          /\ v2'.sector = sector /\ v2'.buffer = <<>>
      BY <3>1
    <3> QED
      BY <1>4, <3>1, <3>2, <3>3 DEF AtaTypes
  <2>2. CASE ~(v11 = "drive" /\ v2.mode = "idle")
    <3>1. v2' = v2 /\ v3' = v3 /\ v10' = v10 \cup {IF mode = "flushing" THEN "flush" ELSE "command"}
      BY <1>4, <2>2 DEF Ata!Command
    <3> QED
      BY <3>1 DEF AtaTypes, Slips
  <2> QED
    BY <2>1, <2>2
<1>5. ASSUME NEW op \in {"Read28", "Write28"}, NEW s \in Sectors, NEW c \in Nat,
             Ata!Begin(op, s, c)
      PROVE  AtaTypes'
  <2>1. v8 < MaxCalls /\ v8' = v8 + 1 /\ v8 \in Nat /\ v8' \in 0 .. MaxCalls
    BY <1>1, <1>5 DEF Ata!Begin, AtaTypes
  <2>2. CASE c > bytesPerSector
    BY <1>5, <2>1, <2>2 DEF Ata!Begin, AtaTypes
  <2>3. CASE ~(c > bytesPerSector)
    <3>1. /\ v4' = [op |-> op, sector |-> s, count |-> c, id |-> v8 + 1]
          /\ Ata!Command(IF op = "Write28" THEN "preparing" ELSE "seeking", s)
          /\ v5' \in {"words", "status"} /\ v6' = 0 /\ v1' = v1
          /\ v9' = IF op # "Write28" THEN v9
                   ELSE [v9 EXCEPT ![s] =
                           [k \in 1 .. bytesPerSector |-> IF k <= c THEN v8 + 1 ELSE 0]]
      BY <1>5, <2>3 DEF Ata!Begin
    <3>2. v4' \in CallType /\ v4'.op = op /\ v4'.sector = s
      BY <1>1, <2>1, <2>3, <3>1 DEF CallType
    <3>3. [k \in 1 .. bytesPerSector |-> IF k <= c THEN v8 + 1 ELSE 0] \in Block
      <4>1. v8 + 1 \in Nat
        BY <2>1
      <4>2. BlockOf(v8 + 1, c) \in Block
        BY <4>1, BlockIs
      <4> QED
        BY <4>2 DEF BlockOf
    <3>4. v9' \in [Sectors -> Block]
      BY <3>1, <3>3 DEF AtaTypes
    <3>5. PICK mode \in {"seeking", "preparing"} :
             mode = IF op = "Write28" THEN "preparing" ELSE "seeking"
      OBVIOUS
    <3>6. v11' = v11 /\ Ata!Command(mode, s) /\ mode # "identifying"
      BY <1>5, <3>1, <3>5 DEF Ata!Begin
    <3>7. /\ v2' \in DriveType /\ v3' \in BOOLEAN /\ v10' \subseteq Slips
          /\ v2'.mode \notin {"idle", "identifying", "sending"} => v2'.sector \in Sectors
          /\ v2'.mode = "preparing" => v2'.buffer = <<>>
          /\ v2'.mode = "storing" => Len(v2'.buffer) = bytesPerSector
          /\ v2'.mode = "receiving" => Even(Len(v2'.buffer)) /\ Len(v2'.buffer) < bytesPerSector
      BY <1>4, <3>6
    <3> QED
      BY <1>1, <2>1, <3>1, <3>2, <3>4, <3>6, <3>7 DEF AtaTypes
  <2> QED
    BY <2>2, <2>3
<1>13. CASE Ata!Identify
  <2>1. /\ v8 < MaxCalls /\ v8' = v8 + 1 /\ v8 \in Nat /\ v8' \in 0 .. MaxCalls
        /\ v1' = v1 /\ v9' = v9 /\ v11' = v11
    BY <1>1, <1>13 DEF Ata!Identify, AtaTypes
  <2>2. CASE Ata!Absent
    BY <1>13, <2>1, <2>2 DEF Ata!Identify, AtaTypes
  <2>3. CASE ~Ata!Absent
    <3>1. /\ v4' = [op |-> "Identify", sector |-> 0, count |-> bytesPerSector, id |-> v8 + 1]
          /\ Ata!Command("identifying", 0) /\ v5' = "status" /\ v6' = 0
      BY <1>13, <2>3 DEF Ata!Identify
    <3>2. v4' \in CallType /\ v4'.op = "Identify"
      BY <1>1, <2>1, <3>1 DEF CallType
    <3>3. /\ v2' \in DriveType /\ v3' \in BOOLEAN /\ v10' \subseteq Slips
          /\ v2'.mode \notin {"idle", "identifying", "sending"} => v2'.sector \in Sectors
          /\ v2'.mode = "preparing" => v2'.buffer = <<>>
          /\ v2'.mode = "storing" => Len(v2'.buffer) = bytesPerSector
          /\ v2'.mode = "receiving" => Even(Len(v2'.buffer)) /\ Len(v2'.buffer) < bytesPerSector
      BY <1>4, <3>1
    <3> QED
      BY <1>1, <2>1, <3>1, <3>2, <3>3 DEF AtaTypes
  <2> QED
    BY <2>2, <2>3
<1>6. CASE Ata!Status
  BY <1>3, <1>6 DEF Ata!Status, Ata!NoCall, AtaTypes
<1>7. CASE Ata!ReadWord
  <2>1. Ata!NextPos \in Nat /\ Even(Ata!NextPos)
    BY NextWord DEF AtaTypes
  <2>2. v10' \subseteq Slips
    BY <1>7 DEF Ata!ReadWord, AtaTypes, Slips
  <2>3. /\ v2' \in DriveType
        /\ v2'.mode # "idle" => v2'.mode = v2.mode /\ v2'.sector = v2.sector
        /\ v2'.mode \in {"storing", "receiving", "preparing"} => v2' = v2
    <3>1. CASE v2.mode # "sending"
      BY <1>2, <1>7, <3>1 DEF Ata!ReadWord
    <3>2. CASE v2.mode = "sending" /\ Len(v2.buffer) = 2
      BY <1>3, <1>7, <3>2 DEF Ata!ReadWord, Ata!Idle
    <3>3. CASE v2.mode = "sending" /\ Len(v2.buffer) # 2
      <4>1. v2' = [v2 EXCEPT !.buffer = SubSeq(v2.buffer, 3, Len(v2.buffer))]
        BY <1>7, <3>3 DEF Ata!ReadWord, Ata!Rest
      <4>2. SubSeq(v2.buffer, 3, Len(v2.buffer)) \in Seq(Nat)
        BY <1>2
      <4> QED
        BY <1>2, <3>3, <4>1, <4>2 DEF DriveType
    <3> QED
      BY <3>1, <3>2, <3>3
  <2> QED
    BY <1>7, <2>1, <2>2, <2>3 DEF Ata!ReadWord, AtaTypes
<1>8. CASE Ata!WriteWord
  <2>1. Ata!NextPos \in Nat /\ Even(Ata!NextPos)
    BY NextWord DEF AtaTypes
  <2>2. v10' \subseteq Slips
    BY <1>8 DEF Ata!WriteWord, AtaTypes, Slips
  <2>3. /\ v2' \in DriveType
        /\ v2'.mode \notin {"idle", "identifying", "sending"} => v2'.sector \in Sectors
        /\ v2'.mode = "preparing" => v2'.buffer = <<>>
        /\ v2'.mode = "storing" => Len(v2'.buffer) = bytesPerSector
        /\ v2'.mode = "receiving" => Even(Len(v2'.buffer)) /\ Len(v2'.buffer) < bytesPerSector
    <3>1. CASE v2.mode # "receiving"
      BY <1>2, <1>8, <3>1 DEF Ata!WriteWord, AtaTypes
    <3>2. CASE v2.mode = "receiving"
      <4>1. PICK n \in Nat : n = Len(v2.buffer) /\ Even(n) /\ n < bytesPerSector
        BY <1>2, <3>2 DEF AtaTypes
      <4>2. PICK m \in {"storing", "receiving"} :
               m = IF n + 2 = bytesPerSector THEN "storing" ELSE "receiving"
        OBVIOUS
      <4>3. PICK q : q = v2.buffer \o Ata!CallersWord
        OBVIOUS
      <4>4. Ata!CallersWord \in Seq(Nat) /\ Len(Ata!CallersWord) = 2
        BY <1>2 DEF Ata!CallersWord
      <4>5. q \in Seq(Nat) /\ Len(q) = n + 2
        <5>1. PICK r \in Seq(Nat) : r = Ata!CallersWord /\ Len(r) = 2
          BY <4>4
        <5>2. v2.buffer \o r \in Seq(Nat) /\ Len(v2.buffer \o r) = Len(v2.buffer) + Len(r)
          BY <1>2, ConcatProperties
        <5> QED
          BY <4>1, <4>3, <5>1, <5>2
      <4>6. v2' = [v2 EXCEPT !.buffer = q, !.mode = m]
        BY <1>8, <3>2, <4>1, <4>2, <4>3 DEF Ata!WriteWord
      <4>7. v2' \in DriveType /\ v2'.mode = m /\ v2'.buffer = q /\ v2'.sector = v2.sector
        BY <1>2, <4>5, <4>6 DEF DriveType, DriveModes
      <4>8. Even(n + 2) /\ n + 2 <= bytesPerSector
        BY <1>1, <4>1, EvenIs
      <4>9. m = "storing" => n + 2 = bytesPerSector
        BY <4>2
      <4>10. m = "receiving" => n + 2 < bytesPerSector
        BY <1>1, <4>1, <4>2, <4>8
      <4>11. v2.sector \in Sectors
        BY <3>2 DEF AtaTypes
      <4> QED
        BY <4>5, <4>7, <4>8, <4>9, <4>10, <4>11
    <3> QED
      BY <3>1, <3>2
  <2> QED
    BY <1>8, <2>1, <2>2, <2>3 DEF Ata!WriteWord, AtaTypes
<1>9. CASE Ata!Done
  <2>1. v4.op = "Write28" => v4.sector \in Sectors
    BY <1>9 DEF Ata!Done, AtaTypes
  <2>2. CASE v4.op = "Write28"
    <3>1. /\ Ata!Command("flushing", v4.sector) /\ v5' = "status" /\ v4' = v4
          /\ UNCHANGED <<v1, v6, v7, v8, v9, v11>>
      BY <1>9, <2>2 DEF Ata!Done
    <3>2. /\ v2' \in DriveType /\ v3' \in BOOLEAN /\ v10' \subseteq Slips
          /\ v2'.mode \notin {"idle", "identifying", "sending"} => v2'.sector \in Sectors
          /\ v2'.mode = "preparing" => v2'.buffer = <<>>
          /\ v2'.mode = "storing" => Len(v2'.buffer) = bytesPerSector
          /\ v2'.mode = "receiving" => Even(Len(v2'.buffer)) /\ Len(v2'.buffer) < bytesPerSector
      BY <1>4, <2>1, <2>2, <3>1
    <3> QED
      BY <2>1, <2>2, <3>1, <3>2 DEF AtaTypes
  <2>3. CASE v4.op # "Write28"
    BY <1>3, <1>9, <2>3 DEF Ata!Done, Ata!NoCall, AtaTypes
  <2> QED
    BY <2>2, <2>3
<1>10. CASE Ata!Work
  <2>1. CASE v2.mode = "seeking"
    <3>1. v2' = [v2 EXCEPT !.mode = "sending", !.buffer = v1[v2.sector]] /\ v1' = v1 /\ v9' = v9
      BY <1>10, <2>1 DEF Ata!Work
    <3>2. v1[v2.sector] \in Seq(Nat) /\ v2.sector \in Sectors
      BY <2>1 DEF AtaTypes, Block
    <3>3. v2' \in DriveType /\ v2'.mode = "sending" /\ v2'.sector = v2.sector
      BY <1>2, <3>1, <3>2 DEF DriveType, DriveModes
    <3> QED
      BY <1>10, <3>1, <3>2, <3>3 DEF Ata!Work, AtaTypes
  <2>5. CASE v2.mode = "identifying"
    <3>1. v2' = [v2 EXCEPT !.mode = "sending", !.buffer = Ata!Identity] /\ v1' = v1 /\ v9' = v9
      BY <1>10, <2>5 DEF Ata!Work
    <3>2. Ata!Identity \in Seq(Nat)
      BY <1>1 DEF Ata!Identity
    <3>3. v2' \in DriveType /\ v2'.mode = "sending"
      BY <1>2, <3>1, <3>2 DEF DriveType, DriveModes
    <3> QED
      BY <1>10, <3>1, <3>3 DEF Ata!Work, AtaTypes
  <2>2. CASE v2.mode = "preparing"
    <3>1. v2' = [v2 EXCEPT !.mode = "receiving"] /\ v1' = v1 /\ v9' = v9
      BY <1>10, <2>2 DEF Ata!Work
    <3>2. v2' \in DriveType /\ v2'.mode = "receiving" /\ v2'.sector = v2.sector /\ v2'.buffer = <<>>
      BY <1>2, <2>2, <3>1 DEF DriveType, DriveModes, AtaTypes
    <3>3. Len(<<>>) = 0 /\ 0 < bytesPerSector
      BY DEF Ata!ConstantsOK
    <3>4. v2.sector \in Sectors
      BY <2>2 DEF AtaTypes
    <3> QED
      BY <1>1, <1>10, <3>1, <3>2, <3>3, <3>4 DEF Ata!Work, AtaTypes
  <2>3. CASE v2.mode = "storing"
    <3>1. v1' = [v1 EXCEPT ![v2.sector] = v2.buffer] /\ v2' = Ata!Idle /\ v9' = v9
      BY <1>10, <2>3 DEF Ata!Work
    <3>2. v2.buffer \in Block /\ v2.sector \in Sectors
      BY <1>2, <2>3 DEF AtaTypes, Block
    <3>3. v1' \in [Sectors -> Block]
      BY <3>1, <3>2 DEF AtaTypes
    <3> QED
      BY <1>3, <1>10, <3>1, <3>3 DEF Ata!Work, Ata!Idle, AtaTypes
  <2>4. CASE v2.mode = "flushing"
    BY <1>3, <1>10, <2>4 DEF Ata!Work, Ata!Idle, AtaTypes
  <2> QED
    BY <1>10, <2>1, <2>2, <2>3, <2>4, <2>5 DEF Ata!Work
<1>11. CASE Ata!Fail
  <2>1. v2.mode = "preparing" => v2.sector \in Sectors
    BY <1>11 DEF Ata!Fail, AtaTypes
  <2>2. v9' \in [Sectors -> Block]
    BY <1>11, <2>1 DEF Ata!Fail, AtaTypes
  <2> QED
    BY <1>3, <1>11, <2>2 DEF Ata!Fail, Ata!Idle, AtaTypes
<1>12. CASE Ata!Ended
  BY <1>12 DEF Ata!Ended, Ata!vars, AtaTypes
<1> QED
  BY <1>1, <1>5, <1>6, <1>7, <1>8, <1>9, <1>10, <1>11, <1>12, <1>13 DEF Ata!Next

(* As long as no word is lost every step goes from one of these places to  *)
(* another, but one of the drive's may leave the call where it is.         *)
LEMMA AtaRightStep ==
    ASSUME Ata!ConstantsOK, AtaTypes, AtaTypes', AtaRight,
           \A s \in Sectors : OneCalls(v1[s]) /\ OneCalls(v9[s]), Ata!Next, "early" \notin v10',
           v11 = "drive"
    PROVE  AtaRight' /\ \A s \in Sectors : OneCalls(v1[s])' /\ OneCalls(v9[s])'
<1> DEFINE Place == Resting \/ Asking \/ Reading \/ Meeting \/ Describing \/ Writing \/ Flushing
           Whole == \A s \in Sectors : OneCalls(v1[s]) /\ OneCalls(v9[s])
           B == bytesPerSector
<1> SUFFICES v10' \subseteq {"flush"} /\ Place' /\ Whole'
  BY DEF AtaRight
<1>1. v10 \subseteq {"flush"} /\ Place /\ Whole
  BY DEF AtaRight
<1>2. /\ B \in Nat /\ B > 0 /\ Counts \subseteq Nat /\ v6 \in Nat /\ v4.id \in Nat
      /\ v4.count \in 0 .. B /\ v2 \in DriveType /\ v2.buffer \in Seq(Nat)
      /\ v1 \in [Sectors -> Block] /\ v9 \in [Sectors -> Block]
  BY DEF Ata!ConstantsOK, AtaTypes, CallType, DriveType
<1>3. v1' = v1 /\ v9' = v9 => Whole'
  BY <1>1 DEF OneCalls
<1>4. Ata!Idle.mode = "idle" /\ Ata!NoCall.op = "none"
  BY DEF Ata!Idle, Ata!NoCall
<1>5. ASSUME NEW op \in {"Read28", "Write28"}, NEW s \in Sectors, NEW c \in Nat,
             Ata!Begin(op, s, c)
      PROVE  v10' \subseteq {"flush"} /\ Place' /\ Whole'
  <2>1. v5 = "none" /\ Resting
    BY <1>1, <1>5 DEF Ata!Begin, Resting, Asking, Reading, Meeting, Describing, Writing, Flushing
  <2>2. CASE c > B
    <3>1. v1' = v1 /\ v2' = v2 /\ v5' = v5 /\ v9' = v9 /\ v10' = v10
      BY <1>5, <2>2 DEF Ata!Begin
    <3> QED
      BY <1>1, <1>3, <2>1, <3>1 DEF Resting
  <2>3. CASE ~(c > B)
    <3>1. PICK mode \in {"seeking", "preparing"} :
             mode = IF op = "Write28" THEN "preparing" ELSE "seeking"
      OBVIOUS
    <3>2. /\ v4' = [op |-> op, sector |-> s, count |-> c, id |-> v8 + 1]
          /\ Ata!Command(mode, s)
          /\ v5' = IF op = "Write28" THEN "words" ELSE "status"
          /\ v6' = 0 /\ v7' = <<>> /\ v1' = v1
          /\ v9' = IF op # "Write28" THEN v9 ELSE [v9 EXCEPT ![s] = BlockOf(v8 + 1, c)]
      BY <1>5, <2>3, <3>1 DEF Ata!Begin, BlockOf
    <3>3. /\ v2' = [mode |-> mode, sector |-> s, buffer |-> <<>>] /\ v3' = FALSE /\ v10' = v10
      BY <2>1, <3>1, <3>2, Zenon DEF Ata!Command, Resting
    <3>4. /\ v2'.mode = mode /\ v2'.sector = s /\ v4'.op = op /\ v4'.sector = s
          /\ v4'.count = c /\ v4'.id = v8 + 1
      BY <3>2, <3>3
    <3>5. CASE op # "Write28"
      <4>1. Asking'
        BY <2>1, <3>1, <3>2, <3>3, <3>4, <3>5 DEF Asking, Resting
      <4> QED
        BY <1>1, <1>3, <3>2, <3>3, <3>5, <4>1
    <3>6. CASE op = "Write28"
      <4>1. Given' = BlockOf(v8 + 1, c)
        BY <3>4 DEF Given, BlockOf
      <4>2. Pending'
        BY <2>1, <3>2, <3>4, <3>6, <4>1 DEF Pending, Resting
      <4>3. Writing'
        BY <3>1, <3>2, <3>3, <3>4, <3>6, <4>2 DEF Writing
      <4>4. v8 + 1 \in Nat
        BY DEF AtaTypes
      <4>5. OneCalls(BlockOf(v8 + 1, c))
        BY <4>4, BlockIs
      <4>6. Whole'
        <5> SUFFICES ASSUME NEW x \in Sectors PROVE OneCalls(v1'[x]) /\ OneCalls(v9'[x])
          BY DEF OneCalls
        <5>1. v9'[x] = v9[x] \/ v9'[x] = BlockOf(v8 + 1, c)
          BY <1>2, <3>2, <3>6
        <5> QED
          BY <1>1, <3>2, <4>5, <5>1
      <4> QED
        BY <1>1, <3>3, <4>3, <4>6
    <3> QED
      BY <3>5, <3>6
  <2> QED
    BY <2>2, <2>3
<1>13. CASE Ata!Identify
  <2>1. v5 = "none" /\ Resting
    BY <1>1, <1>13 DEF Ata!Identify, Resting, Asking, Reading, Meeting, Describing, Writing,
                       Flushing
  <2>2. /\ v4' = [op |-> "Identify", sector |-> 0, count |-> B, id |-> v8 + 1]
        /\ Ata!Command("identifying", 0)
        /\ v5' = "status" /\ v6' = 0 /\ v7' = <<>> /\ v1' = v1 /\ v9' = v9
    BY <1>13 DEF Ata!Identify, Ata!Absent
  <2>3. v2' = [mode |-> "identifying", sector |-> 0, buffer |-> <<>>] /\ v3' = FALSE /\ v10' = v10
    BY <2>1, <2>2 DEF Ata!Command, Resting
  <2>4. Meeting'
    BY <2>1, <2>2, <2>3 DEF Meeting, Resting
  <2> QED
    BY <1>1, <1>3, <2>2, <2>3, <2>4
<1>6. CASE Ata!Status
  <2>1. v5 = "status" /\ (~Ata!Busy \/ v3) /\ v1' = v1 /\ v9' = v9 /\ v10' = v10
    BY <1>6 DEF Ata!Status, Ata!Error
  <2>2. CASE Asking
    <3>1. CASE v3
      <4>1. v5' = "none" /\ v2' = v2
        BY <1>6, <3>1 DEF Ata!Status, Ata!Error
      <4>2. Resting'
        BY <2>1, <2>2, <3>1, <4>1 DEF Asking, Resting
      <4> QED
        BY <1>1, <1>3, <2>1, <4>2
    <3>2. CASE ~v3
      <4>1. v2.mode = "sending" /\ v2.buffer = v1[v4.sector]
        BY <2>1, <2>2, <3>2 DEF Asking, Ata!Busy
      <4>2. v5' = "words" /\ v2' = v2 /\ v3' = v3 /\ v4' = v4 /\ v6' = 0 /\ v7' = <<>>
        BY <1>6, <2>2, <3>2 DEF Ata!Status, Ata!Error, Asking
      <4>3. Len(v2.buffer) = B - 0
            /\ \A k \in 1 .. Len(v2.buffer) : v2.buffer[k] = v1[v4.sector][0 + k]
        <5>1. v4.sector \in Sectors
          BY <2>1, <2>2 DEF AtaTypes, Asking
        <5>2. v1[v4.sector] \in Seq(Nat) /\ Len(v1[v4.sector]) = B
          BY <1>2, <5>1 DEF Block
        <5> QED
          BY <4>1, <5>2
      <4>4. ReadSoFar'
        <5>1. <<>> \in Seq(Nat) /\ Len(<<>>) = 0
          OBVIOUS
        <5>2. 0 = IF 0 < v4.count THEN 0 ELSE v4.count
          BY <1>2
        <5> QED
          BY <4>2, <5>1, <5>2 DEF ReadSoFar
      <4>5. Reading'
        BY <1>2, <2>1, <2>2, <3>2, <4>1, <4>2, <4>3, <4>4 DEF Reading, Asking
      <4> QED
        BY <1>1, <1>3, <2>1, <4>5
    <3> QED
      BY <3>1, <3>2
  <2>3. CASE Flushing
    <3>1. ~v3 /\ v4.op = "Write28"
      BY <2>3 DEF Flushing, Storing
    <3>2. v2.mode = "idle" /\ v1 = v9
      BY <2>1, <2>3, <3>1 DEF Flushing, Storing, Ata!Busy
    <3>3. v5' = "none" /\ v2' = v2
      BY <1>6, <3>1 DEF Ata!Status, Ata!Error
    <3>4. Resting'
      BY <2>1, <3>2, <3>3 DEF Resting
    <3> QED
      BY <1>1, <1>3, <2>1, <3>4
  <2>4. CASE Meeting
    <3>1. CASE v3
      <4>1. v5' = "none" /\ v2' = v2
        BY <1>6, <3>1 DEF Ata!Status, Ata!Error
      <4>2. Resting'
        BY <2>1, <2>4, <3>1, <4>1 DEF Meeting, Resting
      <4> QED
        BY <1>1, <1>3, <2>1, <4>2
    <3>2. CASE ~v3
      <4>1. v2.mode = "sending" /\ v2.buffer = Ata!Identity
        BY <2>1, <2>4, <3>2 DEF Meeting, Ata!Busy
      <4>2. v5' = "words" /\ v2' = v2 /\ v3' = v3 /\ v4' = v4 /\ v6' = 0 /\ v7' = <<>>
        BY <1>6, <2>4, <3>2 DEF Ata!Status, Ata!Error, Meeting
      <4>3. Len(v2.buffer) = B - 0 /\ \A k \in 1 .. Len(v2.buffer) : v2.buffer[k] = 0 + k
        BY <1>2, <4>1 DEF Ata!Identity
      <4>4. HeaderSoFar'
        <5>1. <<>> \in Seq(SUBSET Nat) /\ Len(<<>>) = 0 /\ 0 + 0 = 0
          OBVIOUS
        <5> QED
          BY <4>2, <5>1 DEF HeaderSoFar
      <4>5. Describing'
        BY <1>2, <2>1, <2>4, <3>2, <4>1, <4>2, <4>3, <4>4 DEF Describing, Meeting
      <4> QED
        BY <1>1, <1>3, <2>1, <4>5
    <3> QED
      BY <3>1, <3>2
  <2> QED
    BY <1>1, <2>1, <2>2, <2>3, <2>4 DEF Resting, Reading, Describing, Writing
<1>14. CASE Ata!ReadWord /\ v4.op = "Identify"
  <2>1. /\ v5 = "words" /\ ~Ata!Finished
        /\ v1' = v1 /\ v9' = v9 /\ v3' = v3 /\ v4' = v4 /\ v5' = v5
        /\ v7' = Append(v7, Ata!HeaderWord(Ata!DataWord))
    BY <1>14 DEF Ata!ReadWord
  <2>2. Describing
    BY <1>1, <1>14, <2>1 DEF Resting, Asking, Reading, Meeting, Writing, Flushing
  <2>3. v6 < B /\ v6' = v6 + 2 /\ v6 + 2 <= B
    <3>1. v6' = Ata!NextPos
      BY <1>14 DEF Ata!ReadWord
    <3> QED
      BY <1>2, <2>1, <3>1, NextWord DEF Ata!Finished
  <2>4. /\ v2.mode = "sending" /\ Len(v2.buffer) = B - v6
        /\ \A k \in 1 .. Len(v2.buffer) : v2.buffer[k] = v6 + k
    <3>1. v6 # bytesPerSector
      BY <1>2, <2>3
    <3> QED
      BY <2>2, <3>1, Zenon DEF Describing
  <2>5. v10' = v10
    BY <1>14, <2>4 DEF Ata!ReadWord
  <2>6. PICK n \in Nat : n = Len(v2.buffer) /\ n >= 2 /\ n = B - v6
    BY <1>2, <2>3, <2>4
  <2>7. PICK q \in Seq(Nat) : q = v2.buffer /\ Len(q) = n
    BY <1>2, <2>6
  <2>8. HeaderSoFar'
    <3>1. PICK d \in Seq(SUBSET Nat), l \in Nat : d = v7 /\ l = Len(d) /\ l + l = v6
      BY <2>2 DEF Describing, HeaderSoFar
    <3>2. \A k \in 1 .. l : d[k] = {2 * k - 1, 2 * k}
      BY <2>2, <3>1 DEF Describing, HeaderSoFar
    <3>3. PICK w : w = SubSeq(q, 1, 2)
      OBVIOUS
    <3>4. w[1] = q[1] /\ w[2] = q[2]
      <4>1. 1 <= Len(q) /\ 2 <= Len(q) /\ 2 - 1 + 1 = 2
        BY <2>6, <2>7
      <4>2. \A k \in 1 .. 2 : w[k] = q[1 + k - 1]
        BY <3>3, <4>1, PartOf
      <4>3. 1 + 1 - 1 = 1 /\ 1 + 2 - 1 = 2 /\ 1 \in 1 .. 2 /\ 2 \in 1 .. 2
        OBVIOUS
      <4> QED
        BY <4>2, <4>3
    <3>5. q[1] = v6 + 1 /\ q[2] = v6 + 2
      BY <2>4, <2>6, <2>7
    <3>6. w = Ata!DataWord
      BY <2>4, <2>7, <3>3 DEF Ata!DataWord
    <3>7. v7' = Append(d, {v6 + 1, v6 + 2})
      BY <2>1, <3>1, <3>4, <3>5, <3>6, Zenon DEF Ata!HeaderWord
    <3>8. PICK e \in SUBSET Nat : e = {v6 + 1, v6 + 2} /\ e = {2 * (l + 1) - 1, 2 * (l + 1)}
      <4>1. v6 + 1 = 2 * (l + 1) - 1 /\ v6 + 2 = 2 * (l + 1)
        BY <3>1
      <4>2. {v6 + 1, v6 + 2} \in SUBSET Nat
        BY <1>2
      <4> QED
        BY <4>1, <4>2
    <3>9. PICK t : t = Append(d, e)
      OBVIOUS
    <3>10. /\ t \in Seq(SUBSET Nat) /\ Len(t) = l + 1 /\ t[l + 1] = e
           /\ \A k \in 1 .. l : t[k] = d[k]
      BY <3>1, <3>8, <3>9
    <3>11. ASSUME NEW k \in 1 .. l + 1 PROVE t[k] = {2 * k - 1, 2 * k}
      <4>1. CASE k = l + 1
        BY <3>8, <3>10, <4>1
      <4>2. CASE k # l + 1
        <5>1. k \in 1 .. l
          BY <3>1, <4>2
        <5> QED
          BY <3>2, <3>10, <5>1
      <4> QED
        BY <4>1, <4>2
    <3>12. v7' = t /\ (l + 1) + (l + 1) = v6 + 2
      BY <3>1, <3>7, <3>8, <3>9
    <3> QED
      BY <2>3, <3>10, <3>11, <3>12 DEF HeaderSoFar
  <2>9. \/ /\ v2'.mode = "sending" /\ v6' < B /\ Len(v2'.buffer) = B - v6'
           /\ \A k \in 1 .. Len(v2'.buffer) : v2'.buffer[k] = v6' + k
        \/ v2'.mode = "idle" /\ v6' = B
    <3>1. CASE n = 2
      <4>1. v2' = Ata!Idle
        BY <1>14, <2>4, <2>6, <3>1 DEF Ata!ReadWord
      <4>2. v6 + 2 = B
        BY <1>2, <2>6, <3>1
      <4> QED
        BY <1>4, <2>3, <4>1, <4>2
    <3>2. CASE n # 2
      <4>1. PICK r : r = SubSeq(q, 3, n)
        OBVIOUS
      <4>2. v2' = [v2 EXCEPT !.buffer = r]
        BY <1>14, <2>4, <2>6, <2>7, <3>2, <4>1 DEF Ata!ReadWord, Ata!Rest
      <4>3. v2'.mode = "sending" /\ v2'.buffer = r
        BY <1>2, <2>4, <4>2 DEF DriveType
      <4>4. n >= 3 /\ Len(r) = n - 2 /\ \A k \in 1 .. n - 2 : r[k] = q[k + 2]
        <5>1. n >= 3
          BY <2>6, <3>2
        <5>2. Len(r) = n - 3 + 1 /\ \A k \in 1 .. n - 3 + 1 : r[k] = q[3 + k - 1]
          BY <2>7, <4>1, <5>1, PartOf
        <5>3. n - 3 + 1 = n - 2 /\ \A k \in 1 .. n - 2 : 3 + k - 1 = k + 2
          OBVIOUS
        <5> QED
          BY <5>1, <5>2, <5>3
      <4>5. v6 + 2 < B /\ n - 2 = B - (v6 + 2)
        BY <1>2, <2>3, <2>6, <4>4
      <4>6. ASSUME NEW k \in 1 .. n - 2 PROVE r[k] = (v6 + 2) + k
        <5>1. k + 2 \in 1 .. n /\ v6 + (k + 2) = (v6 + 2) + k
          BY <1>2, <2>6
        <5>2. q[k + 2] = v6 + (k + 2)
          BY <2>4, <2>6, <2>7, <5>1
        <5> QED
          BY <4>4, <5>1, <5>2
      <4> QED
        BY <2>1, <2>3, <4>3, <4>4, <4>5, <4>6
    <3> QED
      BY <3>1, <3>2
  <2>10. Describing'
    BY <1>14, <2>1, <2>2, <2>8, <2>9 DEF Describing
  <2> QED
    BY <1>1, <1>3, <2>1, <2>5, <2>10
<1>7. CASE Ata!ReadWord /\ v4.op # "Identify"
  <2>1. /\ v5 = "words" /\ v4.op = "Read28" /\ ~Ata!Finished
        /\ v1' = v1 /\ v9' = v9 /\ v3' = v3 /\ v4' = v4 /\ v5' = v5
    BY <1>7 DEF Ata!ReadWord, AtaTypes, CallType
  <2>2. Reading
    BY <1>1, <2>1 DEF Resting, Asking, Meeting, Describing, Writing, Flushing
  <2>3. v6 < B /\ v6' = v6 + 2 /\ v6 + 2 <= B
    <3>1. v6' = Ata!NextPos
      BY <1>7 DEF Ata!ReadWord
    <3> QED
      BY <1>2, <2>1, <3>1, NextWord DEF Ata!Finished
  <2>4. /\ v2.mode = "sending" /\ Len(v2.buffer) = B - v6
        /\ \A k \in 1 .. Len(v2.buffer) : v2.buffer[k] = v1[v4.sector][v6 + k]
    <3>1. v6 # bytesPerSector
      BY <1>2, <2>3
    <3> QED
      BY <2>2, <3>1, Zenon DEF Reading
  <2>5. v10' = v10
    BY <1>7, <2>4 DEF Ata!ReadWord
  <2>6. PICK n \in Nat : n = Len(v2.buffer) /\ n >= 2 /\ n = B - v6
    BY <1>2, <2>3, <2>4
  <2>7. PICK q \in Seq(Nat) : q = v2.buffer /\ Len(q) = n
    BY <1>2, <2>6
  <2>8. ReadSoFar'
    <3>1. PICK d \in Seq(Nat), l \in Nat :
             d = v7 /\ l = Len(d) /\ l = (IF v6 < v4.count THEN v6 ELSE v4.count)
      BY <2>2 DEF Reading, ReadSoFar
    <3>2. \A k \in 1 .. l : d[k] = v9[v4.sector][k]
      BY <2>2, <3>1 DEF Reading, ReadSoFar
    <3>3. v1 = v9
      BY <2>2 DEF Reading
    <3>4. CASE ~(v6 < v4.count)
      <4>1. v7' = v7
        BY <1>7, <3>4 DEF Ata!ReadWord
      <4>2. Len(d) = IF v6 + 2 < v4.count THEN v6 + 2 ELSE v4.count
        BY <1>2, <3>1, <3>4
      <4> QED
        BY <2>1, <2>3, <3>1, <3>2, <4>1, <4>2 DEF ReadSoFar
    <3>5. CASE v6 < v4.count
      <4>1. PICK c \in {1, 2} : c = IF v6 + 1 < v4.count THEN 2 ELSE 1
        OBVIOUS
      <4>2. PICK w : w = SubSeq(SubSeq(q, 1, 2), 1, c)
        OBVIOUS
      <4>3. v7' = d \o w
        BY <1>7, <2>4, <2>7, <3>1, <3>5, <4>1, <4>2 DEF Ata!ReadWord, Ata!DataWord
      <4>4. w \in Seq(Nat) /\ Len(w) = c /\ \A k \in 1 .. c : w[k] = q[k]
        <5>1. PICK r : r = SubSeq(q, 1, 2)
          OBVIOUS
        <5>2. r \in Seq(Nat) /\ Len(r) = 2 /\ \A k \in 1 .. 2 : r[k] = q[k]
          <6>1. 1 <= Len(q) /\ 2 <= Len(q) /\ 2 - 1 + 1 = 2
            BY <2>6, <2>7
          <6>2. \A k \in 1 .. 2 : 1 + k - 1 = k
            OBVIOUS
          <6> QED
            BY <5>1, <6>1, <6>2, PartOf
        <5>3. /\ w \in Seq(Nat) /\ Len(w) = c - 1 + 1
              /\ \A k \in 1 .. c - 1 + 1 : w[k] = r[1 + k - 1]
          BY <4>1, <4>2, <5>1, <5>2, PartOf
        <5>4. c - 1 + 1 = c /\ \A k \in 1 .. c : 1 + k - 1 = k /\ k \in 1 .. 2
          BY <4>1
        <5> QED
          BY <5>2, <5>3, <5>4
      <4>5. l = v6 /\ l + c = IF v6 + 2 < v4.count THEN v6 + 2 ELSE v4.count
        BY <1>2, <3>1, <3>5, <4>1
      <4>6. /\ v7' \in Seq(Nat) /\ Len(v7') = l + c
            /\ \A k \in 1 .. l : v7'[k] = d[k]
            /\ \A k \in 1 .. c : v7'[l + k] = w[k]
        <5>1. PICK t : t = d \o w
          OBVIOUS
        <5>2. c \in Nat /\ w \in Seq(Nat) /\ c = Len(w) /\ l = Len(d)
          BY <3>1, <4>1, <4>4
        <5>3. /\ t \in Seq(Nat) /\ Len(t) = l + c
              /\ \A k \in 1 .. l : t[k] = d[k]
              /\ \A k \in 1 .. c : t[l + k] = w[k]
          BY <5>1, <5>2, Chained
        <5> QED
          BY <4>3, <5>1, <5>3
      <4>7. ASSUME NEW k \in 1 .. l + c PROVE v7'[k] = v9[v4.sector][k]
        <5>1. CASE k <= l
          <6>1. k \in 1 .. l
            BY <5>1
          <6>2. v7'[k] = d[k]
            BY <4>6, <6>1
          <6> QED
            BY <3>2, <6>1, <6>2
        <5>2. CASE ~(k <= l)
          <6>1. PICK m \in 1 .. c : k = l + m
            BY <5>2
          <6>2. v7'[k] = w[m]
            BY <4>6, <6>1
          <6>3. m \in 1 .. n
            BY <2>6, <4>1, <6>1
          <6>4. q[m] = v1[v4.sector][v6 + m]
            BY <2>4, <2>6, <2>7, <6>3
          <6> QED
            BY <3>3, <4>4, <4>5, <6>1, <6>2, <6>4
        <5> QED
          BY <5>1, <5>2
      <4> QED
        BY <2>1, <2>3, <4>5, <4>6, <4>7 DEF ReadSoFar
    <3> QED
      BY <3>4, <3>5
  <2>9. \/ /\ v2'.mode = "sending" /\ v6' < B /\ Len(v2'.buffer) = B - v6'
           /\ \A k \in 1 .. Len(v2'.buffer) : v2'.buffer[k] = v1'[v4'.sector][v6' + k]
        \/ v2'.mode = "idle" /\ v6' = B
    <3>1. CASE n = 2
      <4>1. v2' = Ata!Idle
        BY <1>7, <2>4, <2>6, <3>1 DEF Ata!ReadWord
      <4>2. v6 + 2 = B
        BY <1>2, <2>6, <3>1
      <4> QED
        BY <1>4, <2>3, <4>1, <4>2
    <3>2. CASE n # 2
      <4>1. PICK r : r = SubSeq(q, 3, n)
        OBVIOUS
      <4>2. v2' = [v2 EXCEPT !.buffer = r]
        BY <1>7, <2>4, <2>6, <2>7, <3>2, <4>1 DEF Ata!ReadWord, Ata!Rest
      <4>3. v2'.mode = "sending" /\ v2'.buffer = r
        BY <1>2, <2>4, <4>2 DEF DriveType
      <4>4. n >= 3 /\ Len(r) = n - 2 /\ \A k \in 1 .. n - 2 : r[k] = q[k + 2]
        <5>1. n >= 3
          BY <2>6, <3>2
        <5>2. Len(r) = n - 3 + 1 /\ \A k \in 1 .. n - 3 + 1 : r[k] = q[3 + k - 1]
          BY <2>7, <4>1, <5>1, PartOf
        <5>3. n - 3 + 1 = n - 2 /\ \A k \in 1 .. n - 2 : 3 + k - 1 = k + 2
          OBVIOUS
        <5> QED
          BY <5>1, <5>2, <5>3
      <4>5. v6 + 2 < B /\ n - 2 = B - (v6 + 2)
        BY <1>2, <2>3, <2>6, <4>4
      <4>6. ASSUME NEW k \in 1 .. n - 2 PROVE r[k] = v1[v4.sector][(v6 + 2) + k]
        <5>1. k + 2 \in 1 .. n /\ v6 + (k + 2) = (v6 + 2) + k
          BY <1>2, <2>6
        <5>2. q[k + 2] = v1[v4.sector][v6 + (k + 2)]
          BY <2>4, <2>6, <2>7, <5>1
        <5> QED
          BY <4>4, <5>1, <5>2
      <4> QED
        BY <2>1, <2>3, <4>3, <4>4, <4>5, <4>6
    <3> QED
      BY <3>1, <3>2
  <2>10. Reading'
    BY <2>1, <2>2, <2>8, <2>9 DEF Reading
  <2> QED
    BY <1>1, <1>3, <2>1, <2>5, <2>10
<1>8. CASE Ata!WriteWord
  <2>1. /\ v5 = "words" /\ v4.op = "Write28" /\ ~Ata!Finished
        /\ v1' = v1 /\ v9' = v9 /\ v3' = v3 /\ v4' = v4 /\ v5' = v5
    BY <1>8 DEF Ata!WriteWord
  <2>2. Writing
    BY <1>1, <2>1 DEF Resting, Asking, Reading, Meeting, Describing, Flushing
  <2>3. v6 < B /\ v6' = v6 + 2 /\ v6 + 2 <= B
    BY <1>2, <1>8, <2>1, NextWord DEF Ata!WriteWord, Ata!Finished
  <2>4. ~(v2.mode = "preparing" \/ (v2.mode = "idle" /\ v3))
    <3> SUFFICES ASSUME v2.mode = "preparing" \/ (v2.mode = "idle" /\ v3) PROVE FALSE
      OBVIOUS
    <3>1. v10' = v10 \cup {"early"}
      BY <1>8 DEF Ata!WriteWord
    <3> QED
      BY <3>1
  <2>5. /\ v2.mode = "receiving" /\ v2.sector = v4.sector /\ Pending /\ ~v3
        /\ Len(v2.buffer) = v6 /\ \A k \in 1 .. v6 : v2.buffer[k] = Given[k]
    BY <1>2, <2>2, <2>3, <2>4 DEF Writing, Storing
  <2>6. v10' = v10
    BY <1>8, <2>5 DEF Ata!WriteWord
  <2>7. PICK m \in {"storing", "receiving"} :
           m = IF v6 + 2 = B THEN "storing" ELSE "receiving"
    OBVIOUS
  <2>8. PICK q \in Seq(Nat) : q = v2.buffer /\ Len(q) = v6
    BY <1>2, <2>5
  <2>9. PICK w : w = Ata!CallersWord
    OBVIOUS
  <2>10. /\ w \in Seq(Nat) /\ Len(w) = 2
         /\ \A k \in 1 .. 2 : w[k] = IF v6 + k <= v4.count THEN v4.id ELSE 0
    BY <1>2, <2>9 DEF Ata!CallersWord
  <2>11. PICK r : r = q \o w
    OBVIOUS
  <2>12. /\ r \in Seq(Nat) /\ Len(r) = v6 + 2
         /\ \A k \in 1 .. v6 : r[k] = q[k]
         /\ \A k \in 1 .. 2 : r[v6 + k] = w[k]
    <3>1. PICK l \in Nat, c \in Nat : l = Len(q) /\ c = Len(w)
      BY <2>8, <2>10
    <3>2. q \in Seq(Nat) /\ w \in Seq(Nat) /\ r = q \o w
      BY <2>8, <2>10, <2>11
    <3>3. /\ r \in Seq(Nat) /\ Len(r) = l + c
          /\ \A k \in 1 .. l : r[k] = q[k]
          /\ \A k \in 1 .. c : r[l + k] = w[k]
      BY <3>1, <3>2, Chained
    <3>4. l = v6 /\ c = 2
      BY <2>8, <2>10, <3>1
    <3> QED
      BY <3>3, <3>4
  <2>13. ASSUME NEW k \in 1 .. v6 + 2 PROVE r[k] = Given[k]
    <3>1. CASE k <= v6
      <4>1. k \in 1 .. v6
        BY <3>1
      <4>2. r[k] = q[k]
        BY <2>12, <4>1
      <4> QED
        BY <2>5, <2>8, <4>1, <4>2
    <3>2. CASE ~(k <= v6)
      <4>1. PICK j \in 1 .. 2 : k = v6 + j
        BY <1>2, <3>2
      <4>2. r[k] = w[j]
        BY <2>12, <4>1
      <4>3. k \in 1 .. B
        BY <1>2, <2>3
      <4>4. Given[k] = IF k <= v4.count THEN v4.id ELSE 0
        BY <4>3 DEF Given, BlockOf
      <4> QED
        BY <2>10, <4>1, <4>2, <4>4
    <3> QED
      BY <3>1, <3>2
  <2>14. v2' = [v2 EXCEPT !.buffer = r, !.mode = m]
    BY <1>8, <2>5, <2>7, <2>8, <2>9, <2>11 DEF Ata!WriteWord
  <2>15. v2'.mode = m /\ v2'.sector = v4'.sector /\ v2'.buffer = r
    BY <1>2, <2>1, <2>5, <2>14 DEF DriveType
  <2>16. Given' = Given /\ Pending' /\ ~v3'
    BY <2>1, <2>5 DEF Given, Pending, BlockOf
  <2>17. CASE v6 + 2 = B
    <3>1. Given \in Seq(Nat) /\ Len(Given) = B
      BY <1>2, BlockIs DEF Given, Block
    <3>2. r = Given
      BY <2>12, <2>13, <2>17, <3>1, SeqEqual
    <3>3. Storing'
      BY <2>7, <2>15, <2>16, <2>17, <3>2 DEF Storing
    <3>4. Writing'
      BY <2>1, <2>3, <2>17, <3>3 DEF Writing
    <3> QED
      BY <1>1, <1>3, <2>1, <2>6, <3>4
  <2>18. CASE v6 + 2 # B
    <3>1. v6' < B /\ Len(v2'.buffer) = v6' /\ \A k \in 1 .. v6' : v2'.buffer[k] = Given'[k]
      <4>1. v6 + 2 < B
        BY <1>2, <2>3, <2>18
      <4> QED
        BY <2>3, <2>12, <2>13, <2>15, <2>16, <4>1
    <3>2. Writing'
      BY <2>1, <2>7, <2>15, <2>16, <2>18, <3>1 DEF Writing
    <3> QED
      BY <1>1, <1>3, <2>1, <2>6, <3>2
  <2> QED
    BY <2>17, <2>18
<1>9. CASE Ata!Done
  <2>1. v5 = "words" /\ Ata!Finished /\ v1' = v1 /\ v9' = v9 /\ v6 >= B /\ v6 # 0
    BY <1>2, <1>9 DEF Ata!Done, Ata!Finished
  <2>2. CASE v4.op # "Write28"
    <3>1. Reading \/ Describing
      BY <1>1, <2>1, <2>2 DEF Resting, Asking, Meeting, Writing, Flushing
    <3>2. v2.mode = "idle" /\ v1 = v9
      BY <1>2, <2>1, <3>1 DEF Reading, Describing
    <3>3. v5' = "none" /\ v2' = v2 /\ v10' = v10
      BY <1>9, <2>2 DEF Ata!Done
    <3>4. Resting'
      BY <2>1, <3>2, <3>3 DEF Resting
    <3> QED
      BY <1>1, <1>3, <2>1, <3>3, <3>4
  <2>3. CASE v4.op = "Write28"
    <3>1. Writing
      BY <1>1, <2>1, <2>3 DEF Resting, Asking, Reading, Meeting, Describing, Flushing
    <3>2. Storing \/ (v2.mode = "idle" /\ v1 = v9 /\ ~v3)
      BY <1>2, <2>1, <3>1 DEF Writing
    <3>3. Ata!Command("flushing", v4.sector) /\ v5' = "status" /\ v4' = v4
      BY <1>9, <2>3 DEF Ata!Done
    <3>4. CASE Storing
      <4>1. v2' = v2 /\ v3' = v3 /\ v10' = v10 \cup {"flush"}
        BY <3>3, <3>4 DEF Ata!Command, Storing
      <4>2. Storing'
        BY <2>1, <3>3, <3>4, <4>1 DEF Storing, Pending, Given, BlockOf
      <4>3. Flushing'
        BY <2>3, <3>3, <4>2 DEF Flushing
      <4> QED
        BY <1>1, <1>3, <2>1, <4>1, <4>3
    <3>5. CASE v2.mode = "idle" /\ v1 = v9 /\ ~v3
      <4>1. v2'.mode = "flushing" /\ v3' = FALSE /\ v10' = v10
        BY <3>3, <3>5 DEF Ata!Command
      <4>2. Flushing'
        BY <2>1, <2>3, <3>3, <3>5, <4>1 DEF Flushing
      <4> QED
        BY <1>1, <1>3, <2>1, <4>1, <4>2
    <3> QED
      BY <3>2, <3>4, <3>5
  <2> QED
    BY <2>2, <2>3
<1>10. CASE Ata!Work
  <2>1. v3' = v3 /\ v4' = v4 /\ v5' = v5 /\ v6' = v6 /\ v7' = v7 /\ v10' = v10
    BY <1>10 DEF Ata!Work
  <2>2. CASE v2.mode = "seeking"
    <3>1. v2' = [v2 EXCEPT !.mode = "sending", !.buffer = v1[v2.sector]] /\ v1' = v1 /\ v9' = v9
      BY <1>10, <2>2 DEF Ata!Work
    <3>2. v2'.mode = "sending" /\ v2'.buffer = v1[v2.sector]
      BY <1>2, <3>1 DEF DriveType
    <3>3. Asking
      BY <1>1, <2>2 DEF Resting, Reading, Meeting, Describing, Writing, Flushing, Storing
    <3>4. Asking'
      BY <2>1, <2>2, <3>1, <3>2, <3>3 DEF Asking
    <3> QED
      BY <1>1, <1>3, <2>1, <3>1, <3>4
  <2>6. CASE v2.mode = "identifying"
    <3>1. v2' = [v2 EXCEPT !.mode = "sending", !.buffer = Ata!Identity] /\ v1' = v1 /\ v9' = v9
      BY <1>10, <2>6 DEF Ata!Work
    <3>2. v2'.mode = "sending" /\ v2'.buffer = Ata!Identity
      BY <1>2, <3>1 DEF DriveType
    <3>3. Meeting
      BY <1>1, <2>6 DEF Resting, Asking, Reading, Describing, Writing, Flushing, Storing
    <3>4. Meeting'
      BY <2>1, <2>6, <3>1, <3>2, <3>3 DEF Meeting
    <3> QED
      BY <1>1, <1>3, <2>1, <3>1, <3>4
  <2>3. CASE v2.mode = "preparing"
    <3>1. v2' = [v2 EXCEPT !.mode = "receiving"] /\ v1' = v1 /\ v9' = v9
      BY <1>10, <2>3 DEF Ata!Work
    <3>2. v2'.mode = "receiving" /\ v2'.sector = v2.sector /\ v2'.buffer = <<>>
      BY <1>2, <2>3, <3>1 DEF DriveType, AtaTypes
    <3>3. Writing
      BY <1>1, <2>3 DEF Resting, Asking, Reading, Meeting, Describing, Flushing, Storing
    <3>4. v2.sector = v4.sector /\ Pending /\ ~v3 /\ v6 = 0 /\ v5 = "words" /\ v4.op = "Write28"
      BY <2>3, <3>3 DEF Writing, Storing
    <3>5. Pending'
      BY <2>1, <3>1, <3>4 DEF Pending, Given, BlockOf
    <3>6. Len(<<>>) = 0 /\ 1 .. 0 = {}
      OBVIOUS
    <3>7. Writing'
      BY <1>2, <2>1, <3>2, <3>4, <3>5, <3>6 DEF Writing
    <3> QED
      BY <1>1, <1>3, <2>1, <3>1, <3>7
  <2>4. CASE v2.mode = "storing"
    <3>1. v1' = [v1 EXCEPT ![v2.sector] = v2.buffer] /\ v2' = Ata!Idle /\ v9' = v9
      BY <1>10, <2>4 DEF Ata!Work
    <3>2. Writing \/ Flushing
      BY <1>1, <2>4 DEF Resting, Asking, Reading, Meeting, Describing
    <3>3. Storing
      BY <2>4, <3>2 DEF Writing, Flushing
    <3>4. v1' = v9'
      BY <3>1, <3>3 DEF Storing, Pending
    <3>5. Whole'
      BY <1>1, <3>1, <3>4 DEF OneCalls
    <3>6. CASE Writing
      <4>1. v5 = "words" /\ v4.op = "Write28" /\ v6 = B
        BY <2>4, <3>6 DEF Writing
      <4>2. Writing'
        BY <1>4, <2>1, <3>1, <3>3, <3>4, <4>1 DEF Writing, Storing
      <4> QED
        BY <1>1, <2>1, <3>5, <4>2
    <3>7. CASE Flushing
      <4>1. v5 = "status" /\ v4.op = "Write28"
        BY <3>7 DEF Flushing
      <4>2. Flushing'
        BY <1>4, <2>1, <3>1, <3>3, <3>4, <4>1 DEF Flushing, Storing
      <4> QED
        BY <1>1, <2>1, <3>5, <4>2
    <3> QED
      BY <3>2, <3>6, <3>7
  <2>5. CASE v2.mode = "flushing"
    <3>1. v2' = Ata!Idle /\ v1' = v1 /\ v9' = v9
      BY <1>10, <2>5 DEF Ata!Work
    <3>2. Flushing
      BY <1>1, <2>5 DEF Resting, Asking, Reading, Meeting, Describing, Writing, Storing
    <3>3. Flushing'
      BY <1>4, <2>1, <2>5, <3>1, <3>2 DEF Flushing, Storing
    <3> QED
      BY <1>1, <1>3, <2>1, <3>1, <3>3
  <2> QED
    BY <1>10, <2>2, <2>3, <2>4, <2>5, <2>6 DEF Ata!Work
<1>11. CASE Ata!Fail
  <2>1. /\ v2' = Ata!Idle /\ v3' = TRUE /\ v1' = v1 /\ v4' = v4 /\ v5' = v5
        /\ v6' = v6 /\ v7' = v7 /\ v10' = v10
        /\ v9' = IF v2.mode = "preparing" THEN [v9 EXCEPT ![v2.sector] = v1[v2.sector]] ELSE v9
    BY <1>11 DEF Ata!Fail
  <2>2. CASE v2.mode = "seeking"
    <3>1. Asking
      BY <1>1, <2>2 DEF Resting, Reading, Meeting, Describing, Writing, Flushing, Storing
    <3>2. v9' = v9
      BY <2>1, <2>2
    <3>3. Asking'
      BY <1>4, <2>1, <3>1, <3>2 DEF Asking
    <3> QED
      BY <1>1, <1>3, <2>1, <3>2, <3>3
  <2>4. CASE v2.mode = "identifying"
    <3>1. Meeting
      BY <1>1, <2>4 DEF Resting, Asking, Reading, Describing, Writing, Flushing, Storing
    <3>2. v9' = v9
      BY <2>1, <2>4
    <3>3. Meeting'
      BY <1>4, <2>1, <3>1, <3>2 DEF Meeting
    <3> QED
      BY <1>1, <1>3, <2>1, <3>2, <3>3
  <2>3. CASE v2.mode = "preparing"
    <3>1. Writing
      BY <1>1, <2>3 DEF Resting, Asking, Reading, Meeting, Describing, Flushing, Storing
    <3>2. v2.sector = v4.sector /\ Pending /\ v6 = 0 /\ v5 = "words" /\ v4.op = "Write28"
      BY <2>3, <3>1 DEF Writing, Storing
    <3>3. v9' = v1
      BY <1>2, <2>1, <2>3, <3>2 DEF Pending
    <3>4. Writing'
      BY <1>4, <2>1, <3>2, <3>3 DEF Writing
    <3>5. Whole'
      BY <1>1, <2>1, <3>3 DEF OneCalls
    <3> QED
      BY <1>1, <2>1, <3>4, <3>5
  <2> QED
    BY <1>11, <2>2, <2>3, <2>4 DEF Ata!Fail
<1>12. CASE Ata!Ended
  <2>1. UNCHANGED <<v1, v2, v3, v4, v5, v6, v7, v9, v10>>
    BY <1>12 DEF Ata!Ended, Ata!vars
  <2>2. Given' = Given
    BY <2>1 DEF Given, BlockOf
  <2>3. Place'
    <3>1. Resting => Resting'
      BY <2>1 DEF Resting
    <3>2. Asking => Asking'
      BY <2>1 DEF Asking
    <3>3. Reading => Reading'
      BY <2>1 DEF Reading, ReadSoFar
    <3>7. Meeting => Meeting'
      BY <2>1 DEF Meeting
    <3>8. Describing => Describing'
      BY <2>1 DEF Describing, HeaderSoFar
    <3>4. Storing => Storing'
      BY <2>1, <2>2 DEF Storing, Pending
    <3>5. Writing => Writing'
      BY <2>1, <2>2, <3>4 DEF Writing, Pending
    <3>6. Flushing => Flushing'
      BY <2>1, <3>4 DEF Flushing
    <3> QED
      BY <1>1, <3>1, <3>2, <3>3, <3>5, <3>6, <3>7, <3>8
  <2> QED
    BY <1>1, <1>3, <2>1, <2>3
<1> QED
  BY <1>2, <1>5, <1>6, <1>7, <1>8, <1>9, <1>10, <1>11, <1>12, <1>13, <1>14 DEF Ata!Next

(* Without a drive no command is taken.                                    *)
LEMMA MissingStep ==
    ASSUME Ata!ConstantsOK, AtaTypes, Missing, Ata!Next, v11 # "drive"
    PROVE  Missing'
<1>1. ASSUME NEW mode, NEW sector, Ata!Command(mode, sector) PROVE v2' = v2
  BY <1>1 DEF Ata!Command
<1>2. v2.mode = "idle" /\ v4.op # "Identify" /\ \A s \in Sectors : OneCalls(v1[s])
  BY DEF Missing
<1>3. v2' = v2 /\ v1' = v1 /\ v4'.op # "Identify" => Missing'
  <2> SUFFICES ASSUME v2' = v2, v1' = v1, v4'.op # "Identify" PROVE Missing'
    OBVIOUS
  <2>1. v2'.mode = "idle"
    BY <1>2
  <2>2. \A s \in Sectors : OneCalls(v1'[s])
    BY <1>2
  <2> QED
    BY <2>1, <2>2 DEF Missing, OneCalls
<1>4. ASSUME NEW op \in {"Read28", "Write28"}, NEW s \in Sectors, NEW c \in Nat,
             Ata!Begin(op, s, c)
      PROVE  Missing'
  BY <1>1, <1>2, <1>3, <1>4 DEF Ata!Begin
<1>5. CASE Ata!Identify
  BY <1>2, <1>3, <1>5 DEF Ata!Identify, Ata!Absent
<1>6. CASE Ata!Status
  BY <1>2, <1>3, <1>6 DEF Ata!Status, Ata!NoCall
<1>7. CASE Ata!ReadWord
  BY <1>2, <1>3, <1>7 DEF Ata!ReadWord
<1>8. CASE Ata!WriteWord
  BY <1>2, <1>3, <1>8 DEF Ata!WriteWord
<1>9. CASE Ata!Done
  BY <1>1, <1>2, <1>3, <1>9 DEF Ata!Done, Ata!NoCall
<1>10. ~Ata!Work /\ ~Ata!Fail
  BY <1>2 DEF Ata!Work, Ata!Fail
<1>11. CASE Ata!Ended
  BY <1>2, <1>3, <1>11 DEF Ata!Ended, Ata!vars
<1>12. Counts \subseteq Nat
  BY DEF Ata!ConstantsOK
<1> QED
  BY <1>4, <1>5, <1>6, <1>7, <1>8, <1>9, <1>10, <1>11, <1>12 DEF Ata!Next

(* Both together.                                                          *)
LEMMA AtaStep ==
    ASSUME Ata!ConstantsOK, AtaProof, [Ata!Next]_(Ata!vars)
    PROVE  AtaProof'
<1>1. CASE Ata!Next
  <2>1. AtaTypes /\ AtaTypes'
    BY <1>1, AtaTypesStep DEF AtaProof
  <2>2. v10 \subseteq v10' /\ v11' = v11
    BY <1>1 DEF Ata!Next, Ata!Begin, Ata!Identify, Ata!Command, Ata!Status, Ata!ReadWord,
           Ata!WriteWord, Ata!Done, Ata!Work, Ata!Fail, Ata!Ended, Ata!vars
  <2>3. ASSUME v11 = "drive", "early" \notin v10'
        PROVE  AtaRight' /\ \A s \in Sectors : OneCalls(v1[s])' /\ OneCalls(v9[s])'
    <3>1. AtaRight /\ \A s \in Sectors : OneCalls(v1[s]) /\ OneCalls(v9[s])
      BY <2>2, <2>3 DEF AtaProof
    <3> QED
      BY <1>1, <2>1, <2>3, <3>1, AtaRightStep
  <2>4. ASSUME v11 # "drive" PROVE Missing'
    BY <1>1, <2>1, <2>4, MissingStep DEF AtaProof
  <2> QED
    BY <2>1, <2>2, <2>3, <2>4 DEF AtaProof
<1>2. CASE UNCHANGED Ata!vars
  <2>1. UNCHANGED <<v1, v2, v3, v4, v5, v6, v7, v8, v9, v10, v11>>
    BY <1>2 DEF Ata!vars
  <2>2. AtaTypes => AtaTypes'
    BY <2>1 DEF AtaTypes
  <2>3. Given' = Given
    BY <2>1 DEF Given, BlockOf
  <2>4. AtaRight => AtaRight'
    <3>1. Resting => Resting'
      BY <2>1 DEF Resting
    <3>2. Asking => Asking'
      BY <2>1 DEF Asking
    <3>3. Reading => Reading'
      BY <2>1 DEF Reading, ReadSoFar
    <3>7. Meeting => Meeting'
      BY <2>1 DEF Meeting
    <3>8. Describing => Describing'
      BY <2>1 DEF Describing, HeaderSoFar
    <3>4. Storing => Storing'
      BY <2>1, <2>3 DEF Storing, Pending
    <3>5. Writing => Writing'
      BY <2>1, <2>3, <3>4 DEF Writing, Pending
    <3>6. Flushing => Flushing'
      BY <2>1, <3>4 DEF Flushing
    <3> QED
      BY <2>1, <3>1, <3>2, <3>3, <3>5, <3>6, <3>7, <3>8 DEF AtaRight
  <2>5. \A s \in Sectors : (OneCalls(v1[s]) => OneCalls(v1[s])')
                           /\ (OneCalls(v9[s]) => OneCalls(v9[s])')
    BY <2>1 DEF OneCalls
  <2>6. Missing => Missing'
    BY <2>1 DEF Missing, OneCalls
  <2> QED
    BY <2>1, <2>2, <2>4, <2>5, <2>6 DEF AtaProof
<1> QED
  BY <1>1, <1>2

(* What a reader of the disk sees of it.                                   *)
LEMMA AtaSuffices ==
    ASSUME Ata!ConstantsOK, AtaProof
    PROVE  Ata!AtaInv
<1>1. AtaTypes
  BY DEF AtaProof
<1>2. Ata!TypeOK
  <2>1. \A s \in Sectors : Len(v1[s]) = bytesPerSector
    BY <1>1 DEF AtaTypes, Block
  <2>2. v2.mode \in DriveModes
    BY <1>1 DEF AtaTypes, DriveType
  <2> QED
    BY <1>1, <2>1, <2>2 DEF AtaTypes, DriveModes, Slips, Ata!TypeOK
<1>3. Ata!WholeSector
  BY DEF AtaProof, AtaRight, Resting, Asking, Reading, Meeting, Describing, Writing, Flushing,
         Ata!WholeSector
<1>4. Ata!RightBytes
  <2> SUFFICES ASSUME "early" \notin v10
               PROVE  /\ v11 = "drive" /\ v5 = "words" /\ v4.op = "Read28" =>
                            v7 = SubSeq(v9[v4.sector], 1, Len(v7))
                      /\ v5 = "words" /\ v4.op = "Identify" =>
                            v7 = [k \in 1 .. v6 \div 2 |->
                                    {Ata!Identity[2 * k - 1], Ata!Identity[2 * k]}]
                      /\ v11 = "drive" /\ v5 = "none" => v1 = v9
    BY DEF Ata!RightBytes
  <2>1. v11 = "drive" /\ v5 = "none" => v1 = v9
    BY DEF AtaProof, AtaRight, Resting, Asking, Reading, Meeting, Describing, Writing, Flushing
  <2>3. ASSUME v5 = "words", v4.op = "Identify"
        PROVE  v7 = [k \in 1 .. v6 \div 2 |-> {Ata!Identity[2 * k - 1], Ata!Identity[2 * k]}]
    <3>1. Describing
      BY <2>3 DEF AtaProof, Missing, AtaRight, Resting, Asking, Reading, Meeting, Writing, Flushing
    <3>2. PICK l \in Nat : l = Len(v7) /\ l + l = v6
      BY <3>1 DEF Describing, HeaderSoFar
    <3>3. v6 \div 2 = l
      BY <3>2
    <3>4. v7 = [k \in 1 .. l |-> v7[k]]
      BY <3>1, <3>2 DEF Describing, HeaderSoFar
    <3>5. l + l <= bytesPerSector /\ bytesPerSector \in Nat
      <4>1. v6 <= bytesPerSector
        BY <1>1, <3>1 DEF Describing, Ata!ConstantsOK, AtaTypes
      <4> QED
        BY <3>2, <4>1 DEF Ata!ConstantsOK
    <3>6. ASSUME NEW k \in 1 .. l
          PROVE  v7[k] = {Ata!Identity[2 * k - 1], Ata!Identity[2 * k]}
      <4>1. v7[k] = {2 * k - 1, 2 * k}
        BY <3>1, <3>2 DEF Describing, HeaderSoFar
      <4>2. 2 * k - 1 \in 1 .. bytesPerSector /\ 2 * k \in 1 .. bytesPerSector
        BY <3>5
      <4> QED
        BY <4>1, <4>2 DEF Ata!Identity
    <3> QED
      BY <3>3, <3>4, <3>6
  <2>2. ASSUME v11 = "drive", v5 = "words", v4.op = "Read28"
        PROVE  v7 = SubSeq(v9[v4.sector], 1, Len(v7))
    <3>1. Reading
      BY <2>2 DEF AtaProof, AtaRight, Resting, Asking, Meeting, Describing, Writing, Flushing
    <3>2. PICK d \in Seq(Nat), l \in Nat : d = v7 /\ l = Len(d)
      BY <3>1 DEF Reading, ReadSoFar
    <3>3. l <= bytesPerSector /\ bytesPerSector \in Nat
      <4>1. /\ bytesPerSector \in Nat /\ v6 \in Nat /\ v4.count \in 0 .. bytesPerSector
            /\ Len(v7) = IF v6 < v4.count THEN v6 ELSE v4.count
        BY <1>1, <3>1 DEF Ata!ConstantsOK, AtaTypes, CallType, Reading, ReadSoFar
      <4> QED
        BY <3>2, <4>1
    <3>4. PICK q \in Seq(Nat) : q = v9[v4.sector] /\ Len(q) = bytesPerSector
      BY <1>1, <2>2 DEF AtaTypes, Block
    <3>5. \A k \in 1 .. l : d[k] = q[k]
      BY <3>1, <3>2, <3>4 DEF Reading, ReadSoFar
    <3>6. d = SubSeq(q, 1, l)
      <4>1. CASE l = 0
        <5>1. 1 \in Int /\ l \in Int /\ l < 1
          BY <4>1
        <5>2. SubSeq(q, 1, l) = <<>>
          BY <5>1, SubSeqEmpty
        <5>3. d \in Seq(Nat) /\ Len(d) = 0
          BY <3>2, <4>1
        <5>4. d = <<>>
          BY <5>3, EmptySeq
        <5> QED
          BY <5>2, <5>4
      <4>2. CASE l # 0
        <5>1. PICK t : t = SubSeq(q, 1, l)
          OBVIOUS
        <5>2. /\ t \in Seq(Nat) /\ Len(t) = l - 1 + 1
              /\ \A k \in 1 .. l - 1 + 1 : t[k] = q[1 + k - 1]
          BY <3>2, <3>3, <3>4, <4>2, <5>1, PartOf
        <5>3. l - 1 + 1 = l /\ \A k \in 1 .. l : 1 + k - 1 = k
          BY <3>2
        <5>4. Len(t) = l /\ \A k \in 1 .. l : t[k] = d[k]
          BY <3>5, <5>2, <5>3
        <5> QED
          BY <3>2, <5>1, <5>2, <5>4, SeqEqual
      <4> QED
        BY <4>1, <4>2
    <3> QED
      BY <3>2, <3>4, <3>6
  <2> QED
    BY <2>1, <2>2, <2>3
<1>5. Ata!NeverMixed
  <2> SUFFICES ASSUME "early" \notin v10, NEW s \in Sectors,
                      NEW j \in 1 .. bytesPerSector, NEW k \in 1 .. bytesPerSector,
                      v1[s][j] # 0, v1[s][k] # 0
               PROVE  v1[s][j] = v1[s][k]
    BY DEF Ata!NeverMixed
  <2>1. OneCalls(v1[s])
    BY DEF AtaProof, Missing
  <2> QED
    BY <2>1 DEF OneCalls
<1> QED
  BY <1>2, <1>3, <1>4, <1>5 DEF Ata!AtaInv
----------------------------------------------------------------------------
(* A file: mbr v1, volume v2, dirent v3, wanted v4, junk v5, entry v6,     *)
(* SIZE v7, cluster v8, sectorOffset v9, bytesRead v10, copied v11,        *)
(* visited v12, state v13.                                                 *)

File == v3[v6]
Cluster == Fat!ClusterSize

(* The sector at which a cluster starts.                                   *)
StartOf(c) == Fat!dataStart + sectorsPerCluster * (c - 2)

(* How much of what is left behind the first cluster fits into a sector.   *)
Rest1 == IF File.size - Cluster <= SectorSize THEN File.size - Cluster ELSE SectorSize

FatTypes ==
    /\ v1.types \in PartitionTypes /\ v2 \in -1 .. Len(v1.types)
    /\ v3 \in Directories /\ v4 \in Fat!Name /\ v5 \in Fat!Junk
    /\ v6 \in 1 .. Len(v3) + 1 /\ v7 \in Int /\ v8 \in Nat /\ v9 \in Nat /\ v10 \in Nat
    /\ v11 \in Seq([at : Nat, sector : Int]) /\ v12 \in Seq(Nat)
    /\ v13 \in {"mbr", "look", "astray", "read", "follow", "done"}
    /\ v13 \in {"mbr", "look"} => v9 = 0 /\ v10 = 0 /\ v11 = <<>> /\ v12 = <<>>
    /\ v13 = "mbr" => v6 = 1
    /\ Fat!InFile => v6 \in DOMAIN v3 /\ v6 \in Fat!Seen

(* What the entries before this one are not.                               *)
PassedOver ==
    v13 \in {"mbr", "look"} => \A k \in DOMAIN v3 :
        k < v6 /\ v3[k].name = v4 /\ ~v3[k].hidden => ~Fat!Sure(v4)

(* Where the loops are: in the cluster after those that were visited, and  *)
(* o sectors into it, one more than it has when it reads too many.         *)
Within ==
    LET j == Len(v12) + 1 IN
    /\ v12 = SubSeq(File.chain, 1, j - 1) /\ j <= Len(File.chain) /\ v8 = File.chain[j]
    /\ IF v9 <= sectorsPerCluster
       THEN v7 = File.size - (j - 1) * Cluster - v9 * SectorSize
       ELSE v9 = sectorsPerCluster + 1 /\ v7 = File.size - j * Cluster /\ v7 > 0
    /\ v13 = "read" => v7 > 0 /\ v9 <= sectorsPerCluster
    /\ v13 = "follow" => v7 <= 0 \/ v9 > sectorsPerCluster

(* How many sectors were copied, and where the next one goes.              *)
Progress ==
    LET j == Len(v12) + 1 IN
    /\ j = 1 => /\ Len(v11) = v9
                /\ v13 = "read" => v10 = v9 * SectorSize
                /\ v9 > sectorsPerCluster => v10 = Cluster + Rest1
    /\ j = 2 /\ v9 = 0 => Len(v11) = sectorsPerCluster + 1 /\ v10 = Cluster + Rest1
    /\ j > 2 \/ (j = 2 /\ v9 > 0) =>
          Len(v11) > sectorsPerCluster + 1 /\ v10 > Cluster + Rest1
    /\ v10 <= SectorSize * ((j - 1) * (sectorsPerCluster + 1) + v9)

(* Which sectors were copied, and where to.                                *)
Copies ==
    \A k \in DOMAIN v11 :
       /\ k <= sectorsPerCluster + 1 =>
             v11[k] = [at |-> (k - 1) * SectorSize, sector |-> StartOf(File.chain[1]) + (k - 1)]
       /\ k = sectorsPerCluster + 2 =>
             v11[k] = [at |-> Cluster + Rest1, sector |-> StartOf(File.chain[2])]
       /\ k > sectorsPerCluster + 2 => v11[k].at > Cluster + Rest1

(* When GetFile has returned.                                              *)
AllRead ==
    /\ v12 = File.chain
    /\ IF File.size <= Cluster
       THEN File.size <= Len(v11) * SectorSize /\ Len(v11) <= sectorsPerCluster
       ELSE Len(v11) > sectorsPerCluster + 1

FatProof ==
    /\ FatTypes /\ PassedOver /\ Fat!RightFile /\ Fat!NoFurther
    /\ v13 \in {"read", "follow"} => Within /\ Progress
    /\ Fat!InFile => Copies
    /\ Fat!InFile /\ v13 = "done" => AllRead
----------------------------------------------------------------------------
(* A string that shows a name: its characters up to the terminator.        *)
End(n, e) == IF e = 0 THEN n ELSE n + e + 1

Shows(str, n, e) == \A k \in 0 .. End(n, e) :
    str[k] = IF k = End(n, e) THEN "0"
             ELSE IF k < n THEN "n" ELSE IF k = n THEN "." ELSE "x"

(* A string that shows none: its twelfth character is a blank.             *)
Spoilt(str) == str[11] = " " /\ str[12] = "0" /\ \A k \in 0 .. 11 : str[k] # "0"

(* A written name, character by character.                                 *)
LEMMA WrittenIs ==
    ASSUME NEW n \in 1 .. 8, NEW e \in 0 .. 3
    PROVE  Fat!Written([n |-> n, e |-> e]) =
           [k \in 1 .. End(n, e) |-> IF k <= n THEN "n" ELSE IF k = n + 1 THEN "." ELSE "x"]
<1>1. CASE e = 0
  <2>1. Fat!Written([n |-> n, e |-> e]) = [k \in 1 .. n |-> "n"] \o <<>>
    BY <1>1 DEF Fat!Written
  <2>2. [k \in 1 .. n |-> "n"] \in Seq({"n"})
        /\ [k \in 1 .. n |-> "n"] \o <<>> = [k \in 1 .. n |-> "n"]
    <3>1. [k \in 1 .. n |-> "n"] \in [1 .. n -> {"n"}]
      OBVIOUS
    <3>2. [k \in 1 .. n |-> "n"] \in Seq({"n"})
      BY <3>1, n \in Nat, SeqDef
    <3> QED
      BY <3>2, ConcatEmptySeq
  <2>3. [k \in 1 .. n |-> "n"] =
        [k \in 1 .. End(n, e) |-> IF k <= n THEN "n" ELSE IF k = n + 1 THEN "." ELSE "x"]
    BY <1>1 DEF End
  <2> QED
    BY <2>1, <2>2, <2>3
<1>2. CASE e # 0
  <2> DEFINE a == [k \in 1 .. n |-> "n"]
             b == [k \in 1 .. e |-> "x"]
             d == <<".">> \o b
             w == [k \in 1 .. End(n, e) |-> IF k <= n THEN "n" ELSE IF k = n + 1 THEN "." ELSE "x"]
  <2>1. Fat!Written([n |-> n, e |-> e]) = a \o d
    BY <1>2 DEF Fat!Written
  <2>2. a \in Seq({"n", ".", "x"}) /\ Len(a) = n /\ \A k \in 1 .. n : a[k] = "n"
    <3>1. a \in [1 .. n -> {"n", ".", "x"}]
      OBVIOUS
    <3> QED
      BY <3>1, n \in Nat, SeqDef, LenProperties
  <2>3. b \in Seq({"n", ".", "x"}) /\ Len(b) = e /\ \A k \in 1 .. e : b[k] = "x"
    <3>1. b \in [1 .. e -> {"n", ".", "x"}]
      OBVIOUS
    <3> QED
      BY <3>1, e \in Nat, SeqDef, LenProperties
  <2>4. <<".">> \in Seq({"n", ".", "x"}) /\ Len(<<".">>) = 1 /\ <<".">>[1] = "."
    OBVIOUS
  <2> HIDE DEF a, b
  <2>5. d \in Seq({"n", ".", "x"}) /\ Len(d) = e + 1 /\ d[1] = "."
        /\ \A k \in 2 .. e + 1 : d[k] = "x"
    BY <2>3, <2>4, ConcatProperties
  <2> HIDE DEF d
  <2>6. /\ a \o d \in Seq({"n", ".", "x"}) /\ Len(a \o d) = n + e + 1
        /\ \A k \in 1 .. n + e + 1 :
              (a \o d)[k] = IF k <= n THEN "n" ELSE IF k = n + 1 THEN "." ELSE "x"
    <3>1. a \o d \in Seq({"n", ".", "x"}) /\ Len(a \o d) = Len(a) + Len(d)
          /\ \A k \in 1 .. Len(a) + Len(d) :
                (a \o d)[k] = IF k <= Len(a) THEN a[k] ELSE d[k - Len(a)]
      BY <2>2, <2>5, ConcatProperties
    <3>2. ASSUME NEW k \in 1 .. n + e + 1
          PROVE  (a \o d)[k] = IF k <= n THEN "n" ELSE IF k = n + 1 THEN "." ELSE "x"
      BY <2>2, <2>5, <3>1
    <3> QED
      BY <3>1, <3>2, <2>2, <2>5
  <2>7. w \in Seq({"n", ".", "x"}) /\ Len(w) = n + e + 1
        /\ \A k \in 1 .. n + e + 1 : w[k] = IF k <= n THEN "n" ELSE IF k = n + 1 THEN "." ELSE "x"
    <3>1. w \in [1 .. n + e + 1 -> {"n", ".", "x"}]
      <4>1. 1 .. End(n, e) = 1 .. n + e + 1
        BY <1>2 DEF End
      <4> QED
        BY <4>1
    <3>2. n + e + 1 \in Nat
      OBVIOUS
    <3>3. w \in Seq({"n", ".", "x"}) /\ Len(w) = n + e + 1
      <4> HIDE DEF w
      <4>1. w \in Seq({"n", ".", "x"})
        BY <3>1, <3>2, SeqDef
      <4>2. Len(w) \in Nat /\ DOMAIN w = 1 .. Len(w)
        BY <4>1, LenProperties
      <4>3. DOMAIN w = 1 .. n + e + 1
        BY <3>1
      <4>4. PICK l \in Nat, m \in Nat : l = Len(w) /\ m = n + e + 1
        BY <4>2, <3>2
      <4>5. 1 .. l = 1 .. m
        BY Zenon, <4>2, <4>3, <4>4
      <4>6. l = m
        BY <4>5
      <4>7. Len(w) = n + e + 1
        BY <4>4, <4>6
      <4> QED
        BY <4>1, <4>7
    <3>4. End(n, e) = n + e + 1
      BY <1>2 DEF End
    <3> QED
      BY <3>3, <3>4
  <2> HIDE DEF w
  <2>8. a \o d = w
    BY <2>6, <2>7, SeqEqual
  <2> QED
    BY <2>1, <2>8 DEF w
<1> QED
  BY <1>1, <1>2

(* No two names are written alike.                                         *)
LEMMA WrittenOnce ==
    ASSUME NEW a \in Fat!Name, NEW b \in Fat!Name, Fat!Written(a) = Fat!Written(b)
    PROVE  a = b
<1>1. PICK n \in 1 .. 8, e \in 0 .. 3 : a = [n |-> n, e |-> e]
  BY DEF Fat!Name
<1>2. PICK m \in 1 .. 8, f \in 0 .. 3 : b = [n |-> m, e |-> f]
  BY DEF Fat!Name
<1> DEFINE u == [k \in 1 .. End(n, e) |-> IF k <= n THEN "n" ELSE IF k = n + 1 THEN "." ELSE "x"]
           v == [k \in 1 .. End(m, f) |-> IF k <= m THEN "n" ELSE IF k = m + 1 THEN "." ELSE "x"]
<1>3. u = v
  <2>1. Fat!Written(a) = u
    BY <1>1, WrittenIs
  <2>2. Fat!Written(b) = v
    BY <1>2, WrittenIs
  <2> QED
    BY <2>1, <2>2
<1>4. 1 .. End(n, e) = 1 .. End(m, f)
  <2>1. DOMAIN u = 1 .. End(n, e) /\ DOMAIN v = 1 .. End(m, f)
    OBVIOUS
  <2> QED
    BY <1>3, <2>1
<1>5. End(n, e) \in Nat \ {0} /\ End(m, f) \in Nat \ {0} /\ End(n, e) = End(m, f)
  <2>1. End(n, e) \in Nat \ {0} /\ End(m, f) \in Nat \ {0}
    BY DEF End
  <2> QED
    BY <1>4, <2>1
<1>6. /\ n < End(n, e) => u[n + 1] = "." /\ v[n + 1] = "."
      /\ m < End(n, e) => v[m + 1] = "." /\ u[m + 1] = "."
  <2>1. n < End(n, e) => u[n + 1] = "."
    BY <1>5
  <2>2. m < End(n, e) => v[m + 1] = "."
    BY <1>5
  <2> QED
    BY <2>1, <2>2, <1>3
<1>7. n < End(n, e) => n = m
  <2> SUFFICES ASSUME n < End(n, e) PROVE n = m
    OBVIOUS
  <2>1. v[n + 1] = IF n + 1 <= m THEN "n" ELSE IF n + 1 = m + 1 THEN "." ELSE "x"
    BY <1>5
  <2> QED
    BY <1>6, <2>1
<1>8. m < End(n, e) => n = m
  <2> SUFFICES ASSUME m < End(n, e) PROVE n = m
    OBVIOUS
  <2>1. u[m + 1] = IF m + 1 <= n THEN "n" ELSE IF m + 1 = n + 1 THEN "." ELSE "x"
    BY <1>5
  <2> QED
    BY <1>6, <2>1
<1>9. n = m /\ e = f
  BY <1>5, <1>7, <1>8 DEF End
<1> QED
  BY <1>1, <1>2, <1>9

(* What strcmp2 sees of a string that shows a name, and of one that does   *)
(* not.                                                                    *)
LEMMA ShownIs ==
    ASSUME NEW n \in 1 .. 8, NEW e \in 0 .. 3, NEW str, Shows(str, n, e)
    PROVE  Fat!Text(str) = Fat!Written([n |-> n, e |-> e])
<1>1. End(n, e) \in 1 .. 12
  BY DEF End
<1>2. Fat!Min({k \in 0 .. 12 : str[k] = "0"}) = End(n, e)
  <2>1. str[End(n, e)] = "0"
    BY <1>1 DEF Shows
  <2>2. \A k \in 0 .. 12 : str[k] = "0" => End(n, e) <= k
    <3> SUFFICES ASSUME NEW k \in 0 .. 12, str[k] = "0", k < End(n, e) PROVE FALSE
      BY <1>1
    <3>1. k \in 0 .. End(n, e) /\ k # End(n, e)
      BY <1>1
    <3> QED
      BY <3>1 DEF Shows
  <2> QED
    BY <1>1, <2>1, <2>2 DEF Fat!Min
<1>3. Fat!Text(str) = [k \in 1 .. End(n, e) |-> str[k - 1]]
  BY <1>2 DEF Fat!Text
<1>4. ASSUME NEW k \in 1 .. End(n, e)
      PROVE  str[k - 1] = IF k <= n THEN "n" ELSE IF k = n + 1 THEN "." ELSE "x"
  <2>1. k - 1 \in 0 .. End(n, e) /\ k - 1 # End(n, e)
    BY <1>1
  <2>2. str[k - 1] = IF k - 1 < n THEN "n" ELSE IF k - 1 = n THEN "." ELSE "x"
    BY <2>1 DEF Shows
  <2> QED
    BY <2>2, <1>1
<1>5. Fat!Text(str) =
        [k \in 1 .. End(n, e) |-> IF k <= n THEN "n" ELSE IF k = n + 1 THEN "." ELSE "x"]
  BY <1>3, <1>4
<1> QED
  BY <1>5, WrittenIs

(* And what it sees of a spoilt string is no name at all.                  *)
LEMMA SpoiltIs ==
    ASSUME NEW str, Spoilt(str), NEW w \in Fat!Name
    PROVE  Fat!Text(str) # Fat!Written(w)
<1>1. Fat!Min({k \in 0 .. 12 : str[k] = "0"}) = 12
  <2>1. {k \in 0 .. 12 : str[k] = "0"} = {12}
    <3>1. \A k \in 0 .. 12 : str[k] = "0" <=> k = 12
      <4>1. \A k \in 0 .. 12 : k # 12 => k \in 0 .. 11
        OBVIOUS
      <4> QED
        BY <4>1 DEF Spoilt
    <3> QED
      BY <3>1
  <2> QED
    BY <2>1 DEF Fat!Min
<1>2. Fat!Text(str) = [k \in 1 .. 12 |-> str[k - 1]]
  BY <1>1 DEF Fat!Text
<1>3. Fat!Text(str)[12] = " " /\ DOMAIN Fat!Text(str) = 1 .. 12
  <2>1. Fat!Text(str)[12] = str[12 - 1] /\ DOMAIN Fat!Text(str) = 1 .. 12
    BY <1>2
  <2>2. 12 - 1 = 11
    OBVIOUS
  <2> QED
    BY <2>1, <2>2 DEF Spoilt
<1>4. PICK n \in 1 .. 8, e \in 0 .. 3 : w = [n |-> n, e |-> e]
  BY DEF Fat!Name
<1>5. Fat!Written(w) =
        [k \in 1 .. End(n, e) |-> IF k <= n THEN "n" ELSE IF k = n + 1 THEN "." ELSE "x"]
  BY <1>4, WrittenIs
<1>6. SUFFICES ASSUME Fat!Text(str) = Fat!Written(w) PROVE FALSE
  OBVIOUS
<1>7. 12 \in 1 .. End(n, e)
  <2>1. DOMAIN Fat!Written(w) = 1 .. End(n, e)
    BY <1>5
  <2>2. 1 .. 12 = 1 .. End(n, e)
    BY <1>3, <1>6, <2>1
  <2> QED
    BY <2>2
<1>8. Fat!Written(w)[12] # " "
  BY <1>5, <1>7
<1> QED
  BY <1>3, <1>6, <1>8

(* What convertFromFATFormat and trimName make of a name: c and t.         *)
Trims(c, t, blank, j, n, e) ==
    \A k \in 0 .. 12 :
       /\ c[k] = IF k = 12 THEN "0" ELSE IF k < n THEN "n" ELSE IF e = 0 THEN blank
                 ELSE IF k = n THEN "." ELSE IF k <= n + e THEN "x"
                 ELSE IF k = n + e + 1 /\ e < 3 THEN j ELSE blank
       /\ c[k] # blank \/ k > 10 => t[k] = c[k]
       /\ k <= 10 /\ c[k] = blank /\ (\A m \in k .. 10 : c[m] \in {blank, "0"}) => t[k] = "0"

(* The trimming, for any character in the place of the blank.              *)
LEMMA TrimsIf ==
    ASSUME NEW n \in 1 .. 8, NEW e \in 0 .. 3, NEW j, NEW blank, NEW c, NEW t,
           \A k \in 0 .. 12 :
              c[k] = IF k = 12 THEN "0" ELSE IF k < n THEN "n" ELSE IF e = 0 THEN blank
                     ELSE IF k = n THEN "." ELSE IF k <= n + e THEN "x"
                     ELSE IF k = n + e + 1 /\ e < 3 THEN j ELSE blank,
           \A k \in 0 .. 12 :
              t[k] = IF k <= 10 /\ c[k] = blank
                         /\ \A m \in {i \in 0 .. 10 : c[i] \notin {blank, "0"}} : m < k
                     THEN "0" ELSE c[k]
    PROVE  Trims(c, t, blank, j, n, e)
<1> SUFFICES ASSUME NEW k \in 0 .. 12
    PROVE  /\ c[k] # blank \/ k > 10 => t[k] = c[k]
           /\ k <= 10 /\ c[k] = blank /\ (\A m \in k .. 10 : c[m] \in {blank, "0"}) => t[k] = "0"
  BY DEF Trims
<1>1. c[k] # blank \/ k > 10 => t[k] = c[k]
  OBVIOUS
<1>2. k <= 10 /\ c[k] = blank /\ (\A m \in k .. 10 : c[m] \in {blank, "0"}) => t[k] = "0"
  <2> SUFFICES ASSUME k <= 10, c[k] = blank, \A m \in k .. 10 : c[m] \in {blank, "0"}
               PROVE  t[k] = "0"
    OBVIOUS
  <2>1. \A m \in {i \in 0 .. 10 : c[i] \notin {blank, "0"}} : m < k
    OBVIOUS
  <2> QED
    BY <2>1
<1> QED
  BY <1>1, <1>2

(* GetFile forms the name of an entry so (fat.cpp).                        *)
LEMMA Trimmed ==
    ASSUME NEW n \in 1 .. 8, NEW e \in 0 .. 3, NEW j \in Fat!Junk
    PROVE  Trims(Fat!convertFromFATFormat([n |-> n, e |-> e], j),
                 Fat!trimName(Fat!convertFromFATFormat([n |-> n, e |-> e], j)), " ", j, n, e)
<1> DEFINE c == Fat!convertFromFATFormat([n |-> n, e |-> e], j)
           t == Fat!trimName(c)
<1>1. \A k \in 0 .. 12 :
        c[k] = IF k = 12 THEN "0" ELSE IF k < n THEN "n" ELSE IF e = 0 THEN " "
               ELSE IF k = n THEN "." ELSE IF k <= n + e THEN "x"
               ELSE IF k = n + e + 1 /\ e < 3 THEN j ELSE " "
  BY DEF Fat!convertFromFATFormat
<1> HIDE DEF c
<1>2. \A k \in 0 .. 12 :
        t[k] = IF k <= 10 /\ c[k] = " "
                   /\ \A m \in {i \in 0 .. 10 : c[i] \notin {" ", "0"}} : m < k
               THEN "0" ELSE c[k]
  BY DEF Fat!trimName
<1> HIDE DEF t
<1>4. Trims(c, t, " ", j, n, e)
  BY Zenon, <1>1, <1>2, TrimsIf
<1> QED
  BY <1>4 DEF c, t
(* The names that the trimming leaves right, those that get an "x" more,   *)
(* and those that it leaves a blank in.                                    *)
Outcomes(t, blank, j, n, e) ==
    /\ e = 0 \/ (e = 3 /\ n # 7) => Shows(t, n, e)
    /\ \/ Shows(t, n, e) /\ ~(e = 3 /\ n = 7)
       \/ e \in {1, 2} /\ j = "x" /\ Shows(t, n, e + 1) /\ ~(e = 2 /\ n = 7)
       \/ /\ t[11] = blank /\ t[12] = "0" /\ \A k \in 0 .. 11 : t[k] # "0"
          /\ ~(e = 0 \/ (e = 3 /\ n # 7))

(* One of the three comes of every name and every unwritten byte.          *)
LEMMA Outcome ==
    ASSUME NEW n \in 1 .. 8, NEW e \in 0 .. 3, NEW blank, blank \notin {"0", "n", "x", "."},
           NEW j \in {"0", blank, "x"}, NEW c, NEW t,
           Trims(c, t, blank, j, n, e)
    PROVE  Outcomes(t, blank, j, n, e)
<1> USE DEF Trims, Outcomes
<1>1. ASSUME NEW k \in 0 .. 12, k < n
      PROVE  t[k] = "n"
  BY <1>1
<1>2. ASSUME NEW k \in 0 .. 12, k = n, e > 0
      PROVE  t[k] = "."
  BY <1>2
<1>3. ASSUME NEW k \in 0 .. 12, n < k, k <= n + e
      PROVE  t[k] = "x"
  <2>1. c[k] = "x"
    BY <1>3
  <2> QED
    BY <2>1
<1>4. t[12] = "0"
  BY 12 \in 0 .. 12
<1>5. ASSUME NEW k \in 0 .. 10, c[k] = blank, k >= n + e, k > n + e \/ e = 0
      PROVE  t[k] = "0" \/ (k = n + e + 1 /\ k < 11 /\ e < 3 /\ j = blank)
                \/ \E m \in k .. 10 : c[m] = "x" /\ m = n + e + 1 /\ j = "x" /\ e \in 1 .. 2
  <2>1. ASSUME NEW m \in k .. 10, c[m] \notin {blank, "0"}
        PROVE  c[m] = "x" /\ m = n + e + 1 /\ j = "x" /\ e \in 1 .. 2
    BY <1>5, <2>1
  <2> QED
    BY <1>5, <2>1
<1>6. CASE e = 0
  <2>1. t[n] = "0"
    <3>1. c[n] = blank /\ \A m \in n .. 10 : c[m] \in {blank, "0"}
      BY <1>6
    <3> QED
      BY <3>1
  <2>2. Shows(t, n, e)
    BY <1>1, <1>6, <2>1 DEF Shows, End
  <2> QED
    BY <1>6, <2>2
<1>7. CASE e # 0 /\ t[n + e + 1] = "0" /\ ~(e = 3 /\ n = 7)
  <2>1. Shows(t, n, e)
    <3> SUFFICES ASSUME NEW k \in 0 .. n + e + 1
                 PROVE  t[k] = IF k = n + e + 1 THEN "0"
                               ELSE IF k < n THEN "n" ELSE IF k = n THEN "." ELSE "x"
      BY <1>7 DEF Shows, End
    <3> QED
      BY <1>1, <1>2, <1>3, <1>7
  <2> QED
    BY <1>7, <2>1
<1>8. CASE e = 3 /\ n # 7
  <2>1. t[n + 4] = "0"
    <3>1. CASE n = 8
      BY <1>4, <3>1
    <3>2. CASE n < 7
      <4>1. c[n + 4] = blank /\ n + 4 \in 0 .. 10 /\ \A m \in n + 4 .. 10 : c[m] \in {blank, "0"}
        BY <1>8, <3>2
      <4> QED
        BY <4>1
    <3> QED
      BY <1>8, <3>1, <3>2
  <2> QED
    BY <1>7, <1>8, <2>1
<1>9. ASSUME e # 0, n + e + 1 = 11, t[11] = blank, ~(e = 3 /\ n # 7)
      PROVE  /\ t[11] = blank /\ t[12] = "0" /\ \A k \in 0 .. 11 : t[k] # "0"
             /\ ~(e = 0 \/ (e = 3 /\ n # 7))
  <2>1. \A k \in 0 .. 11 : t[k] # "0"
    BY <1>1, <1>2, <1>3, <1>9
  <2> QED
    BY <1>4, <1>9, <2>1
<1>10. CASE e = 3 /\ n = 7
  <2>1. t[11] = blank
    <3>1. c[11] = blank /\ 11 \in 0 .. 12
      BY <1>10
    <3> QED
      BY <3>1
  <2> QED
    BY <1>9, <1>10, <2>1
<1>11. CASE e \in {1, 2} /\ j = "0"
  <2>1. c[n + e + 1] = "0" /\ n + e + 1 \in 0 .. 12
    BY <1>11
  <2>2. t[n + e + 1] = "0"
    BY <2>1
  <2> QED
    BY <1>7, <1>11, <2>2
<1>12. CASE e \in {1, 2} /\ j = blank
  <2>1. c[n + e + 1] = blank /\ n + e + 1 \in 0 .. 11
    BY <1>12
  <2>2. CASE n + e + 1 = 11
    <3>1. t[11] = blank
      BY <2>1, <2>2
    <3> QED
      BY <1>9, <1>12, <2>2, <3>1
  <2>3. CASE n + e + 1 <= 10
    <3>1. \A m \in n + e + 1 .. 10 : c[m] \in {blank, "0"}
      BY <1>12
    <3>2. t[n + e + 1] = "0"
      BY <2>1, <2>3, <3>1
    <3> QED
      BY <1>7, <1>12, <3>2
  <2> QED
    BY <2>1, <2>2, <2>3
<1>13. CASE e \in {1, 2} /\ j = "x"
  <2>1. c[n + e + 1] = "x" /\ n + e + 1 \in 0 .. 11 /\ t[n + e + 1] = "x"
    BY <1>13
  <2>2. CASE n + e + 2 = 11
    <3>1. c[11] = blank /\ t[11] = blank /\ 11 \in 0 .. 12
      BY <1>13, <2>2
    <3>2. \A k \in 0 .. 11 : t[k] # "0"
      BY <1>1, <1>2, <1>3, <1>13, <2>1, <2>2, <3>1
    <3> QED
      BY <1>4, <1>13, <3>1, <3>2
  <2>3. CASE n + e + 2 # 11
    <3>1. t[n + e + 2] = "0"
      <4>1. CASE n + e + 2 = 12
        BY <1>4, <4>1
      <4>2. CASE n + e + 2 <= 10
        <5>1. c[n + e + 2] = blank /\ n + e + 2 \in 0 .. 12
          BY <1>13, <4>2
        <5>2. \A m \in n + e + 2 .. 10 : c[m] \in {blank, "0"}
          BY <1>13, <4>2
        <5> QED
          BY <4>2, <5>1, <5>2
      <4> QED
        BY <1>13, <2>3, <4>1, <4>2
    <3>2. Shows(t, n, e + 1)
      <4> SUFFICES ASSUME NEW k \in 0 .. n + e + 2
                   PROVE  t[k] = IF k = n + e + 2 THEN "0"
                                 ELSE IF k < n THEN "n" ELSE IF k = n THEN "." ELSE "x"
        BY <1>13 DEF Shows, End
      <4> QED
        BY <1>1, <1>2, <1>3, <1>13, <2>1, <3>1
    <3>3. ~(e = 2 /\ n = 7)
      BY <2>3
    <3> QED
      BY <1>13, <3>2, <3>3
  <2> QED
    BY <2>2, <2>3
<1> QED
  BY <1>6, <1>8, <1>10, <1>11, <1>12, <1>13

(* An entry that is found has the wanted name, or one whose extension a    *)
(* byte that was never written has made longer; and a name that is sure    *)
(* is found.                                                               *)
LEMMA MatchMeans ==
    ASSUME v4 \in Fat!Name, NEW name \in Fat!Name, NEW j \in Fat!Junk
    PROVE  LET found == Fat!Text(Fat!trimName(Fat!convertFromFATFormat(name, j)))
                            = Fat!Written(v4)
           IN  /\ Fat!Sure(name) /\ name = v4 => found
               /\ found => ~Fat!Never(v4) /\ (name = v4 \/ (name.e \in {1, 2} /\ j = "x"))
<1>1. PICK n \in 1 .. 8, e \in 0 .. 3 : name = [n |-> n, e |-> e]
  BY DEF Fat!Name
<1> DEFINE c == Fat!convertFromFATFormat([n |-> n, e |-> e], j)
           t == Fat!trimName(c)
           blank == " "
<1>2. blank \notin {"0", "n", "x", "."} /\ j \in {"0", blank, "x"}
  BY DEF Fat!Junk
<1>3. Trims(c, t, blank, j, n, e)
  BY <1>1, Trimmed
<1> HIDE DEF c, t, blank
<1>4. Outcomes(t, blank, j, n, e)
  BY <1>1, <1>2, <1>3, Outcome
<1>5. Shows(t, n, e) => Fat!Text(t) = Fat!Written(name)
  BY <1>1, ShownIs
<1>6. Fat!Text(Fat!trimName(Fat!convertFromFATFormat(name, j))) = Fat!Text(t)
  BY <1>1 DEF c, t
<1>7. Fat!Sure(name) /\ name = v4 => Fat!Text(t) = Fat!Written(v4)
  BY <1>1, <1>4, <1>5 DEF Fat!Sure, Outcomes
<1>8. ASSUME Fat!Text(t) = Fat!Written(v4)
      PROVE  ~Fat!Never(v4) /\ (name = v4 \/ (name.e \in {1, 2} /\ j = "x"))
  <2>1. CASE Shows(t, n, e) /\ ~(e = 3 /\ n = 7)
    <3>1. name = v4
      BY <1>5, <1>8, <2>1, WrittenOnce
    <3> QED
      BY <1>1, <2>1, <3>1 DEF Fat!Never
  <2>2. CASE e \in {1, 2} /\ j = "x" /\ Shows(t, n, e + 1) /\ ~(e = 2 /\ n = 7)
    <3>1. e + 1 \in 0 .. 3 /\ [n |-> n, e |-> e + 1] \in Fat!Name
      BY <2>2 DEF Fat!Name
    <3>2. Fat!Text(t) = Fat!Written([n |-> n, e |-> e + 1])
      BY <2>2, <3>1, ShownIs
    <3>3. v4 = [n |-> n, e |-> e + 1]
      BY <1>8, <3>1, <3>2, WrittenOnce
    <3>4. v4.n = n /\ v4.e = e + 1
      BY <3>3
    <3> QED
      BY <1>1, <2>2, <3>4 DEF Fat!Never
  <2>3. CASE t[11] = blank /\ t[12] = "0" /\ \A k \in 0 .. 11 : t[k] # "0"
    <3>1. Spoilt(t)
      BY <2>3 DEF Spoilt, blank
    <3> QED
      BY <1>8, <3>1, SpoiltIs
  <2> QED
    BY <1>4, <2>1, <2>2, <2>3 DEF Outcomes
<1> QED
  BY <1>6, <1>7, <1>8
----------------------------------------------------------------------------
(* Products of sizes.                                                      *)
LEMMA Product ==
    ASSUME NEW a \in Nat, NEW b \in Nat
    PROVE  a * b \in Nat /\ (a > 0 /\ b > 0 => a * b > 0 /\ a * b >= a /\ a * b >= b)
OBVIOUS

(* A factor keeps an order.                                                *)
LEMMA Monotone ==
    ASSUME NEW a \in Nat, NEW b \in Int, NEW d \in Int, b <= d
    PROVE  a * b <= a * d
OBVIOUS

(* And may be cancelled from one.                                          *)
LEMMA Cancel ==
    ASSUME NEW a \in Nat, NEW b \in Int, NEW d \in Int, a * b < a * d
    PROVE  b < d
OBVIOUS

(* A size rounded up to sectors covers a sector that was begun.            *)
LEMMA RoundUp ==
    ASSUME NEW s \in Nat \ {0}, NEW size \in Nat, NEW q \in Nat, size > q * s
    PROVE  (size + s - 1) \div s >= q + 1
<1>1. (size + s - 1) \div s \in Int
      /\ size + s - 1 < s * ((size + s - 1) \div s) + s
  OBVIOUS
<1> DEFINE d == (size + s - 1) \div s
<1> HIDE DEF d
<1>2. d \in Int /\ size + s - 1 < s * d + s
  BY <1>1 DEF d
<1>3. PICK b \in Int, f \in Int : b = q + 1 /\ f = d + 1
  BY <1>2
<1>4. s * b < s * f
  <2>1. s * q < s * d + 1
    BY <1>2
  <2> QED
    BY <1>2, <1>3
<1>5. b < f
  BY <1>4, <1>3, Cancel
<1> QED
  BY <1>2, <1>3, <1>5 DEF d

(* A sector that ends within the file's clusters, and the room for it.     *)
LEMMA Room ==
    ASSUME NEW s \in Nat \ {0}, NEW c \in Nat \ {0}, NEW size \in Nat, NEW n \in Nat,
           NEW j \in Nat \ {0}, NEW o \in Nat, NEW at \in Nat, j <= n,
           size - (j - 1) * (s * c) - o * s > 0, at <= s * ((j - 1) * (c + 1) + o)
    PROVE  at + s <= s * ((size + s - 1) \div s + n - 1)
<1>1. PICK p \in Nat : p = j - 1
  OBVIOUS
<1>2. p * c \in Nat /\ (p * c + o) \in Nat
  BY Product
<1>3. size > (p * c + o) * s
  BY <1>1
<1>4. PICK d \in Int : d = (size + s - 1) \div s
  OBVIOUS
<1>5. d >= p * c + o + 1
  BY <1>2, <1>3, <1>4, RoundUp
<1>6. p * c + p + o + 1 <= d + n - 1
  BY <1>1, <1>2, <1>5
<1>7. s * (p * c + p + o + 1) <= s * (d + n - 1)
  BY <1>2, <1>6, Monotone
<1>8. at + s <= s * (p * c + p + o + 1)
  BY <1>1, <1>2
<1> QED
  BY <1>4, <1>7, <1>8

(* What is left of a file after a sector of a cluster, and after one too   *)
(* many.                                                                   *)
LEMMA LessLeft ==
    ASSUME NEW s \in Nat \ {0}, NEW c \in Nat \ {0}, NEW size \in Nat,
           NEW j \in Nat \ {0}, NEW o \in Nat, NEW left \in Int,
           left = size - (j - 1) * (s * c) - o * s
    PROVE  /\ left - s = size - (j - 1) * (s * c) - (o + 1) * s
           /\ o = c => left = size - j * (s * c)
           /\ o = 0 => left = size - (j - 1) * (s * c)
OBVIOUS

(* When nothing of a file is left, the cluster is its last one.            *)
LEMMA LastCluster ==
    ASSUME NEW s \in Nat \ {0}, NEW c \in Nat \ {0}, NEW size \in Nat, NEW n \in Nat,
           NEW j \in Nat \ {0}, NEW o \in Nat, j <= n, o <= c,
           size - (j - 1) * (s * c) - o * s <= 0, (s * c) * (n - 1) < size
    PROVE  n = j
<1>1. PICK q \in Nat : q = s * c
  BY Product
<1>2. s * o <= q
  BY <1>1, Monotone
<1>3. q * (n - 1) < q * j
  BY <1>1, <1>2
<1>4. n - 1 < j
  BY <1>3, Cancel
<1> QED
  BY <1>4

(* When something is left after the whole cluster, there is another one.   *)
LEMMA OneMore ==
    ASSUME NEW q \in Nat, NEW size \in Nat, NEW n \in Nat, NEW j \in Nat,
           size - j * q > 0, size <= q * n
    PROVE  j < n
<1>1. q * j < q * n
  OBVIOUS
<1> QED
  BY <1>1, Cancel
----------------------------------------------------------------------------
(* What a file of a directory is.                                          *)
LEMMA FileIs ==
    ASSUME v3 \in Directories, NEW k \in DOMAIN v3
    PROVE  /\ v3[k].name \in Fat!Name /\ v3[k].hidden \in BOOLEAN
           /\ v3[k].size \in Nat /\ v3[k].chain \in Seq(Nat) /\ Len(v3[k].chain) \in Nat
           /\ v3[k].size <= Cluster * Len(v3[k].chain)
           /\ Cluster * (Len(v3[k].chain) - 1) < v3[k].size
           /\ \A a, b \in DOMAIN v3[k].chain : v3[k].chain[a] = v3[k].chain[b] => a = b
<1>1. Directories \subseteq Seq(Fat!FileType)
      /\ \A directory \in Directories : \A i \in DOMAIN directory : Fat!Sound(directory[i])
  BY ConstantsAssumption DEF Fat!ConstantsOK
<1>2. v3 \in Seq(Fat!FileType) /\ Fat!Sound(v3[k])
  BY <1>1
<1>3. v3[k] \in Fat!FileType
  BY <1>2
<1> QED
  BY <1>2, <1>3 DEF Fat!FileType, Fat!Sound, Cluster

(* A sector and a cluster are of some size.                                *)
LEMMA FatSizes == SectorSize \in Nat \ {0} /\ sectorsPerCluster \in Nat \ {0} /\ Entries \in Nat
                  /\ Cluster = SectorSize * sectorsPerCluster /\ Cluster \in Nat \ {0}
<1>1. SectorSize \in Nat \ {0} /\ sectorsPerCluster \in Nat \ {0} /\ Entries \in Nat
      /\ Cluster = SectorSize * sectorsPerCluster
  BY ConstantsAssumption DEF Fat!ConstantsOK, Cluster, Fat!ClusterSize
<1>2. SectorSize * sectorsPerCluster > 0
  BY <1>1, Product
<1> QED
  BY <1>1, <1>2, Product

(* At first nothing is read.                                               *)
LEMMA FatInit ==
    ASSUME Fat!Init
    PROVE  FatProof
<1>1. v1.types \in PartitionTypes /\ v3 \in Directories /\ v3 \in Seq(Fat!FileType)
      /\ v1.types \in Seq(STRING)
  BY ConstantsAssumption DEF Fat!Init, Fat!ConstantsOK
<1>2. v4 \in Fat!Name
  <2>1. CASE v4 \in {v3[k].name : k \in DOMAIN v3}
    BY <1>1, <2>1, FileIs
  <2>2. CASE v4 = [n |-> 8, e |-> 3]
    BY <2>2 DEF Fat!Name
  <2> QED
    BY <2>1, <2>2 DEF Fat!Init
<1>3. ~Fat!InFile
  BY DEF Fat!Init, Fat!InFile
<1>4. FatTypes
  <2>1. v2 \in -1 .. Len(v1.types) /\ v6 \in 1 .. Len(v3) + 1
    BY <1>1 DEF Fat!Init
  <2>2. v11 \in Seq([at : Nat, sector : Int]) /\ v12 \in Seq(Nat)
    BY DEF Fat!Init
  <2> QED
    BY <1>1, <1>2, <1>3, <2>1, <2>2 DEF FatTypes, Fat!Init, Fat!Junk
<1>5. PassedOver
  <2>1. v6 = 1 /\ \A k \in DOMAIN v3 : ~(k < v6)
    BY <1>1 DEF Fat!Init
  <2> QED
    BY <2>1 DEF PassedOver
<1> QED
  BY <1>3, <1>4, <1>5 DEF FatProof, Fat!RightFile, Fat!NoFurther, Fat!Init

(* ReadPartitions, and GetFile at one entry of the directory.              *)
LEMMA ReadPartitionsStep ==
    ASSUME FatProof, Fat!ReadPartitions
    PROVE  FatProof'
<1>1. v13 = "mbr" /\ v11 = <<>> /\ v6 = 1
  BY DEF FatProof, FatTypes, Fat!ReadPartitions
<1>2. v13' \in {"look", "done"} /\ (v13' = "done" => ~(v2' > 0))
  BY DEF Fat!ReadPartitions
<1>3. v2' \in -1 .. Len(v1.types)
  <2>1. v1.types \in Seq(STRING)
    BY ConstantsAssumption DEF FatProof, FatTypes, Fat!ConstantsOK
  <2>2. CASE v1.valid /\ Fat!Known # {}
    <3>1. Fat!Known \subseteq DOMAIN v1.types /\ Fat!Known \subseteq Nat
      <4>1. Fat!Known \subseteq DOMAIN v1.types
        BY DEF Fat!Known
      <4>2. DOMAIN v1.types \subseteq Nat
        BY <2>1
      <4> QED
        BY <4>1, <4>2
    <3>2. Fat!Min(Fat!Known) \in Fat!Known
      <4>1. \E x \in Fat!Known : \A y \in Fat!Known : x <= y
        BY <2>2, <3>1, Least
      <4> QED
        BY <4>1 DEF Fat!Min
    <3> QED
      BY <2>1, <2>2, <3>1, <3>2 DEF Fat!ReadPartitions
  <2>3. CASE ~(v1.valid /\ Fat!Known # {})
    <3>1. v2' \in {0, -1}
      BY <2>3 DEF Fat!ReadPartitions
    <3> QED
      BY <2>1, <3>1
  <2> QED
    BY <2>2, <2>3
<1>4. ~Fat!InFile'
  BY <1>1, <1>2 DEF Fat!InFile, Fat!ReadPartitions
<1>5. FatTypes'
  BY <1>1, <1>2, <1>3, <1>4 DEF FatProof, FatTypes, Fat!ReadPartitions
<1>6. PassedOver'
  <2>1. \A k \in DOMAIN v3' : ~(k < v6')
    <3>1. v3 \in Seq(Fat!FileType)
      BY ConstantsAssumption DEF FatProof, FatTypes, Fat!ConstantsOK
    <3> QED
      BY <1>1, <3>1 DEF Fat!ReadPartitions
  <2> QED
    BY <2>1 DEF PassedOver
<1>7. Fat!RightFile' /\ Fat!NoFurther'
  BY <1>2, <1>4 DEF Fat!RightFile, Fat!NoFurther
<1> QED
  BY <1>2, <1>4, <1>5, <1>6, <1>7 DEF FatProof

(* GetFile looks at an entry of the directory.                             *)
LEMMA LookStep ==
    ASSUME FatProof, NEW j \in Fat!Junk, Fat!Look(j)
    PROVE  FatProof'
<1>1. /\ v13 = "look" /\ v9 = 0 /\ v10 = 0 /\ v11 = <<>> /\ v12 = <<>> /\ v5' = j
      /\ UNCHANGED <<v1, v2, v3, v4, v9, v10, v11, v12>> /\ v6 \in 1 .. Len(v3) + 1
      /\ v4 \in Fat!Name /\ FatTypes /\ PassedOver
  BY DEF FatProof, FatTypes, Fat!Look
<1>2. v3 \in Directories /\ v3 \in Seq(Fat!FileType) /\ Len(v3) \in Nat
      /\ DOMAIN v3 = 1 .. Len(v3)
  BY ConstantsAssumption DEF FatProof, FatTypes, Fat!ConstantsOK
<1>3. CASE v6 \notin Fat!Seen
  <2>1. v13' = "done" /\ UNCHANGED <<v6, v7, v8>>
    BY <1>3 DEF Fat!Look
  <2>2. ~Fat!InFile'
    BY <1>1, <2>1 DEF Fat!InFile
  <2>3. FatTypes'
    BY <1>1, <2>1, <2>2 DEF FatTypes
  <2>4. ASSUME NEW k \in DOMAIN v3, k <= Entries, v3[k].name = v4, ~v3[k].hidden
        PROVE  ~Fat!Sure(v4)
    <3>1. k < v6
      BY <1>1, <1>2, <1>3, <2>4, FatSizes DEF Fat!Seen
    <3> QED
      BY <1>1, <2>4, <3>1 DEF PassedOver
  <2>5. Fat!RightFile' /\ Fat!NoFurther' /\ PassedOver'
    BY <1>1, <2>1, <2>2, <2>4 DEF Fat!RightFile, Fat!NoFurther, PassedOver
  <2> QED
    BY <2>1, <2>2, <2>3, <2>5 DEF FatProof
<1>4. CASE v6 \in Fat!Seen /\ (v3[v6].hidden \/ ~Fat!Matches(v3[v6], j))
  <2>1. v6' = v6 + 1 /\ UNCHANGED <<v7, v8, v13>>
    BY <1>4 DEF Fat!Look
  <2>2. ~Fat!InFile'
    BY <1>1, <2>1 DEF Fat!InFile
  <2>3. v6' \in 1 .. Len(v3) + 1 /\ v6 \in DOMAIN v3
    BY <1>1, <1>2, <1>4, <2>1 DEF Fat!Seen
  <2>4. FatTypes'
    BY <1>1, <2>1, <2>2, <2>3 DEF FatTypes
  <2>5. PassedOver'
    <3> SUFFICES ASSUME NEW k \in DOMAIN v3, k < v6 + 1, v3[k].name = v4, ~v3[k].hidden
                 PROVE  ~Fat!Sure(v4)
      BY <1>1, <2>1 DEF PassedOver
    <3>1. CASE k < v6
      BY <1>1, <3>1 DEF PassedOver
    <3>2. CASE k = v6
      <4>1. v3[v6].name \in Fat!Name
        BY <1>2, <2>3, FileIs
      <4>2. ~Fat!Matches(v3[v6], j)
        BY <1>4, <3>2
      <4>3. Fat!Sure(v3[v6].name) /\ v3[v6].name = v4 => Fat!Matches(v3[v6], j)
        BY <1>1, <4>1, MatchMeans DEF Fat!Matches
      <4> QED
        BY <3>2, <4>2, <4>3
    <3> QED
      BY <1>1, <1>2, <3>1, <3>2
  <2>6. Fat!RightFile' /\ Fat!NoFurther'
    BY <1>1, <2>1, <2>2 DEF Fat!RightFile, Fat!NoFurther
  <2> QED
    BY <1>1, <2>1, <2>2, <2>4, <2>5, <2>6 DEF FatProof
<1>5. CASE v6 \in Fat!Seen /\ ~v3[v6].hidden /\ Fat!Matches(v3[v6], j)
  <2>1. /\ v7' = v3[v6].size /\ v8' = (IF v3[v6].size > 0 THEN v3[v6].chain[1] ELSE 0)
        /\ v13' = (IF v3[v6].size > 0 THEN "read" ELSE "done") /\ v6' = v6
    BY <1>5 DEF Fat!Look
  <2>2. v6 \in DOMAIN v3
    BY <1>1, <1>2, <1>5 DEF Fat!Seen
  <2>3. /\ v3[v6].name \in Fat!Name /\ v3[v6].size \in Nat /\ v3[v6].chain \in Seq(Nat)
        /\ Len(v3[v6].chain) \in Nat /\ v3[v6].size <= Cluster * Len(v3[v6].chain)
    BY <1>2, <2>2, FileIs
  <2>4. v3[v6].size > 0 => Len(v3[v6].chain) > 0
    <3> SUFFICES ASSUME v3[v6].size > 0 PROVE Len(v3[v6].chain) > 0
      OBVIOUS
    <3>1. v3[v6].size - 0 * Cluster > 0
      BY <2>3, FatSizes
    <3> QED
      BY <2>3, <3>1, FatSizes, OneMore
  <2>5. v8' \in Nat
    <3>1. CASE v3[v6].size > 0
      BY <2>1, <2>3, <2>4, <3>1
    <3>2. CASE ~(v3[v6].size > 0)
      BY <2>1, <3>2
    <3> QED
      BY <3>1, <3>2
  <2>6. FatTypes'
    <3>1. v6' \in Fat!Seen'
      BY <1>1, <1>5, <2>1 DEF Fat!Seen
    <3> QED
      BY <1>1, <2>1, <2>2, <2>3, <2>5, <3>1 DEF FatTypes
  <2>7. PassedOver' /\ Fat!NoFurther' /\ Copies'
    BY <1>1, <2>1 DEF PassedOver, Fat!NoFurther, Copies
  <2>8. Fat!RightFile'
    <3>1. ~Fat!Never(v4) /\ (v3[v6].name = v4 \/ (v3[v6].name.e \in {1, 2} /\ j = "x"))
      BY <1>1, <1>5, <2>3, MatchMeans DEF Fat!Matches
    <3>2. v6' \in Fat!Seen' /\ v6' <= Entries
      BY <1>1, <1>5, <2>1 DEF Fat!Seen
    <3>3. ~Fat!Never(v4)' /\ (v3'[v6'].name = v4' \/ (v3'[v6'].name.e \in {1, 2} /\ v5' = "x"))
      BY <1>1, <2>1, <3>1 DEF Fat!Never
    <3> QED
      BY <3>2, <3>3 DEF Fat!RightFile, Fat!File, Fat!Never
  <2>9. ASSUME v13' = "read"
        PROVE  Within' /\ Progress'
    <3>1. v3[v6].size > 0 /\ v7' = v3[v6].size /\ v8' = v3[v6].chain[1]
      BY <2>1, <2>9
    <3>2. Len(v12') + 1 = 1 /\ v12' = <<>> /\ Len(v11') = 0 /\ v9' = 0 /\ v10' = 0
      BY <1>1
    <3>3. SubSeq(v3[v6].chain, 1, 0) = <<>>
      BY <2>3, SubSeqEmpty
    <3>4. Within'
      <4>1. v3[v6].size = v3[v6].size - (1 - 1) * Cluster - 0 * SectorSize
        BY <2>3, FatSizes
      <4>2. File' = v3[v6]
        BY <1>1, <2>1 DEF File
      <4>3. Cluster' = Cluster /\ 1 <= Len(v3[v6].chain) /\ 0 <= sectorsPerCluster
        BY <2>3, <2>4, <3>1, FatSizes DEF Cluster, Fat!ClusterSize
      <4> QED
        BY <2>9, <3>1, <3>2, <3>3, <4>1, <4>2, <4>3 DEF Within
    <3>5. Progress'
      <4>1. ~(0 > sectorsPerCluster) /\ 0 = 0 * SectorSize
            /\ 0 <= SectorSize * ((1 - 1) * (sectorsPerCluster + 1) + 0)
        BY FatSizes
      <4> QED
        BY <3>2, <4>1 DEF Progress
    <3> QED
      BY <3>4, <3>5
  <2>10. Fat!InFile' /\ v13' = "done" => FALSE
    BY <1>1 DEF Fat!InFile
  <2> QED
    BY <2>1, <2>6, <2>7, <2>8, <2>9, <2>10 DEF FatProof
<1> QED
  BY <1>3, <1>4, <1>5
----------------------------------------------------------------------------
(* Astray, GetFile has read nothing.                                       *)
LEMMA StrayStep ==
    ASSUME FatProof, Fat!Stray
    PROVE  FatProof'
<1>1. /\ v13 = "look" /\ v13' = "astray" /\ v11 = <<>>
      /\ UNCHANGED <<v1, v2, v3, v4, v5, v6, v7, v8, v9, v10, v11, v12>>
  BY DEF FatProof, FatTypes, Fat!Stray
<1>2. ~Fat!InFile'
  BY <1>1 DEF Fat!InFile
<1>3. FatTypes'
  BY <1>1, <1>2 DEF FatProof, FatTypes
<1>4. Fat!RightFile' /\ Fat!NoFurther' /\ PassedOver'
  BY <1>1, <1>2 DEF Fat!RightFile, Fat!NoFurther, PassedOver
<1> QED
  BY <1>1, <1>2, <1>3, <1>4 DEF FatProof

(* What is so in the loops over a file.                                    *)
LEMMA Reading1 ==
    ASSUME FatProof, v13 \in {"read", "follow"}
    PROVE  /\ FatTypes /\ Within /\ Progress /\ Copies /\ Fat!RightFile /\ Fat!NoFurther
           /\ v6 \in DOMAIN v3 /\ v3 \in Directories /\ v6 \in Fat!Seen /\ Fat!File = File
           /\ File.size \in Nat /\ File.chain \in Seq(Nat) /\ Len(File.chain) \in Nat
           /\ File.size <= Cluster * Len(File.chain)
           /\ Cluster * (Len(File.chain) - 1) < File.size
           /\ \A a, b \in DOMAIN File.chain : File.chain[a] = File.chain[b] => a = b
           /\ v7 \in Int /\ v8 \in Nat /\ v9 \in Nat /\ v10 \in Nat
           /\ v11 \in Seq([at : Nat, sector : Int]) /\ Len(v11) \in Nat
           /\ v12 \in Seq(Nat) /\ Len(v12) \in Nat
<1>1. Fat!InFile
  BY DEF Fat!InFile
<1>2. FatTypes /\ Within /\ Progress /\ Copies /\ Fat!RightFile /\ Fat!NoFurther
      /\ v6 \in DOMAIN v3 /\ v3 \in Directories
  BY <1>1 DEF FatProof, FatTypes
<1>3. v7 \in Int /\ v8 \in Nat /\ v9 \in Nat /\ v10 \in Nat
      /\ v11 \in Seq([at : Nat, sector : Int]) /\ v12 \in Seq(Nat)
  BY <1>2 DEF FatTypes
<1>4. v6 \in Fat!Seen
  BY <1>1, <1>2 DEF FatTypes
<1> QED
  BY <1>2, <1>3, <1>4, FileIs DEF File, Fat!File

(* While the file stays the same it stays the right one.                   *)
LEMMA SameFile ==
    ASSUME Fat!RightFile, v6 \in Fat!Seen, Fat!InFile, UNCHANGED <<v3, v4, v5, v6>>
    PROVE  Fat!RightFile'
<1>1. v6' \in Fat!Seen' /\ v6' <= Entries
  BY DEF Fat!Seen
<1>2. ~Fat!Never(v4)' /\ (Fat!File.name' = v4' \/ (Fat!File.name.e' \in {1, 2} /\ v5' = "x"))
  BY DEF Fat!RightFile, Fat!Never, Fat!File
<1> QED
  BY <1>1, <1>2 DEF Fat!RightFile, Fat!Never, Fat!File

(* A sector is read: what is left, and where the loop is.                  *)
LEMMA SectorWithin ==
    ASSUME FatProof, Fat!ReadSector
    PROVE  Within' /\ v7 > 0 /\ v9 <= sectorsPerCluster
           /\ Len(v12) + 1 <= Len(File.chain) /\ v8 = File.chain[Len(v12) + 1]
           /\ v7 = File.size - Len(v12) * Cluster - v9 * SectorSize
           /\ (v13' = "read" => v7 - SectorSize > 0 /\ v9 < sectorsPerCluster)
           /\ v13' \in {"read", "follow"}
           /\ v9' = v9 + 1 /\ v7' \in Int
<1>1. v13 = "read" /\ UNCHANGED <<v2, v3, v6, v8, v12>> /\ v9' = v9 + 1
      /\ v7' = (IF v9 + 1 > sectorsPerCluster THEN v7 ELSE v7 - SectorSize)
      /\ v13' = (IF v9 + 1 > sectorsPerCluster \/ v7' <= 0 THEN "follow" ELSE "read")
  BY DEF Fat!ReadSector, Fat!LastOfCluster
<1>2. /\ Within /\ v7 \in Int /\ v9 \in Nat /\ Len(v12) \in Nat
      /\ File.size \in Nat /\ File.chain \in Seq(Nat)
  BY <1>1, Reading1
<1>3. PICK l \in Nat, o \in Nat, left \in Int, size \in Nat :
        l = Len(v12) /\ o = v9 /\ left = v7 /\ size = File.size
  BY <1>2
<1>4. left > 0 /\ o <= sectorsPerCluster /\ l + 1 <= Len(File.chain) /\ v8 = File.chain[l + 1]
      /\ v12 = SubSeq(File.chain, 1, l + 1 - 1)
      /\ left = size - (l + 1 - 1) * Cluster - o * SectorSize
  BY <1>1, <1>2, <1>3 DEF Within
<1>5. l + 1 - 1 = l /\ l + 1 \in Nat \ {0}
  OBVIOUS
<1>6. /\ left - SectorSize = size - (l + 1 - 1) * Cluster - (o + 1) * SectorSize
      /\ o = sectorsPerCluster => left = size - (l + 1) * Cluster
  BY <1>4, <1>5, FatSizes, LessLeft
<1>7. File' = File /\ Cluster' = Cluster
  BY <1>1 DEF File, Cluster, Fat!ClusterSize
<1>8. CASE o + 1 > sectorsPerCluster
  <2>1. v7' = left /\ v13' = "follow" /\ v9' = sectorsPerCluster + 1 /\ o = sectorsPerCluster
        /\ ~(v9' <= sectorsPerCluster)
    BY <1>1, <1>3, <1>4, <1>8, FatSizes
  <2>2. v7' = size - (l + 1) * Cluster /\ v7' > 0
    BY <1>4, <1>6, <2>1
  <2>3. Within'
    BY <1>1, <1>3, <1>4, <1>7, <2>1, <2>2 DEF Within
  <2> QED
    BY <1>1, <1>3, <1>4, <1>5, <2>1, <2>3
<1>9. CASE ~(o + 1 > sectorsPerCluster)
  <2>1. v7' = left - SectorSize /\ v9' = o + 1 /\ v13' = (IF v7' <= 0 THEN "follow" ELSE "read")
        /\ v9' <= sectorsPerCluster /\ o < sectorsPerCluster
    BY <1>1, <1>3, <1>4, <1>9, FatSizes
  <2>2. v7' = size - (l + 1 - 1) * Cluster - v9' * SectorSize
    BY <1>6, <2>1
  <2>3. v7' \in Int /\ (v13' = "read" => v7' > 0) /\ (v13' = "follow" => v7' <= 0)
    BY <2>1, FatSizes
  <2>4. Within'
    BY <1>1, <1>3, <1>4, <1>7, <2>1, <2>2, <2>3 DEF Within
  <2> QED
    BY <1>1, <1>3, <1>4, <1>5, <2>1, <2>3, <2>4
<1> QED
  BY <1>8, <1>9

(* What is copied, and where to.                                           *)
LEMMA SectorCopied ==
    ASSUME FatProof, Fat!ReadSector
    PROVE  \E k \in Nat \ {0}, gain \in Nat :
               /\ k = Len(v11) + 1 /\ Len(v11') = k
               /\ v11'[k] = [at |-> v10, sector |-> StartOf(v8) + v9]
               /\ \A i \in 1 .. Len(v11) : v11'[i] = v11[i]
               /\ v11' \in Seq([at : Nat, sector : Int])
               /\ v10' = v10 + gain /\ gain > 0 /\ gain <= SectorSize
               /\ (v7 >= SectorSize => gain = SectorSize) /\ (v7 < SectorSize => gain = v7)
<1>1. v13 = "read" /\ v10' = v10 + Fat!Min({v7, SectorSize})
      /\ v11' = Append(v11, [at |-> v10, sector |-> Fat!fileSector + v9])
  BY DEF Fat!ReadSector
<1>2. v11 \in Seq([at : Nat, sector : Int]) /\ Len(v11) \in Nat /\ v10 \in Nat /\ v9 \in Nat
      /\ v7 \in Int /\ v8 \in Nat /\ v2 \in Int
  <2>1. FatTypes
    BY <1>1, Reading1
  <2>2. v2 \in Int
    <3>1. v2 \in -1 .. Len(v1.types) /\ v1.types \in Seq(STRING)
      BY <2>1, ConstantsAssumption DEF FatTypes, Fat!ConstantsOK
    <3> QED
      BY <3>1
  <2> QED
    BY <1>1, <2>2, Reading1
<1>3. Fat!fileSector = StartOf(v8)
  BY DEF Fat!fileSector, StartOf
<1>4. v7 > 0
  BY SectorWithin
<1>5. Fat!Min({v7, SectorSize}) = IF v7 < SectorSize THEN v7 ELSE SectorSize
  <2>1. SectorSize \in Int
    BY FatSizes
  <2>2. PICK a \in Int, b \in Int : a = v7 /\ b = SectorSize
    BY <1>2, <2>1
  <2>3. (CHOOSE x \in {a, b} : \A y \in {a, b} : x <= y) = IF a < b THEN a ELSE b
    <3>1. CASE a < b
      BY <3>1
    <3>2. CASE ~(a < b)
      BY <3>2
    <3> QED
      BY <3>1, <3>2
  <2> QED
    BY <2>2, <2>3 DEF Fat!Min
<1>6. StartOf(v8) + v9 \in Int
  BY <1>2, FatSizes DEF StartOf, Fat!dataStart, Fat!bpb
<1>7. [at |-> v10, sector |-> StartOf(v8) + v9] \in [at : Nat, sector : Int]
  BY <1>2, <1>6
<1>8. /\ Len(v11') = Len(v11) + 1 /\ v11' \in Seq([at : Nat, sector : Int])
      /\ v11'[Len(v11) + 1] = [at |-> v10, sector |-> StartOf(v8) + v9]
      /\ \A i \in 1 .. Len(v11) : v11'[i] = v11[i]
  BY <1>1, <1>2, <1>3, <1>7, AppendProperties
<1>9. PICK gain \in Nat : gain = IF v7 < SectorSize THEN v7 ELSE SectorSize
  BY <1>2, <1>4, FatSizes
<1>10. v10' = v10 + gain /\ gain > 0 /\ gain <= SectorSize
      /\ (v7 >= SectorSize => gain = SectorSize) /\ (v7 < SectorSize => gain = v7)
  BY <1>1, <1>2, <1>4, <1>5, <1>9, FatSizes
<1> QED
  BY <1>2, <1>8, <1>10
(* A sector is read: how far the copying is.                               *)
LEMMA SectorProgress ==
    ASSUME FatProof, Fat!ReadSector
    PROVE  Progress'
<1>1. v13 = "read" /\ UNCHANGED <<v3, v6, v12>> /\ Progress
  BY Reading1 DEF Fat!ReadSector
<1>2. v9' = v9 + 1 /\ v9 <= sectorsPerCluster /\ v7 > 0
      /\ v7 = File.size - Len(v12) * Cluster - v9 * SectorSize
      /\ (v13' = "read" => v7 - SectorSize > 0 /\ v9 < sectorsPerCluster)
  BY SectorWithin
<1>3. PICK k \in Nat \ {0}, gain \in Nat :
         /\ k = Len(v11) + 1 /\ Len(v11') = k
         /\ v10' = v10 + gain /\ gain > 0 /\ gain <= SectorSize
         /\ (v7 >= SectorSize => gain = SectorSize) /\ (v7 < SectorSize => gain = v7)
  BY SectorCopied
<1>4. PICK l \in Nat, o \in Nat, at \in Nat, left \in Int, size \in Nat :
        l = Len(v12) /\ o = v9 /\ at = v10 /\ left = v7 /\ size = File.size
  BY <1>1, Reading1
<1>5. PICK j \in Nat \ {0} : j = l + 1
  OBVIOUS
<1>6. PICK n \in Nat : n = Len(v11)
  BY <1>1, Reading1
<1>7. /\ j = 1 => n = o /\ at = o * SectorSize
      /\ j = 2 /\ o = 0 => n = sectorsPerCluster + 1 /\ at = Cluster + Rest1
      /\ j > 2 \/ (j = 2 /\ o > 0) => n > sectorsPerCluster + 1 /\ at > Cluster + Rest1
      /\ at <= SectorSize * ((j - 1) * (sectorsPerCluster + 1) + o)
  BY <1>1, <1>4, <1>5, <1>6 DEF Progress
<1>8. File' = File /\ Cluster' = Cluster /\ Rest1' = Rest1
      /\ Rest1 = (IF size - Cluster <= SectorSize THEN size - Cluster ELSE SectorSize)
      /\ Len(v12') + 1 = j
  BY <1>1, <1>4, <1>5 DEF File, Cluster, Fat!ClusterSize, Rest1
<1>9. PICK rest \in Int : rest = Rest1
  BY <1>8, FatSizes
<1>10. v9' = o + 1 /\ v10' = at + gain /\ Len(v11') = n + 1
       /\ gain > 0 /\ gain <= SectorSize
       /\ (left >= SectorSize => gain = SectorSize) /\ (left < SectorSize => gain = left)
       /\ (v13' = "read" => left - SectorSize > 0 /\ o < sectorsPerCluster)
       /\ o <= sectorsPerCluster
  BY <1>2, <1>3, <1>4, <1>6
<1>11. j = 1 => Len(v11') = v9'
  BY <1>7, <1>10
<1>12. j = 1 /\ v13' = "read" => v10' = v9' * SectorSize
  <2>1. (o + 1) * SectorSize = o * SectorSize + SectorSize
    BY FatSizes
  <2> QED
    BY <1>7, <1>10, <2>1, FatSizes
<1>13. j = 1 /\ v9' > sectorsPerCluster => v10' = Cluster + Rest1
  <2> SUFFICES ASSUME j = 1, o + 1 > sectorsPerCluster
               PROVE  at + gain = Cluster + Rest1
    BY <1>10
  <2>1. o = sectorsPerCluster /\ o * SectorSize = Cluster /\ at = Cluster
    BY <1>7, <1>10, FatSizes
  <2>2. left = size - l * Cluster - o * SectorSize /\ l = 0
    BY <1>2, <1>4, <1>5
  <2>3. left = size - Cluster
    BY <2>1, <2>2, FatSizes
  <2>4. gain = IF size - Cluster <= SectorSize THEN size - Cluster ELSE SectorSize
    BY <1>10, <2>3, FatSizes
  <2> QED
    BY <1>8, <2>1, <2>4
<1>14. ~(j = 2 /\ v9' = 0)
  BY <1>10
<1>15. j > 2 \/ (j = 2 /\ v9' > 0) =>
          Len(v11') > sectorsPerCluster + 1 /\ v10' > Cluster + Rest1
  <2> SUFFICES ASSUME j >= 2
               PROVE  n + 1 > sectorsPerCluster + 1 /\ at + gain > Cluster + rest
    BY <1>9, <1>10
  <2>1. n >= sectorsPerCluster + 1 /\ at >= Cluster + rest
    BY <1>7, <1>9, FatSizes
  <2> QED
    BY <1>10, <2>1, FatSizes
<1>16. v10' <= SectorSize * ((j - 1) * (sectorsPerCluster + 1) + v9')
  <2>1. PICK q \in Nat : q = (j - 1) * (sectorsPerCluster + 1)
    <3>1. j - 1 \in Nat /\ sectorsPerCluster + 1 \in Nat
      BY FatSizes
    <3> QED
      BY <3>1, Product
  <2>2. at <= SectorSize * (q + o)
    BY <1>7, <2>1
  <2>3. SectorSize * (q + (o + 1)) = SectorSize * (q + o) + SectorSize
    BY <2>1, FatSizes
  <2>4. SectorSize * (q + o) \in Int
    BY <2>1, FatSizes
  <2>5. at + gain <= SectorSize * (q + (o + 1))
    BY <1>10, <2>2, <2>3, <2>4, FatSizes
  <2> QED
    BY <1>10, <2>1, <2>5
<1> QED
  BY <1>8, <1>11, <1>12, <1>13, <1>14, <1>15, <1>16 DEF Progress

(* The copies stay what they were, and the new one is in its place.        *)
LEMMA SectorCopies ==
    ASSUME FatProof, Fat!ReadSector
    PROVE  Copies' /\ Fat!NoFurther'
<1>1. v13 = "read" /\ UNCHANGED <<v2, v3, v6, v12>> /\ Progress /\ Copies /\ Fat!NoFurther
      /\ Fat!InFile /\ Fat!File = File
  BY Reading1 DEF Fat!ReadSector, Fat!InFile
<1>2. v9 <= sectorsPerCluster /\ v7 > 0 /\ v8 = File.chain[Len(v12) + 1]
      /\ v7 = File.size - Len(v12) * Cluster - v9 * SectorSize
      /\ Len(v12) + 1 <= Len(File.chain)
  BY SectorWithin
<1>3. PICK k \in Nat \ {0}, gain \in Nat :
         /\ k = Len(v11) + 1 /\ Len(v11') = k
         /\ v11'[k] = [at |-> v10, sector |-> StartOf(v8) + v9]
         /\ \A i \in 1 .. Len(v11) : v11'[i] = v11[i]
         /\ v11' \in Seq([at : Nat, sector : Int])
  BY SectorCopied
<1>4. PICK l \in Nat, o \in Nat, at \in Nat, left \in Int, size \in Nat, m \in Nat, n \in Nat :
        /\ l = Len(v12) /\ o = v9 /\ at = v10 /\ left = v7 /\ size = File.size
        /\ m = Len(File.chain) /\ n = Len(v11)
  BY <1>1, Reading1
<1>5. PICK j \in Nat \ {0} : j = l + 1
  OBVIOUS
<1>6. /\ j = 1 => n = o /\ at = o * SectorSize
      /\ j = 2 /\ o = 0 => n = sectorsPerCluster + 1 /\ at = Cluster + Rest1
      /\ j > 2 \/ (j = 2 /\ o > 0) => n > sectorsPerCluster + 1 /\ at > Cluster + Rest1
      /\ at <= SectorSize * ((j - 1) * (sectorsPerCluster + 1) + o)
  BY <1>1, <1>4, <1>5 DEF Progress
<1>7. File' = File /\ Cluster' = Cluster /\ Rest1' = Rest1 /\ Fat!File' = File
      /\ \A c \in Int : StartOf(c)' = StartOf(c)
  BY <1>1 DEF File, Cluster, Fat!ClusterSize, Rest1, Fat!File, StartOf, Fat!dataStart, Fat!bpb
<1>8. DOMAIN v11' = 1 .. k /\ DOMAIN v11 = 1 .. n /\ k = n + 1
  <2>1. v11 \in Seq([at : Nat, sector : Int])
    BY <1>1, Reading1
  <2> QED
    BY <1>3, <1>4, <2>1
<1>9. v11'[k] = [at |-> at, sector |-> StartOf(File.chain[j]) + o]
  BY <1>2, <1>3, <1>4, <1>5
<1>10. k <= sectorsPerCluster + 1 =>
         v11'[k] = [at |-> (k - 1) * SectorSize, sector |-> StartOf(File.chain[1]) + (k - 1)]
  <2> SUFFICES ASSUME k <= sectorsPerCluster + 1
               PROVE  v11'[k] = [at |-> (k - 1) * SectorSize,
                                 sector |-> StartOf(File.chain[1]) + (k - 1)]
    OBVIOUS
  <2>1. j = 1 /\ k - 1 = o
    BY <1>6, <1>8, FatSizes
  <2>2. at = (k - 1) * SectorSize
    BY <1>6, <2>1
  <2> QED
    BY <1>9, <2>1, <2>2
<1>11. k = sectorsPerCluster + 2 =>
         v11'[k] = [at |-> Cluster + Rest1, sector |-> StartOf(File.chain[2])]
  <2> SUFFICES ASSUME k = sectorsPerCluster + 2
               PROVE  v11'[k] = [at |-> Cluster + Rest1, sector |-> StartOf(File.chain[2])]
    OBVIOUS
  <2>1. j = 2 /\ o = 0
    BY <1>2, <1>4, <1>6, <1>8, FatSizes
  <2>2. StartOf(File.chain[2]) + 0 = StartOf(File.chain[2])
    <3>1. v8 \in Nat /\ v8 = File.chain[2] /\ v2 \in Int
      <4>1. v1.types \in Seq(STRING) /\ v2 \in -1 .. Len(v1.types)
        BY <1>1, Reading1, ConstantsAssumption DEF FatTypes, Fat!ConstantsOK
      <4>2. v8 \in Nat
        BY <1>1, Reading1
      <4>3. v8 = File.chain[2]
        BY <1>2, <1>4, <1>5, <2>1
      <4> QED
        BY <4>1, <4>2, <4>3
    <3> QED
      BY <3>1, FatSizes DEF StartOf, Fat!dataStart, Fat!bpb
  <2> QED
    BY <1>6, <1>9, <2>1, <2>2
<1>12. k > sectorsPerCluster + 2 => v11'[k].at > Cluster + Rest1
  <2> SUFFICES ASSUME k > sectorsPerCluster + 2
               PROVE  v11'[k].at > Cluster + Rest1
    OBVIOUS
  <2>1. j > 2 \/ (j = 2 /\ o > 0)
    BY <1>2, <1>4, <1>6, <1>8, FatSizes
  <2> QED
    BY <1>6, <1>9, <2>1
<1>13. Copies'
  <2>1. ASSUME NEW i \in 1 .. n
        PROVE  /\ i <= sectorsPerCluster + 1 =>
                     v11'[i] = [at |-> (i - 1) * SectorSize,
                                sector |-> StartOf(File.chain[1]) + (i - 1)]
               /\ i = sectorsPerCluster + 2 =>
                     v11'[i] = [at |-> Cluster + Rest1, sector |-> StartOf(File.chain[2])]
               /\ i > sectorsPerCluster + 2 => v11'[i].at > Cluster + Rest1
    <3>1. v11'[i] = v11[i] /\ i \in DOMAIN v11
      BY <1>3, <1>4, <1>8
    <3> QED
      BY <1>1, <3>1 DEF Copies
  <2>2. \A i \in DOMAIN v11' : i \in 1 .. n \/ i = k
    BY <1>8
  <2>3. StartOf(File.chain[1])' = StartOf(File.chain[1])
        /\ StartOf(File.chain[2])' = StartOf(File.chain[2])
    BY <1>1 DEF StartOf, Fat!dataStart, Fat!bpb, File
  <2> QED
    BY <1>7, <1>10, <1>11, <1>12, <2>1, <2>2, <2>3 DEF Copies
<1>14. at + SectorSize <= SectorSize * ((size + SectorSize - 1) \div SectorSize + m - 1)
  <2>1. left = size - (j - 1) * (SectorSize * sectorsPerCluster) - o * SectorSize
        /\ left > 0 /\ j <= m
    BY <1>2, <1>4, <1>5, FatSizes
  <2> QED
    BY <1>6, <2>1, FatSizes, Room
<1>15. Fat!NoFurther'
  <2>1. ASSUME NEW i \in DOMAIN v11'
        PROVE  v11'[i].at + SectorSize <=
                   SectorSize * ((size + SectorSize - 1) \div SectorSize + m - 1)
    <3>1. CASE i = k
      BY <1>9, <1>14, <3>1
    <3>2. CASE i # k
      <4>1. i \in DOMAIN v11 /\ v11'[i] = v11[i]
        BY <1>3, <1>4, <1>8, <3>2
      <4> QED
        BY <1>1, <1>4, <4>1 DEF Fat!NoFurther
    <3> QED
      BY <3>1, <3>2
  <2> QED
    BY <1>4, <1>7, <2>1 DEF Fat!NoFurther
<1> QED
  BY <1>13, <1>15

(* A sector is read and copied.                                            *)
LEMMA ReadSectorStep ==
    ASSUME FatProof, Fat!ReadSector
    PROVE  FatProof'
<1>1. v13 = "read" /\ UNCHANGED <<v1, v2, v3, v4, v5, v6, v8, v12>>
      /\ v13' \in {"read", "follow"}
  BY DEF Fat!ReadSector
<1>2. /\ FatTypes /\ Fat!RightFile /\ v6 \in DOMAIN v3 /\ v6 \in Fat!Seen
      /\ v9 \in Nat /\ v10 \in Nat /\ v7 \in Int
  BY <1>1, Reading1
<1>3. v9' \in Nat /\ v7' \in Int /\ v10' \in Nat /\ v11' \in Seq([at : Nat, sector : Int])
  <2>1. v9' = v9 + 1 /\ v7' \in Int
    BY SectorWithin
  <2>2. PICK gain \in Nat : v10' = v10 + gain /\ v11' \in Seq([at : Nat, sector : Int])
    BY SectorCopied
  <2> QED
    BY <1>2, <2>1, <2>2
<1>4. FatTypes'
  <2>1. v13' \notin {"mbr", "look"} /\ v13' # "mbr"
    BY <1>1
  <2> QED
    BY <1>1, <1>2, <1>3, <2>1 DEF FatTypes, Fat!Seen
<1>5. PassedOver'
  BY <1>1 DEF PassedOver
<1>6. Fat!RightFile'
  BY <1>1, <1>2, SameFile DEF Fat!InFile
<1>7. Within' /\ Progress' /\ Copies' /\ Fat!NoFurther'
  BY SectorWithin, SectorProgress, SectorCopies
<1> QED
  BY <1>1, <1>4, <1>5, <1>6, <1>7 DEF FatProof
(* The next cluster as the table has it.                                   *)
LEMMA FatEntryIs ==
    ASSUME FatProof, v13 \in {"read", "follow"}, NEW j \in DOMAIN File.chain, v8 = File.chain[j]
    PROVE  /\ Fat!FatEntry(v8) \in Nat
           /\ j < Len(File.chain) => Fat!FatEntry(v8) = File.chain[j + 1]
<1>1. /\ File.chain \in Seq(Nat) /\ Len(File.chain) \in Nat
      /\ \A a, b \in DOMAIN File.chain : File.chain[a] = File.chain[b] => a = b
  BY Reading1
<1> DEFINE next == {k \in 2 .. Len(File.chain) : File.chain[k - 1] = v8}
<1>2. Fat!FatEntry(v8) = IF next = {} THEN 0 ELSE File.chain[Fat!Min(next)]
  BY DEF Fat!FatEntry, File
<1>3. \A k \in next : k = j + 1
  BY <1>1
<1>4. j < Len(File.chain) => j + 1 \in next
  BY <1>1
<1>5. j \in Nat
  BY <1>1
<1> HIDE DEF next
<1>6. CASE next = {}
  BY <1>2, <1>4, <1>6
<1>7. CASE next # {}
  <2>1. next = {j + 1}
    BY <1>3, <1>7
  <2>2. Fat!Min(next) = j + 1
    BY <1>5, <2>1 DEF Fat!Min
  <2>3. j + 1 \in 2 .. Len(File.chain)
    BY <2>1 DEF next
  <2> QED
    BY <1>1, <1>2, <1>7, <2>2, <2>3
<1> QED
  BY <1>6, <1>7

(* A cluster is done with: the next one, or the end.                       *)
LEMMA FollowChainStep ==
    ASSUME FatProof, Fat!FollowChain
    PROVE  FatProof'
<1>1. /\ v13 = "follow" /\ UNCHANGED <<v1, v2, v3, v4, v5, v6, v7, v10, v11>>
      /\ v12' = Append(v12, v8) /\ v8' = Fat!FatEntry(v8) /\ v9' = 0
      /\ v13' = IF v7 > 0 THEN "read" ELSE "done"
  BY DEF Fat!FollowChain
<1>2. /\ FatTypes /\ Within /\ Progress /\ Copies /\ Fat!RightFile /\ Fat!NoFurther
      /\ v6 \in DOMAIN v3 /\ v6 \in Fat!Seen /\ Fat!File = File
      /\ File.size \in Nat /\ File.chain \in Seq(Nat) /\ Len(File.chain) \in Nat
      /\ File.size <= Cluster * Len(File.chain)
      /\ Cluster * (Len(File.chain) - 1) < File.size
      /\ v7 \in Int /\ v8 \in Nat /\ v9 \in Nat /\ v10 \in Nat
      /\ v12 \in Seq(Nat) /\ Len(v12) \in Nat /\ Len(v11) \in Nat
  BY <1>1, Reading1
<1>3. PICK l \in Nat, o \in Nat, at \in Nat, left \in Int, size \in Nat, m \in Nat, n \in Nat :
        /\ l = Len(v12) /\ o = v9 /\ at = v10 /\ left = v7 /\ size = File.size
        /\ m = Len(File.chain) /\ n = Len(v11)
  BY <1>2
<1>4. PICK j \in Nat \ {0} : j = l + 1
  OBVIOUS
<1>5. /\ v12 = SubSeq(File.chain, 1, j - 1) /\ j <= m /\ v8 = File.chain[j]
      /\ IF o <= sectorsPerCluster
         THEN left = size - (j - 1) * Cluster - o * SectorSize
         ELSE o = sectorsPerCluster + 1 /\ left = size - j * Cluster /\ left > 0
      /\ left <= 0 \/ o > sectorsPerCluster
  BY <1>1, <1>2, <1>3, <1>4 DEF Within
<1>6. /\ j = 1 => /\ n = o
                  /\ o > sectorsPerCluster => at = Cluster + Rest1
      /\ j > 2 \/ (j = 2 /\ o > 0) => n > sectorsPerCluster + 1 /\ at > Cluster + Rest1
      /\ at <= SectorSize * ((j - 1) * (sectorsPerCluster + 1) + o)
  BY <1>2, <1>3, <1>4 DEF Progress
<1>7. File' = File /\ Cluster' = Cluster /\ Rest1' = Rest1 /\ Fat!File' = File
  BY <1>1 DEF File, Cluster, Fat!ClusterSize, Rest1, Fat!File
<1>8. j \in DOMAIN File.chain
  BY <1>2, <1>3, <1>5
<1>9. /\ v12' \in Seq(Nat) /\ Len(v12') = j /\ v12' = SubSeq(File.chain, 1, j)
  <2>1. /\ v12' \in Seq(Nat) /\ Len(v12') = j /\ v12'[j] = File.chain[j]
        /\ \A i \in 1 .. j - 1 : v12'[i] = v12[i]
    <3>1. /\ v12' \in Seq(Nat) /\ Len(v12') = Len(v12) + 1 /\ v12'[Len(v12) + 1] = v8
          /\ \A i \in 1 .. Len(v12) : v12'[i] = v12[i]
      BY <1>1, <1>2, AppendProperties
    <3> QED
      BY <1>3, <1>4, <1>5, <3>1
  <2>2. \A i \in 1 .. j - 1 : v12[i] = File.chain[i]
    BY <1>2, <1>3, <1>4, <1>5, SubSeqProperties
  <2>3. /\ SubSeq(File.chain, 1, j) \in Seq(Nat) /\ Len(SubSeq(File.chain, 1, j)) = j
        /\ \A i \in 1 .. j : SubSeq(File.chain, 1, j)[i] = File.chain[i]
    BY <1>2, <1>3, <1>5, SubSeqProperties
  <2>4. \A i \in 1 .. j : v12'[i] = SubSeq(File.chain, 1, j)[i]
    BY <2>1, <2>2, <2>3
  <2>5. v12' = SubSeq(File.chain, 1, j)
    BY <2>1, <2>3, <2>4, SeqEqual
  <2> QED
    BY <2>1, <2>5
<1>10. v8' \in Nat
  BY <1>1, <1>5, <1>8, FatEntryIs
<1>11. FatTypes'
  <2>1. v13' \in {"read", "done"} /\ 0 \in Nat
    BY <1>1
  <2> QED
    BY <1>1, <1>2, <1>9, <1>10, <2>1 DEF FatTypes, Fat!Seen
<1>12. PassedOver'
  BY <1>1 DEF PassedOver
<1>13. Fat!RightFile'
  BY <1>1, <1>2, SameFile DEF Fat!InFile
<1>14. Copies'
  <2>1. StartOf(File.chain[1])' = StartOf(File.chain[1])
        /\ StartOf(File.chain[2])' = StartOf(File.chain[2])
    BY <1>1 DEF StartOf, Fat!dataStart, Fat!bpb, File
  <2> QED
    BY <1>1, <1>2, <1>7, <2>1 DEF Copies
<1>15. Fat!NoFurther'
  BY <1>1, <1>2, <1>7 DEF Fat!NoFurther, Fat!InFile
<1>16. ASSUME v7 > 0
       PROVE  Within' /\ Progress' /\ v13' = "read"
  <2>1. left > 0 /\ o = sectorsPerCluster + 1 /\ left = size - j * Cluster
    BY <1>3, <1>5, <1>16, FatSizes
  <2>2. j < m
    <3>1. size - j * Cluster > 0 /\ size <= Cluster * m
      BY <1>2, <1>3, <2>1
    <3> QED
      BY <3>1, FatSizes, OneMore
  <2>3. v8' = File.chain[j + 1]
    BY <1>1, <1>3, <1>5, <1>8, <2>2, FatEntryIs
  <2>4. v13' = "read"
    BY <1>1, <1>16
  <2>5. Within'
    <3>1. Len(v12') + 1 = j + 1 /\ j + 1 - 1 = j /\ j + 1 <= m /\ 0 <= sectorsPerCluster
      BY <1>9, <2>2, FatSizes
    <3>2. left = size - (j + 1 - 1) * Cluster - 0 * SectorSize
      BY <2>1, FatSizes
    <3>3. v12' = SubSeq(File.chain, 1, j + 1 - 1)
      BY <1>9, <3>1
    <3>4. v7' = left /\ v9' = 0
      BY <1>1, <1>3
    <3> QED
      BY <1>3, <1>7, <2>1, <2>3, <2>4, <3>1, <3>2, <3>3, <3>4 DEF Within
  <2>6. Progress'
    <3>1. Len(v12') + 1 = j + 1 /\ Len(v11') = n /\ v10' = at /\ v9' = 0
      BY <1>1, <1>3, <1>9
    <3>2. j + 1 = 2 => n = sectorsPerCluster + 1 /\ at = Cluster + Rest1
      BY <1>6, <2>1, FatSizes
    <3>3. j + 1 > 2 => n > sectorsPerCluster + 1 /\ at > Cluster + Rest1
      BY <1>6, <2>1, FatSizes
    <3>4. at <= SectorSize * ((j + 1 - 1) * (sectorsPerCluster + 1) + 0)
      <4>1. (j - 1) * (sectorsPerCluster + 1) + (sectorsPerCluster + 1)
              = (j + 1 - 1) * (sectorsPerCluster + 1) + 0
        BY FatSizes
      <4> QED
        BY <1>6, <2>1, <4>1
    <3> QED
      BY <1>7, <3>1, <3>2, <3>3, <3>4, FatSizes DEF Progress
  <2> QED
    BY <2>4, <2>5, <2>6
<1>17. ASSUME ~(v7 > 0)
       PROVE  AllRead' /\ v13' = "done"
  <2>1. left <= 0 /\ o <= sectorsPerCluster
        /\ left = size - (j - 1) * Cluster - o * SectorSize
    BY <1>3, <1>5, <1>17, FatSizes
  <2>2. m = j
    <3>1. size - (j - 1) * (SectorSize * sectorsPerCluster) - o * SectorSize <= 0
          /\ (SectorSize * sectorsPerCluster) * (m - 1) < size
      BY <1>2, <1>3, <2>1, FatSizes
    <3> QED
      BY <1>5, <2>1, <3>1, FatSizes, LastCluster
  <2>3. v12' = File.chain
    <3>1. SubSeq(File.chain, 1, Len(File.chain)) = File.chain
      BY <1>2, SubSeqFull
    <3> QED
      BY <1>3, <1>9, <2>2, <3>1
  <2>4. size <= Cluster => size <= n * SectorSize /\ n <= sectorsPerCluster
    <3> SUFFICES ASSUME size <= Cluster
                 PROVE  size <= n * SectorSize /\ n <= sectorsPerCluster
      OBVIOUS
    <3>1. j = 1
      <4>1. PICK a \in Int : a = m - 1
        OBVIOUS
      <4>2. Cluster * a < Cluster * 1
        <5>1. Cluster * a < size
          BY <1>2, <1>3, <4>1
        <5>2. Cluster * 1 = Cluster
          BY FatSizes
        <5>3. Cluster * a \in Int
          BY <4>1, FatSizes
        <5> QED
          BY <5>1, <5>2, <5>3, FatSizes
      <4>3. a < 1
        BY <4>2, FatSizes, Cancel
      <4> QED
        BY <2>2, <4>1, <4>3
    <3>2. n = o /\ size <= o * SectorSize
      BY <1>6, <2>1, <3>1, FatSizes
    <3> QED
      BY <2>1, <3>2
  <2>5. ~(size <= Cluster) => n > sectorsPerCluster + 1
    <3> SUFFICES ASSUME size > Cluster
                 PROVE  n > sectorsPerCluster + 1
      BY FatSizes
    <3>1. j # 1
      <4>1. size - 1 * Cluster > 0
        BY FatSizes
      <4>2. 1 < m
        BY <1>2, <1>3, <4>1, FatSizes, OneMore
      <4> QED
        BY <2>2, <4>2
    <3>2. j = 2 => o > 0
      <4> SUFFICES ASSUME j = 2, o = 0 PROVE FALSE
        OBVIOUS
      <4>1. left = size - Cluster
        BY <2>1, FatSizes
      <4> QED
        BY <2>1, <4>1, FatSizes
    <3> QED
      BY <1>6, <3>1, <3>2
  <2>6. v13' = "done" /\ Len(v11') = n
    BY <1>1, <1>3, <1>17
  <2> QED
    BY <1>3, <1>7, <2>3, <2>4, <2>5, <2>6 DEF AllRead
<1>18. CASE v7 > 0
  BY <1>11, <1>12, <1>13, <1>14, <1>15, <1>16, <1>18 DEF FatProof
<1>19. CASE ~(v7 > 0)
  BY <1>11, <1>12, <1>13, <1>14, <1>15, <1>17, <1>19 DEF FatProof
<1> QED
  BY <1>18, <1>19

(* All of it is kept by every step.                                        *)
LEMMA FatStep ==
    ASSUME FatProof, [Fat!Next]_(Fat!vars)
    PROVE  FatProof'
<1>1. CASE UNCHANGED Fat!vars
  <2>1. UNCHANGED <<v1, v2, v3, v4, v5, v6, v7, v8, v9, v10, v11, v12, v13>>
    BY <1>1 DEF Fat!vars
  <2>2. FatTypes' /\ PassedOver' /\ (Fat!InFile <=> Fat!InFile')
    BY <2>1 DEF FatProof, FatTypes, PassedOver, Fat!InFile, Fat!Seen
  <2>3. Fat!RightFile' /\ Fat!NoFurther'
    BY <2>1 DEF FatProof, Fat!RightFile, Fat!NoFurther, Fat!InFile, Fat!File, Fat!Sure, Fat!Never,
           Fat!Seen
  <2>4. File' = File /\ Cluster' = Cluster /\ Rest1' = Rest1
        /\ StartOf(File.chain[1])' = StartOf(File.chain[1])
        /\ StartOf(File.chain[2])' = StartOf(File.chain[2])
    BY <2>1 DEF File, Cluster, Fat!ClusterSize, Rest1, StartOf, Fat!dataStart, Fat!bpb
  <2>5. Within' = Within /\ Progress' = Progress /\ AllRead' = AllRead /\ Copies' = Copies
    BY <2>1, <2>4 DEF Within, Progress, AllRead, Copies
  <2> QED
    BY <2>1, <2>2, <2>3, <2>5 DEF FatProof
<1>2. CASE Fat!Returned
  BY <1>1, <1>2 DEF Fat!Returned
<1>3. CASE \E j \in Fat!Junk : Fat!Look(j)
  BY <1>3, LookStep
<1> QED
  BY <1>1, <1>2, <1>3, ReadPartitionsStep, StrayStep, ReadSectorStep, FollowChainStep DEF Fat!Next
----------------------------------------------------------------------------
(* A number by its quotient and its remainder.                             *)
LEMMA QuotientIs ==
    ASSUME NEW s \in Nat \ {0}, NEW q \in Nat, NEW r \in 0 .. s - 1, NEW y \in Nat, y = q * s + r
    PROVE  y \div s = q /\ y % s = r
<1>1. PICK d \in Int, m \in Int : d = y \div s /\ m = y % s
  OBVIOUS
<1>2. y = s * d + m /\ 0 <= m /\ m < s
  BY <1>1
<1>3. PICK f \in Int, g \in Int : f = q + 1 /\ g = d + 1
  BY <1>1
<1>4. s * q < s * g
  <2>1. s * g = s * d + s
    BY <1>3
  <2> QED
    BY <1>2, <2>1
<1>5. s * d < s * f
  <2>1. s * f = s * q + s
    BY <1>3
  <2> QED
    BY <1>2, <2>1
<1>6. q < g /\ d < f
  <2>1. q < g
    BY <1>3, <1>4, Cancel
  <2>2. d < f
    BY <1>1, <1>3, <1>5, Cancel
  <2> QED
    BY <2>1, <2>2
<1>7. q = d
  BY <1>1, <1>3, <1>6
<1> QED
  BY <1>1, <1>2, <1>7

(* The byte at an offset that only one copy covers.                        *)
LEMMA OnlyCopy ==
    ASSUME v11 \in Seq([at : Nat, sector : Int]), NEW b \in Int, NEW i \in DOMAIN v11,
           b - v11[i].at \in 0 .. SectorSize - 1,
           \A k \in DOMAIN v11 : k # i => ~(b - v11[k].at \in 0 .. SectorSize - 1)
    PROVE  Fat!Over(b) = {i} /\ Fat!Byte(b) = <<v11[i].sector, b - v11[i].at>>
<1>1. Fat!Over(b) = {i}
  BY DEF Fat!Over
<1>2. i \in Int
  OBVIOUS
<1>3. Fat!Max({i}) = i
  BY <1>2 DEF Fat!Max
<1> QED
  BY <1>1, <1>3 DEF Fat!Byte

(* What is so when GetFile has returned.                                   *)
LEMMA Done ==
    ASSUME FatProof, v13 = "done", Fat!InFile
    PROVE  /\ Copies /\ AllRead /\ v6 \in DOMAIN v3 /\ v3 \in Directories /\ v2 \in Int
           /\ Fat!File = File /\ v11 \in Seq([at : Nat, sector : Int])
           /\ Len(v11) \in Nat /\ DOMAIN v11 = 1 .. Len(v11)
           /\ File.size \in Nat /\ File.chain \in Seq(Nat) /\ Len(File.chain) \in Nat
           /\ File.size <= Cluster * Len(File.chain)
           /\ \A a, b \in DOMAIN File.chain : File.chain[a] = File.chain[b] => a = b
<1>1. Copies /\ AllRead /\ v6 \in DOMAIN v3 /\ v3 \in Directories
      /\ v11 \in Seq([at : Nat, sector : Int])
  BY DEF FatProof, FatTypes
<1>2. v2 \in Int
  <2>1. v2 \in -1 .. Len(v1.types) /\ v1.types \in Seq(STRING)
    BY ConstantsAssumption DEF FatProof, FatTypes, Fat!ConstantsOK
  <2> QED
    BY <2>1
<1> QED
  BY <1>1, <1>2, FileIs DEF File, Fat!File

(* Clusters start as far apart as their numbers say.                       *)
LEMMA StartIs ==
    ASSUME v2 \in Int, NEW a \in Nat
    PROVE  /\ StartOf(a) \in Int
           /\ StartOf(a) = Fat!dataStart + sectorsPerCluster * (a - 2)
           /\ \A b \in Nat : StartOf(b) = StartOf(a) + sectorsPerCluster * (b - a)
<1>1. Fat!dataStart \in Int /\ sectorsPerCluster \in Nat
  BY FatSizes DEF Fat!dataStart, Fat!bpb
<1> QED
  BY <1>1 DEF StartOf

(* A byte of the first cluster.                                            *)
LEMMA FirstBytes ==
    ASSUME FatProof, v13 = "done", Fat!InFile, NEW b \in Nat, b < File.size, b < Cluster
    PROVE  Fat!Over(b) # {} /\ Fat!Byte(b) = Fat!FileByte(b)
<1>1. /\ Copies /\ AllRead /\ v2 \in Int /\ Fat!File = File
      /\ v11 \in Seq([at : Nat, sector : Int]) /\ DOMAIN v11 = 1 .. Len(v11)
      /\ Len(v11) \in Nat /\ File.size \in Nat /\ File.chain \in Seq(Nat)
      /\ Len(File.chain) \in Nat /\ File.size <= Cluster * Len(File.chain)
  BY Done
<1>2. PICK n \in Nat, size \in Nat : n = Len(v11) /\ size = File.size
  BY <1>1
<1>3. PICK q \in Nat, r \in 0 .. SectorSize - 1 : b = q * SectorSize + r
  <2>1. b \div SectorSize \in Nat /\ b % SectorSize \in 0 .. SectorSize - 1
        /\ b = (b \div SectorSize) * SectorSize + (b % SectorSize)
    BY FatSizes
  <2> QED
    BY <2>1
<1>4. q < sectorsPerCluster
  <2>1. SectorSize * q < SectorSize * sectorsPerCluster
    BY <1>3, FatSizes
  <2> QED
    BY <2>1, FatSizes, Cancel
<1>5. IF size <= Cluster THEN size <= n * SectorSize /\ n <= sectorsPerCluster
                         ELSE n > sectorsPerCluster + 1
  BY <1>1, <1>2 DEF AllRead
<1>6. q < n
  <2>1. CASE size <= Cluster
    <3>1. SectorSize * q < SectorSize * n
      BY <1>2, <1>3, <1>5, <2>1, FatSizes
    <3> QED
      BY <3>1, FatSizes, Cancel
  <2>2. CASE ~(size <= Cluster)
    BY <1>4, <1>5, <2>2, FatSizes
  <2> QED
    BY <2>1, <2>2
<1>7. PICK i \in 1 .. n : i = q + 1
  BY <1>6
<1>8. ASSUME NEW k \in 1 .. n, k <= sectorsPerCluster + 1
      PROVE  v11[k] = [at |-> (k - 1) * SectorSize, sector |-> StartOf(File.chain[1]) + (k - 1)]
             /\ v11[k].at = (k - 1) * SectorSize
  <2>1. v11[k] = [at |-> (k - 1) * SectorSize, sector |-> StartOf(File.chain[1]) + (k - 1)]
    BY <1>1, <1>2, <1>8 DEF Copies
  <2> QED
    BY <2>1
<1>9. v11[i].at = q * SectorSize /\ v11[i].sector = StartOf(File.chain[1]) + q
  <2>1. i <= sectorsPerCluster + 1 /\ i - 1 = q
    BY <1>4, <1>7, FatSizes
  <2>2. v11[i] = [at |-> q * SectorSize, sector |-> StartOf(File.chain[1]) + q]
    BY <1>7, <1>8, <2>1
  <2> QED
    BY <2>2
<1>10. b - v11[i].at = r
  BY <1>3, <1>9, FatSizes
<1>11. ASSUME NEW k \in DOMAIN v11, k # i
       PROVE  ~(b - v11[k].at \in 0 .. SectorSize - 1)
  <2>1. k \in 1 .. n
    BY <1>1, <1>2
  <2>2. CASE k <= sectorsPerCluster + 1
    <3> SUFFICES ASSUME b - v11[k].at \in 0 .. SectorSize - 1 PROVE FALSE
      OBVIOUS
    <3>1. PICK p \in Nat, t \in 0 .. SectorSize - 1 : p = k - 1 /\ t = b - p * SectorSize
      <4>1. v11[k].at = (k - 1) * SectorSize
        BY <1>8, <2>1, <2>2
      <4>2. b - (k - 1) * SectorSize \in 0 .. SectorSize - 1
        BY <4>1
      <4>3. k - 1 \in Nat
        BY <2>1
      <4> QED
        BY <4>2, <4>3
    <3>2. b = p * SectorSize + t
      BY <3>1, FatSizes
    <3>3. b \div SectorSize = p /\ b \div SectorSize = q
      <4>1. b \div SectorSize = p
        <5>1. p \in Nat /\ t \in 0 .. SectorSize - 1 /\ b = p * SectorSize + t
          BY <3>1, <3>2
        <5> QED
          BY <5>1, FatSizes, QuotientIs
      <4>2. b \div SectorSize = q
        BY <1>3, FatSizes, QuotientIs
      <4> QED
        BY <4>1, <4>2
    <3> QED
      BY <1>7, <1>11, <2>1, <3>1, <3>3
  <2>3. CASE k > sectorsPerCluster + 1
    <3>1. size > Cluster
      BY <1>5, <2>1, <2>3, FatSizes
    <3>2. Rest1 \in Nat /\ Rest1 > 0
      <4>1. Rest1 = IF size - Cluster <= SectorSize THEN size - Cluster ELSE SectorSize
        BY <1>2 DEF Rest1
      <4> QED
        BY <1>2, <3>1, <4>1, FatSizes
    <3>3. v11[k].at >= Cluster + Rest1
      <4>1. CASE k = sectorsPerCluster + 2
        <5>1. v11[k] = [at |-> Cluster + Rest1, sector |-> StartOf(File.chain[2])]
          BY <1>1, <4>1 DEF Copies
        <5>2. v11[k].at = Cluster + Rest1
          BY <5>1
        <5> QED
          BY <3>2, <5>2, FatSizes
      <4>2. CASE k > sectorsPerCluster + 2
        <5>1. v11[k].at > Cluster + Rest1 /\ v11[k].at \in Nat
          <6>1. v11[k].at > Cluster + Rest1
            BY <1>1, <4>2 DEF Copies
          <6>2. v11[k] \in [at : Nat, sector : Int]
            BY <1>1, ElementOfSeq
          <6> QED
            BY <6>1, <6>2
        <5> QED
          BY <3>2, <5>1, FatSizes
      <4> QED
        BY <2>1, <2>3, <4>1, <4>2, FatSizes
    <3>4. v11[k].at \in Nat
      <4>1. v11[k] \in [at : Nat, sector : Int]
        BY <1>1, ElementOfSeq
      <4> QED
        BY <4>1
    <3> QED
      BY <3>2, <3>3, <3>4, FatSizes
  <2> QED
    BY <2>1, <2>2, <2>3, FatSizes
<1>12. Fat!Over(b) = {i} /\ Fat!Byte(b) = <<StartOf(File.chain[1]) + q, r>>
  <2>1. i \in DOMAIN v11 /\ b \in Int
    BY <1>1, <1>2
  <2>2. Fat!Over(b) = {i} /\ Fat!Byte(b) = <<v11[i].sector, b - v11[i].at>>
    BY <1>1, <1>10, <1>11, <2>1, OnlyCopy
  <2> QED
    BY <1>9, <1>10, <2>2
<1>13. Fat!FileByte(b) = <<StartOf(File.chain[1]) + q, r>>
  <2>1. b \div Cluster = 0 /\ b % Cluster = b
    <3>1. b = 0 * Cluster + b /\ b \in 0 .. Cluster - 1 /\ 0 \in Nat
      BY FatSizes
    <3> QED
      BY <3>1, FatSizes, QuotientIs
  <2>2. b \div SectorSize = q /\ b % SectorSize = r
    BY <1>3, FatSizes, QuotientIs
  <2>3. Cluster = Fat!ClusterSize /\ (b \div Cluster) + 1 = 1
    BY <2>1 DEF Cluster
  <2> QED
    BY <1>1, <2>1, <2>2, <2>3 DEF Fat!FileByte, StartOf
<1> QED
  BY <1>12, <1>13
(* The copies of a file of more than one cluster, by where they are.       *)
LEMMA CopiesAre ==
    ASSUME FatProof, v13 = "done", Fat!InFile, File.size > Cluster
    PROVE  /\ Rest1 \in 1 .. SectorSize
           /\ Rest1 = (IF File.size - Cluster <= SectorSize THEN File.size - Cluster
                                                            ELSE SectorSize)
           /\ sectorsPerCluster + 1 \in DOMAIN v11 /\ sectorsPerCluster + 2 \in DOMAIN v11
           /\ v11[sectorsPerCluster + 1].at = Cluster
           /\ v11[sectorsPerCluster + 1].sector = StartOf(File.chain[1]) + sectorsPerCluster
           /\ v11[sectorsPerCluster + 2].at = Cluster + Rest1
           /\ v11[sectorsPerCluster + 2].sector = StartOf(File.chain[2])
           /\ \A k \in DOMAIN v11 :
                 /\ k \in Nat /\ v11[k].at \in Nat
                 /\ k < sectorsPerCluster + 1 => v11[k].at + SectorSize <= Cluster
                 /\ k > sectorsPerCluster + 2 => v11[k].at > Cluster + Rest1
<1>1. /\ Copies /\ AllRead /\ v2 \in Int
      /\ v11 \in Seq([at : Nat, sector : Int]) /\ DOMAIN v11 = 1 .. Len(v11)
      /\ Len(v11) \in Nat /\ File.size \in Nat
  BY Done
<1>2. Rest1 \in 1 .. SectorSize
      /\ Rest1 = (IF File.size - Cluster <= SectorSize THEN File.size - Cluster ELSE SectorSize)
  <2>1. Rest1 = (IF File.size - Cluster <= SectorSize THEN File.size - Cluster ELSE SectorSize)
    BY DEF Rest1
  <2> QED
    BY <1>1, <2>1, FatSizes
<1>3. Len(v11) > sectorsPerCluster + 1
  <2>1. ~(File.size <= Cluster)
    BY <1>1, FatSizes
  <2> QED
    BY <1>1, <2>1 DEF AllRead
<1>4. sectorsPerCluster + 1 \in DOMAIN v11 /\ sectorsPerCluster + 2 \in DOMAIN v11
  BY <1>1, <1>3, FatSizes
<1>5. v11[sectorsPerCluster + 1].at = Cluster
      /\ v11[sectorsPerCluster + 1].sector = StartOf(File.chain[1]) + sectorsPerCluster
  <2>1. PICK i \in DOMAIN v11 : i = sectorsPerCluster + 1
    BY <1>4
  <2>2. i <= sectorsPerCluster + 1 /\ i - 1 = sectorsPerCluster
    BY <2>1, FatSizes
  <2>3. v11[i] = [at |-> sectorsPerCluster * SectorSize,
                  sector |-> StartOf(File.chain[1]) + sectorsPerCluster]
    BY <1>1, <2>2 DEF Copies
  <2>4. sectorsPerCluster * SectorSize = Cluster
    BY FatSizes
  <2>5. v11[i].at = Cluster /\ v11[i].sector = StartOf(File.chain[1]) + sectorsPerCluster
    BY <2>3, <2>4
  <2> QED
    BY <2>1, <2>5
<1>6. v11[sectorsPerCluster + 2].at = Cluster + Rest1
      /\ v11[sectorsPerCluster + 2].sector = StartOf(File.chain[2])
  <2>1. v11[sectorsPerCluster + 2] =
          [at |-> Cluster + Rest1, sector |-> StartOf(File.chain[2])]
    BY <1>1, <1>4, FatSizes DEF Copies
  <2> QED
    BY <2>1
<1>7. ASSUME NEW k \in DOMAIN v11
      PROVE  /\ k \in Nat /\ v11[k].at \in Nat
             /\ k < sectorsPerCluster + 1 => v11[k].at + SectorSize <= Cluster
             /\ k > sectorsPerCluster + 2 => v11[k].at > Cluster + Rest1
  <2>1. k \in Nat /\ k >= 1
    BY <1>1
  <2>2. v11[k].at \in Nat
    <3>1. v11[k] \in [at : Nat, sector : Int]
      BY <1>1, ElementOfSeq
    <3> QED
      BY <3>1
  <2>3. k < sectorsPerCluster + 1 => v11[k].at + SectorSize <= Cluster
    <3> SUFFICES ASSUME k < sectorsPerCluster + 1
                 PROVE  v11[k].at + SectorSize <= Cluster
      OBVIOUS
    <3>1. v11[k] = [at |-> (k - 1) * SectorSize, sector |-> StartOf(File.chain[1]) + (k - 1)]
      BY <1>1, <2>1, FatSizes DEF Copies
    <3>2. v11[k].at = (k - 1) * SectorSize
      BY <3>1
    <3>3. SectorSize * k <= SectorSize * sectorsPerCluster
      BY <2>1, FatSizes, Monotone
    <3>4. (k - 1) * SectorSize + SectorSize = SectorSize * k
      BY <2>1, FatSizes
    <3> QED
      BY <3>2, <3>3, <3>4, FatSizes
  <2>4. k > sectorsPerCluster + 2 => v11[k].at > Cluster + Rest1
    BY <1>1 DEF Copies
  <2> QED
    BY <2>1, <2>2, <2>3, <2>4
<1> QED
  BY <1>2, <1>4, <1>5, <1>6, <1>7

(* The first bytes behind the first cluster are those of the sector that   *)
(* follows it on the disk.                                                 *)
LEMMA NextBytes ==
    ASSUME FatProof, v13 = "done", Fat!InFile, File.size > Cluster,
           NEW r \in Nat, r < Rest1
    PROVE  /\ Fat!Byte(Cluster + r) = <<StartOf(File.chain[1]) + sectorsPerCluster, r>>
           /\ Fat!FileByte(Cluster + r) = <<StartOf(File.chain[2]), r>>
           /\ Fat!Byte(Cluster + r) = Fat!FileByte(Cluster + r)
                 <=> File.chain[2] = File.chain[1] + 1
<1>1. /\ Rest1 \in 1 .. SectorSize
      /\ sectorsPerCluster + 1 \in DOMAIN v11 /\ sectorsPerCluster + 2 \in DOMAIN v11
      /\ v11[sectorsPerCluster + 1].at = Cluster
      /\ v11[sectorsPerCluster + 1].sector = StartOf(File.chain[1]) + sectorsPerCluster
      /\ v11[sectorsPerCluster + 2].at = Cluster + Rest1
      /\ \A k \in DOMAIN v11 :
            /\ k \in Nat /\ v11[k].at \in Nat
            /\ k < sectorsPerCluster + 1 => v11[k].at + SectorSize <= Cluster
            /\ k > sectorsPerCluster + 2 => v11[k].at > Cluster + Rest1
  BY CopiesAre
<1>2. /\ v2 \in Int /\ Fat!File = File /\ v11 \in Seq([at : Nat, sector : Int])
      /\ File.size \in Nat /\ File.chain \in Seq(Nat)
      /\ Len(File.chain) \in Nat /\ File.size <= Cluster * Len(File.chain)
  BY Done
<1>3. r \in 0 .. SectorSize - 1
  BY <1>1, FatSizes
<1>3a. PICK b \in Int, i \in DOMAIN v11 : b = Cluster + r /\ i = sectorsPerCluster + 1
  BY <1>1, FatSizes
<1>4. ASSUME NEW k \in DOMAIN v11, k # i
      PROVE  ~(b - v11[k].at \in 0 .. SectorSize - 1)
  <2>1. k \in Nat /\ v11[k].at \in Nat
    BY <1>1
  <2>2. CASE k < sectorsPerCluster + 1
    <3>1. v11[k].at + SectorSize <= Cluster
      BY <1>1, <2>2
    <3> QED
      BY <1>3a, <2>1, <3>1, FatSizes
  <2>3. CASE k = sectorsPerCluster + 2
    <3>1. v11[k].at = Cluster + Rest1
      BY <1>1, <2>3
    <3> QED
      BY <1>1, <1>3a, <3>1, FatSizes
  <2>4. CASE k > sectorsPerCluster + 2
    <3>1. v11[k].at > Cluster + Rest1
      BY <1>1, <2>4
    <3> QED
      BY <1>1, <1>3a, <2>1, <3>1, FatSizes
  <2>5. k < sectorsPerCluster + 1 \/ k = sectorsPerCluster + 2 \/ k > sectorsPerCluster + 2
    <3>1. i = sectorsPerCluster + 1 /\ sectorsPerCluster \in Nat
      BY <1>3a, FatSizes
    <3> QED
      BY <1>4, <2>1, <3>1
  <2> QED
    BY <2>2, <2>3, <2>4, <2>5
<1>5. Fat!Byte(Cluster + r) = <<StartOf(File.chain[1]) + sectorsPerCluster, r>>
  <2>1. v11[i].at = Cluster /\ v11[i].sector = StartOf(File.chain[1]) + sectorsPerCluster
    BY <1>1, <1>3a
  <2>2. b - v11[i].at = r
    BY <1>3a, <2>1, FatSizes
  <2>3. Fat!Byte(b) = <<v11[i].sector, b - v11[i].at>>
    BY <1>2, <1>3, <1>4, <2>2, OnlyCopy
  <2> QED
    BY <1>3a, <2>1, <2>2, <2>3
<1>6. 2 \in DOMAIN File.chain /\ 1 \in DOMAIN File.chain
  <2>1. File.size - 1 * Cluster > 0
    BY <1>2, FatSizes
  <2>2. 1 < Len(File.chain)
    BY <1>2, <2>1, FatSizes, OneMore
  <2> QED
    BY <1>2, <2>2
<1>7. Fat!FileByte(Cluster + r) = <<StartOf(File.chain[2]) + 0, r>>
  <2>1. (Cluster + r) \div Cluster = 1 /\ (Cluster + r) % Cluster = r
    <3>1. SectorSize <= Cluster
      BY FatSizes, Product
    <3>2. Cluster + r = 1 * Cluster + r /\ r \in 0 .. Cluster - 1 /\ Cluster + r \in Nat
      BY <1>3, <3>1, FatSizes
    <3> QED
      BY <3>2, FatSizes, QuotientIs
  <2>2. r \div SectorSize = 0
    <3>1. r = 0 * SectorSize + r /\ r \in 0 .. SectorSize - 1 /\ 0 \in Nat /\ r \in Nat
      BY <1>3, FatSizes
    <3> QED
      BY <3>1, FatSizes, QuotientIs
  <2>3. (Cluster + r) % SectorSize = r
    <3>1. PICK y \in Nat : y = Cluster + r
      BY FatSizes
    <3>2. /\ y = sectorsPerCluster * SectorSize + r
          /\ r \in 0 .. SectorSize - 1 /\ sectorsPerCluster \in Nat
      BY <1>3, <3>1, FatSizes
    <3>3. PICK s \in Nat \ {0}, q \in Nat : s = SectorSize /\ q = sectorsPerCluster
      BY FatSizes
    <3>4. y = q * s + r /\ r \in 0 .. s - 1
      BY <3>2, <3>3
    <3>5. y % s = r
      BY <3>4, QuotientIs
    <3> QED
      BY <3>1, <3>3, <3>5
  <2>4. Cluster = Fat!ClusterSize /\ ((Cluster + r) \div Cluster) + 1 = 2
    BY <2>1 DEF Cluster
  <2> QED
    BY <1>2, <2>1, <2>2, <2>3, <2>4 DEF Fat!FileByte, StartOf
<1>8. PICK a \in Nat, e \in Nat : a = File.chain[1] /\ e = File.chain[2]
  <2>1. File.chain[1] \in Nat /\ File.chain[2] \in Nat
    <3>1. 1 \in 1 .. Len(File.chain) /\ 2 \in 1 .. Len(File.chain)
      <4>1. DOMAIN File.chain = 1 .. Len(File.chain)
        BY <1>2, LenProperties
      <4> QED
        BY <1>6, <4>1
    <3> QED
      BY <1>2, <3>1, ElementOfSeq
  <2> QED
    BY <2>1
<1>9. StartOf(a) \in Int /\ StartOf(e) = StartOf(a) + sectorsPerCluster * (e - a)
  BY <1>2, StartIs
<1>10. StartOf(e) + 0 = StartOf(e)
  BY <1>9, FatSizes
<1>11. StartOf(a) + sectorsPerCluster = StartOf(e) <=> e = a + 1
  <2>1. ASSUME NEW c \in Nat \ {0}, NEW d \in Int, c = c * d
        PROVE  d = 1
    BY <2>1, SMTT(30)
  <2>2. sectorsPerCluster = sectorsPerCluster * (e - a) => e - a = 1
    BY <2>1, FatSizes
  <2>3. e = a + 1 => sectorsPerCluster * (e - a) = sectorsPerCluster
    BY FatSizes
  <2> QED
    BY <1>9, <2>2, <2>3, FatSizes
<1> QED
  BY <1>5, <1>7, <1>8, <1>10, <1>11

(* A file of more than a cluster and a sector: the byte at which the       *)
(* second cluster was put is not the one that belongs there.               *)
LEMMA MovedUp ==
    ASSUME FatProof, v13 = "done", Fat!InFile, File.size > Cluster + SectorSize
    PROVE  Fat!Byte(Cluster + SectorSize) # Fat!FileByte(Cluster + SectorSize)
<1>1. File.size > Cluster /\ File.size \in Nat
  BY Done, FatSizes
<1>2. /\ Rest1 = SectorSize
      /\ sectorsPerCluster + 1 \in DOMAIN v11 /\ sectorsPerCluster + 2 \in DOMAIN v11
      /\ v11[sectorsPerCluster + 1].at = Cluster
      /\ v11[sectorsPerCluster + 2].at = Cluster + Rest1
      /\ v11[sectorsPerCluster + 2].sector = StartOf(File.chain[2])
      /\ \A k \in DOMAIN v11 :
            /\ k \in Nat /\ v11[k].at \in Nat
            /\ k < sectorsPerCluster + 1 => v11[k].at + SectorSize <= Cluster
            /\ k > sectorsPerCluster + 2 => v11[k].at > Cluster + Rest1
  <2>1. Rest1 = IF File.size - Cluster <= SectorSize THEN File.size - Cluster ELSE SectorSize
    BY DEF Rest1
  <2>2. Rest1 = SectorSize
    BY <1>1, <2>1, FatSizes
  <2> QED
    BY <1>1, <2>2, CopiesAre
<1>3. /\ v2 \in Int /\ Fat!File = File /\ v11 \in Seq([at : Nat, sector : Int])
      /\ File.size \in Nat /\ File.chain \in Seq(Nat)
      /\ Len(File.chain) \in Nat /\ File.size <= Cluster * Len(File.chain)
      /\ \A a, f \in DOMAIN File.chain : File.chain[a] = File.chain[f] => a = f
  BY Done
<1>3a. PICK b \in Int, i \in DOMAIN v11 :
          b = Cluster + SectorSize /\ i = sectorsPerCluster + 2
  BY <1>2, FatSizes
<1>4. ASSUME NEW k \in DOMAIN v11, k # i
      PROVE  ~(b - v11[k].at \in 0 .. SectorSize - 1)
  <2>1. k \in Nat /\ v11[k].at \in Nat
    BY <1>2
  <2>2. CASE k < sectorsPerCluster + 1
    <3>1. v11[k].at + SectorSize <= Cluster
      BY <1>2, <2>2
    <3> QED
      BY <1>3a, <2>1, <3>1, FatSizes
  <2>3. CASE k = sectorsPerCluster + 1
    <3>1. v11[k].at = Cluster
      BY <1>2, <2>3
    <3> QED
      BY <1>3a, <3>1, FatSizes
  <2>4. CASE k > sectorsPerCluster + 2
    <3>1. v11[k].at > Cluster + Rest1
      BY <1>2, <2>4
    <3> QED
      BY <1>2, <1>3a, <2>1, <3>1, FatSizes
  <2> QED
    BY <1>3a, <1>4, <2>1, <2>2, <2>3, <2>4, FatSizes
<1>5. Fat!Byte(Cluster + SectorSize) = <<StartOf(File.chain[2]), 0>>
  <2>1. v11[i].at = Cluster + SectorSize /\ v11[i].sector = StartOf(File.chain[2])
    BY <1>2, <1>3a
  <2>2. b - v11[i].at = 0 /\ 0 \in 0 .. SectorSize - 1
    BY <1>3a, <2>1, FatSizes
  <2>3. Fat!Byte(b) = <<v11[i].sector, b - v11[i].at>>
    BY <1>3, <1>4, <2>2, OnlyCopy
  <2> QED
    BY <1>3a, <2>1, <2>2, <2>3
<1>6. 2 \in DOMAIN File.chain
  <2>1. File.size - 1 * Cluster > 0
    BY <1>1, FatSizes
  <2>2. 1 < Len(File.chain)
    BY <1>3, <2>1, FatSizes, OneMore
  <2> QED
    BY <1>3, <2>2
<1>7. PICK e \in Nat : e = File.chain[2]
  BY <1>3, <1>6
<1>8. StartOf(e) \in Int
  BY <1>3, StartIs
<1>9. CASE sectorsPerCluster > 1
  <2>1. SectorSize < Cluster
    <3>1. SectorSize * 2 <= SectorSize * sectorsPerCluster
      BY <1>9, FatSizes, Monotone
    <3> QED
      BY <3>1, FatSizes
  <2>2. (Cluster + SectorSize) \div Cluster = 1 /\ (Cluster + SectorSize) % Cluster = SectorSize
    <3>1. /\ Cluster + SectorSize = 1 * Cluster + SectorSize
          /\ SectorSize \in 0 .. Cluster - 1 /\ Cluster + SectorSize \in Nat
      BY <2>1, FatSizes
    <3> QED
      BY <3>1, FatSizes, QuotientIs
  <2>3. SectorSize \div SectorSize = 1
    <3>1. SectorSize = 1 * SectorSize + 0 /\ 0 \in 0 .. SectorSize - 1 /\ SectorSize \in Nat
      BY FatSizes
    <3> QED
      BY <3>1, FatSizes, QuotientIs
  <2>4. Cluster = Fat!ClusterSize /\ ((Cluster + SectorSize) \div Cluster) + 1 = 2
    BY <2>2 DEF Cluster
  <2>5. Fat!FileByte(Cluster + SectorSize)[1] = StartOf(e) + 1
    BY <1>3, <1>7, <2>2, <2>3, <2>4 DEF Fat!FileByte, StartOf
  <2>6. Fat!Byte(Cluster + SectorSize)[1] = StartOf(e)
    BY <1>5, <1>7
  <2>7. StartOf(e) # StartOf(e) + 1
    BY <1>8
  <2> QED
    BY <2>5, <2>6, <2>7
<1>10. CASE ~(sectorsPerCluster > 1)
  <2>1. sectorsPerCluster = 1 /\ Cluster = SectorSize
    BY <1>10, FatSizes
  <2>2. 3 \in DOMAIN File.chain
    <3>1. File.size - 2 * Cluster > 0
      BY <1>1, <2>1, FatSizes
    <3>2. 2 < Len(File.chain)
      BY <1>3, <3>1, FatSizes, OneMore
    <3> QED
      BY <1>3, <3>2
  <2>3. PICK d \in Nat : d = File.chain[3] /\ d # e
    <3>1. File.chain[3] \in Nat
      BY <1>3, <2>2, ElementOfSeq
    <3>2. File.chain[3] # File.chain[2]
      BY <1>3, <1>6, <2>2
    <3> QED
      BY <1>7, <3>1, <3>2
  <2>4. (Cluster + SectorSize) \div Cluster = 2 /\ (Cluster + SectorSize) % Cluster = 0
    <3>1. /\ Cluster + SectorSize = 2 * Cluster + 0
          /\ 0 \in 0 .. Cluster - 1 /\ Cluster + SectorSize \in Nat
      BY <2>1, FatSizes
    <3> QED
      BY <3>1, FatSizes, QuotientIs
  <2>5. 0 \div SectorSize = 0
    <3>1. 0 = 0 * SectorSize + 0 /\ 0 \in 0 .. SectorSize - 1
      BY FatSizes
    <3> QED
      BY <3>1, FatSizes, QuotientIs
  <2>6. Cluster = Fat!ClusterSize /\ ((Cluster + SectorSize) \div Cluster) + 1 = 3
    BY <2>4 DEF Cluster
  <2>7. Fat!FileByte(Cluster + SectorSize)[1] = StartOf(d) + 0
    BY <1>3, <2>3, <2>4, <2>5, <2>6 DEF Fat!FileByte, StartOf
  <2>8. Fat!Byte(Cluster + SectorSize)[1] = StartOf(e)
    BY <1>5, <1>7
  <2>9. StartOf(d) + 0 # StartOf(e)
    <3>1. StartOf(d) = StartOf(e) + 1 * (d - e)
      BY <1>3, <2>1, StartIs
    <3>2. PICK x \in Int, y \in Int : x = StartOf(e) /\ y = d - e
      BY <1>8
    <3>3. StartOf(d) = x + 1 * y
      BY <3>1, <3>2
    <3>4. y # 0
      BY <1>7, <2>3, <3>2
    <3> QED
      BY <3>2, <3>3, <3>4
  <2> QED
    BY <2>7, <2>8, <2>9
<1> QED
  BY <1>9, <1>10

(* And it is enough for what is promised of a file.                        *)
LEMMA FatSuffices ==
    ASSUME FatProof
    PROVE  Fat!FatInv
<1>1. Fat!TypeOK
  BY DEF FatProof, FatTypes, Fat!TypeOK
<1>2. ASSUME v13 = "done", Fat!InFile
      PROVE  /\ v12 = Fat!File.chain
             /\ \A b \in 0 .. Fat!Min({Fat!File.size, Fat!ClusterSize}) - 1 :
                   Fat!Over(b) # {} /\ Fat!Byte(b) = Fat!FileByte(b)
             /\ (\A b \in 0 .. Fat!File.size - 1 : Fat!Byte(b) = Fat!FileByte(b)) <=>
                   \/ Fat!File.size <= Fat!ClusterSize
                   \/ /\ Fat!File.size <= Fat!ClusterSize + SectorSize
                      /\ Fat!File.chain[2] = Fat!File.chain[1] + 1
  <2>1. /\ AllRead /\ Fat!File = File /\ Fat!ClusterSize = Cluster /\ File.size \in Nat
    BY <1>2, Done DEF Cluster
  <2>2. v12 = File.chain
    BY <2>1 DEF AllRead
  <2>3. ASSUME NEW b \in Nat, b < File.size, b < Cluster
        PROVE  Fat!Over(b) # {} /\ Fat!Byte(b) = Fat!FileByte(b)
    BY <1>2, <2>3, FirstBytes
  <2>4. Fat!Min({File.size, Cluster}) <= File.size /\ Fat!Min({File.size, Cluster}) <= Cluster
        /\ Fat!Min({File.size, Cluster}) \in Nat
    <3>1. PICK a \in Nat, d \in Nat : a = File.size /\ d = Cluster
      BY <2>1, FatSizes
    <3>2. \E x \in {a, d} : \A y \in {a, d} : x <= y
      <4>1. CASE a <= d
        BY <4>1
      <4>2. CASE ~(a <= d)
        BY <4>2
      <4> QED
        BY <4>1, <4>2
    <3>3. Fat!Min({a, d}) \in {a, d} /\ \A y \in {a, d} : Fat!Min({a, d}) <= y
      BY <3>2 DEF Fat!Min
    <3> QED
      BY <3>1, <3>3
  <2>5. ASSUME NEW b \in 0 .. Fat!Min({File.size, Cluster}) - 1
        PROVE  Fat!Over(b) # {} /\ Fat!Byte(b) = Fat!FileByte(b)
    <3>1. b \in Nat /\ b < File.size /\ b < Cluster
      BY <2>1, <2>4, FatSizes
    <3> QED
      BY <2>3, <3>1
  <2>6. CASE File.size <= Cluster
    <3>1. ASSUME NEW b \in 0 .. File.size - 1
          PROVE  Fat!Byte(b) = Fat!FileByte(b)
      <4>1. b \in Nat /\ b < File.size /\ b < Cluster
        BY <2>1, <2>6, FatSizes
      <4> QED
        BY <2>3, <4>1
    <3> QED
      BY <2>1, <2>2, <2>5, <2>6, <3>1
  <2>7. CASE File.size > Cluster + SectorSize
    <3>1. Cluster + SectorSize \in 0 .. File.size - 1
      BY <2>1, <2>7, FatSizes
    <3>2. Fat!Byte(Cluster + SectorSize) # Fat!FileByte(Cluster + SectorSize)
      BY <1>2, <2>7, MovedUp
    <3>3. ~(File.size <= Cluster) /\ ~(File.size <= Cluster + SectorSize)
      BY <2>1, <2>7, FatSizes
    <3> QED
      BY <2>1, <2>2, <2>5, <3>1, <3>2, <3>3
  <2>8. CASE File.size > Cluster /\ File.size <= Cluster + SectorSize
    <3>1. Rest1 = File.size - Cluster /\ Rest1 > 0
      <4>1. Rest1 = IF File.size - Cluster <= SectorSize THEN File.size - Cluster ELSE SectorSize
        BY DEF Rest1
      <4> QED
        BY <2>1, <2>8, <4>1, FatSizes
    <3>2. ASSUME NEW r \in Nat, r < Rest1
          PROVE  Fat!Byte(Cluster + r) = Fat!FileByte(Cluster + r)
                    <=> File.chain[2] = File.chain[1] + 1
      BY <1>2, <2>8, <3>2, NextBytes
    <3>3. ASSUME File.chain[2] = File.chain[1] + 1, NEW b \in 0 .. File.size - 1
          PROVE  Fat!Byte(b) = Fat!FileByte(b)
      <4>1. CASE b < Cluster
        BY <2>1, <2>3, <4>1
      <4>2. CASE ~(b < Cluster)
        <5>1. PICK r \in Nat : b = Cluster + r /\ r < Rest1
          <6>1. b - Cluster \in Nat /\ b = Cluster + (b - Cluster) /\ b - Cluster < Rest1
            BY <2>1, <3>1, <4>2, FatSizes
          <6> QED
            BY <6>1
        <5>2. Fat!Byte(Cluster + r) = Fat!FileByte(Cluster + r)
          BY <3>2, <3>3, <5>1
        <5> QED
          BY <5>1, <5>2
      <4> QED
        BY <4>1, <4>2
    <3>4. ASSUME \A b \in 0 .. File.size - 1 : Fat!Byte(b) = Fat!FileByte(b)
          PROVE  File.chain[2] = File.chain[1] + 1
      <4>1. Cluster + 0 \in 0 .. File.size - 1 /\ 0 \in Nat /\ 0 < Rest1
        BY <2>1, <2>8, <3>1, FatSizes
      <4>2. Fat!Byte(Cluster + 0) = Fat!FileByte(Cluster + 0)
        BY <3>4, <4>1
      <4> QED
        BY <3>2, <4>1, <4>2
    <3>5. ~(File.size <= Cluster)
      BY <2>1, <2>8, FatSizes
    <3> QED
      BY <2>1, <2>2, <2>5, <2>8, <3>3, <3>4, <3>5
  <2>9. \/ File.size <= Cluster \/ File.size > Cluster + SectorSize
        \/ (File.size > Cluster /\ File.size <= Cluster + SectorSize)
    BY <2>1, FatSizes
  <2> QED
    BY <2>6, <2>7, <2>8, <2>9
<1> QED
  BY <1>1, <1>2 DEF Fat!FatInv, Fat!FirstClusterRight, FatProof
----------------------------------------------------------------------------
(* Whatever sectors are asked for and however the drive keeps the driver   *)
(* waiting, it reads and writes the sectors it was asked for and sends the *)
(* drive as many words as it takes (ata.cpp); and GetFile finds the file   *)
(* of the wanted name, reads its chain of clusters to the end and puts the *)
(* first of them where it belongs, on every sound volume (msdospart.cpp,   *)
(* fat.cpp); each with the exceptions its module states.                   *)
THEOREM DiskStaysRight == Spec => []DiskRight
<1> DEFINE Inv == /\ part = "Ata" => AtaProof
                  /\ part = "Fat" => FatProof
<1>1. Init => Inv
  <2> SUFFICES ASSUME Init PROVE Inv
    OBVIOUS
  <2>1. ASSUME part = "Ata" PROVE AtaProof
    <3>1. Ata!Init
      BY <2>1 DEF Init
    <3> QED
      BY <3>1, ConstantsAssumption, AtaInit
  <2>2. ASSUME part = "Fat" PROVE FatProof
    <3>1. Fat!Init
      BY <2>2 DEF Init
    <3> QED
      BY <3>1, FatInit
  <2> QED
    BY <2>1, <2>2
<1>2. Inv /\ [Next]_all => Inv'
  <2> SUFFICES ASSUME Inv, [Next]_all PROVE Inv'
    OBVIOUS
  <2>1. part' = part
    BY DEF Next, all
  <2>2. ASSUME part = "Ata" PROVE AtaProof'
    <3>1. [Ata!Next]_(Ata!vars)
      BY <2>2 DEF Next, all, rest2, rest3, rest4, rest6, rest9, rest11, rest12, Ata!vars
    <3> QED
      BY <2>2, <3>1, ConstantsAssumption, AtaStep
  <2>3. ASSUME part = "Fat" PROVE FatProof'
    <3>1. [Fat!Next]_(Fat!vars)
      BY <2>3 DEF Next, all, rest2, rest3, rest4, rest6, rest9, rest11, rest12, Fat!vars
    <3> QED
      BY <2>3, <3>1, FatStep
  <2> QED
    BY <2>1, <2>2, <2>3
<1>3. Inv => DiskRight
  BY ConstantsAssumption, AtaSuffices, FatSuffices DEF DiskRight
<1> QED
  BY <1>1, <1>2, <1>3, PTL DEF Spec, all
=============================================================================
