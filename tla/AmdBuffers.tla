----------------------------- MODULE AmdBuffers -----------------------------
(***************************************************************************)
(* Where the AMD am79c973's driver keeps its frames                        *)
(* (src/src/drivers/amd_am79c973.cpp).  The dimensions of sendBuffers and  *)
(* recvBuffers are swapped (amd_am79c973.h:71): the buffers of the eight   *)
(* descriptors begin eight bytes apart, and as many are shared as are      *)
(* rounded up to one multiple of sixteen.  A ring is filled by Send and    *)
(* emptied by the card, or the other way about; AmdReceive and AmdSend     *)
(* have the order of that, here are the bytes.                             *)
(***************************************************************************)
EXTENDS Integers, Sequences

CONSTANTS
    N,              \* descriptors in the ring, 8
    Step,           \* from one buffer to the next, 8
    Alignment,      \* 16
    Lengths         \* of frames

(* What the constants must satisfy: a frame is longer than the array of    *)
(* buffers, 64 bytes, as all but the shortest are, and the array as long   *)
(* as some multiples of sixteen.                                           *)
ConstantsOK ==
    /\ N \in Nat \ {0, 1} /\ Step \in Nat \ {0} /\ Alignment \in Nat \ {0}
    /\ (N * Step) % Alignment = 0
    /\ \E longest \in Lengths :
          \A length \in Lengths : length \in N * Step + 1 .. longest

VARIABLES
    array,          \* the address of the array, as far as it makes a difference
    next,           \* the number of the next frame; it selects the descriptor
    waiting,        \* the frames that lie in the ring, in order
    memory          \* per byte: the number of the frame it belongs to

vars == <<array, next, waiting, memory>>

(* Frames are numbered modulo Numbers, so that no two that wait are alike. *)
Numbers == 2 * N
None == -1

(* The end of the memory that is modelled.                                 *)
Longest == CHOOSE longest \in Lengths : \A length \in Lengths : length <= longest
Top == 2 * Alignment + N * Step + Longest

(* A wrong address for the mutation runs: buffers of their own.             *)
AddressApart(i) == array + 4 * i * N * Step

(* ((uint32_t)&buffers[i] + 15) & ~0xF.                                    *)
Address(i) == Alignment * ((array + i * Step + Alignment - 1) \div Alignment)

Init ==
    /\ array \in 0 .. Alignment - 1
    /\ next = 0 /\ waiting = <<>>
    /\ memory = [a \in 0 .. Top |-> None]

Bytes(frame) == Address(frame.no % N) .. Address(frame.no % N) + frame.length - 1

(* A frame is copied into the next descriptor's buffer, by Send or by the  *)
(* card.  One that meets a full ring is in AmdReceive and AmdSend.         *)
Put(length) ==
    LET frame == [no |-> next, length |-> length]
    IN  /\ Len(waiting) < N
        /\ waiting' = Append(waiting, frame)
        /\ next' = (next + 1) % Numbers
        /\ memory' = [a \in 0 .. Top |-> IF a \in Bytes(frame) THEN next ELSE memory[a]]
        /\ UNCHANGED array

(* The oldest is taken out, by the card or by Receive, and its descriptor   *)
(* given back.                                                             *)
Get ==
    /\ waiting # <<>>
    /\ waiting' = Tail(waiting)
    /\ UNCHANGED <<array, next, memory>>

Next == Get \/ \E length \in Lengths : Put(length)

Spec == Init /\ [][Next]_vars

----------------------------------------------------------------------------
TypeOK ==
    /\ next \in 0 .. Numbers - 1
    /\ waiting \in Seq([no : 0 .. Numbers - 1, length : Lengths]) /\ Len(waiting) <= N
    /\ memory \in [0 .. Top -> {None} \cup 0 .. Numbers - 1]

(* What Send and the receive ring promise is that a frame that waits is    *)
(* whole.  The last one is.  One that has a later one behind it never is,  *)
(* since every frame is longer than the buffers lie apart; and even where  *)
(* it begins there is another frame when a later one's buffer begins no    *)
(* later than its own, which can be the same (amd_am79c973.h:71).          *)
Whole(frame) == \A a \in Bytes(frame) : memory[a] = frame.no
Start(frame) == Address(frame.no % N)

FramesWhole ==
    \A k \in DOMAIN waiting :
        /\ Whole(waiting[k]) <=> k = Len(waiting)
        /\ memory[Start(waiting[k])] = waiting[k].no <=>
              \A j \in k + 1 .. Len(waiting) : Start(waiting[j]) > Start(waiting[k])

BuffersInv == TypeOK /\ FramesWhole
=============================================================================
