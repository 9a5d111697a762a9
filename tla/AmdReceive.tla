----------------------------- MODULE AmdReceive -----------------------------
(***************************************************************************)
(* The receive side of the driver of the AMD am79c973 network card         *)
(* (src/src/drivers/amd_am79c973.cpp): a ring of descriptors that the card *)
(* fills and Receive empties, and the status register CSR0 by which the    *)
(* card announces what it did.  The card takes a step at any moment, also  *)
(* between any two steps of the interrupt handler; a descriptor belongs to *)
(* it while the owner bit 0x80000000 is set.                               *)
(***************************************************************************)
EXTENDS AmdRing, Sequences

VARIABLES
    recvBufferDescr,    \* per descriptor: Card, or the frame that the card left
    currentRecvBuffer,
    cardFills,      \* the descriptor the card fills next
    csr,            \* bits of CSR0 that ask for an interrupt
    pc, temp,       \* where HandleInterrupt is, and the bits that it read
    pending,        \* history: frames received and not yet handled, in order
    nextIn,         \* history: the number of the next frame
    raced           \* history: a frame came between the end of the loop in
                    \*          Receive and the acknowledgement

ringVars == <<recvBufferDescr, currentRecvBuffer, cardFills, pending, nextIn>>
recvVars == <<ringVars, csr, pc, temp, raced>>

(* Frames are numbered modulo RecvNumbers, so that no two in the ring are  *)
(* numbered alike.                                                         *)
RecvNumbers == N + 1

(* A whole frame, and one that Receive skips: one with an error, or one    *)
(* that is not first and last descriptor at once.                          *)
Kinds == {"whole", "bad"}

Frame(no, kind) == [no |-> no, kind |-> kind]
Frames == [no : 0 .. RecvNumbers - 1, kind : Kinds]
Card == Frame(-1, "card")

(* Receiver, transmitter, missed frame, initialisation done.               *)
Bits == {"RINT", "TINT", "MISS", "IDON"}

(* After the constructor and Activate.                                     *)
RecvInit ==
    /\ recvBufferDescr = [i \in Slots |-> Card]
    /\ currentRecvBuffer = 0 /\ cardFills = 0
    /\ csr = {"IDON"}
    /\ pc = "out" /\ temp = {}
    /\ pending = <<>> /\ nextIn = 0 /\ raced = FALSE

----------------------------------------------------------------------------
(* The card (not in src/): a frame comes and finds a descriptor ...        *)
Arrive(kind) ==
    /\ recvBufferDescr[cardFills] = Card
    /\ recvBufferDescr' = [recvBufferDescr EXCEPT ![cardFills] = Frame(nextIn, kind)]
    /\ cardFills' = After(cardFills)
    /\ csr' = csr \cup {"RINT"}
    /\ pending' = Append(pending, Frame(nextIn, kind))
    /\ nextIn' = (nextIn + 1) % RecvNumbers
    /\ raced' = (raced \/ (pc = "acknowledge" /\ "RINT" \in temp))
    /\ UNCHANGED <<currentRecvBuffer, pc, temp>>

(* ... or finds none and is dropped.                                       *)
Miss ==
    /\ recvBufferDescr[cardFills] # Card
    /\ csr' = csr \cup {"MISS"}
    /\ UNCHANGED <<ringVars, pc, temp, raced>>

(* The card has sent a frame, which asks for an interrupt as well.         *)
Sent ==
    /\ csr' = csr \cup {"TINT"}
    /\ UNCHANGED <<ringVars, pc, temp, raced>>

Traffic == Miss \/ \E kind \in Kinds : Arrive(kind)

----------------------------------------------------------------------------
(* HandleInterrupt: read CSR0, call Receive if the bit for it is set, ...  *)
Enter ==
    /\ pc = "out" /\ csr # {}
    /\ temp' = csr
    /\ pc' = IF "RINT" \in csr THEN "receive" ELSE "acknowledge"
    /\ UNCHANGED <<ringVars, csr, raced>>

(* A wrong Release for the mutation runs: bad frames are not given back.    *)
ReleaseWhole ==
    /\ recvBufferDescr' =
          [recvBufferDescr EXCEPT ![currentRecvBuffer] = IF @.kind = "bad" THEN @ ELSE Card]
    /\ currentRecvBuffer' = After(currentRecvBuffer)

Release ==
    /\ recvBufferDescr' = [recvBufferDescr EXCEPT ![currentRecvBuffer] = Card]
    /\ currentRecvBuffer' = After(currentRecvBuffer)

(* ... in it, one turn of the loop for each descriptor that is not the     *)
(* card's: the frame goes up the stack unless it is bad, the descriptor    *)
(* back to the card, ...                                                   *)
Take ==
    /\ pc = "receive" /\ recvBufferDescr[currentRecvBuffer] # Card
    /\ Release
    /\ pending' = Tail(pending)
    /\ UNCHANGED <<cardFills, nextIn, csr, pc, temp, raced>>

Drained ==
    /\ pc = "receive" /\ recvBufferDescr[currentRecvBuffer] = Card
    /\ pc' = "acknowledge"
    /\ raced' = FALSE
    /\ UNCHANGED <<ringVars, csr, temp>>

(* A wrong acknowledgement for the mutation runs: every bit is cleared.     *)
ClearedAll == {}

(* ... and clear in CSR0 the bits that were read.                          *)
Cleared == csr \ temp

Acknowledge ==
    /\ pc = "acknowledge"
    /\ csr' = Cleared
    /\ pc' = "out" /\ temp' = {}
    /\ UNCHANGED <<ringVars, raced>>

HandleInterrupt == Enter \/ Take \/ Drained \/ Acknowledge

RecvNext == Traffic \/ Sent \/ HandleInterrupt

(* The handler runs, and its loop ends some time: frames do not come as    *)
(* fast as it handles them for ever.                                       *)
RecvFairness == WF_recvVars(HandleInterrupt) /\ SF_recvVars(Drained)

RecvSpec == RecvInit /\ [][RecvNext]_recvVars /\ RecvFairness

----------------------------------------------------------------------------
RecvTypeOK ==
    /\ recvBufferDescr \in [Slots -> Frames \cup {Card}]
    /\ currentRecvBuffer \in Slots /\ cardFills \in Slots
    /\ csr \subseteq Bits /\ temp \subseteq Bits
    /\ pc \in {"out", "receive", "acknowledge"}
    /\ pending \in Seq(Frames)
    /\ nextIn \in 0 .. RecvNumbers - 1
    /\ raced \in BOOLEAN

(* The ring holds the frames that are not handled, the oldest at           *)
(* currentRecvBuffer, and the card owns the rest: whatever the card does   *)
(* meanwhile, no frame is skipped, handled twice or overwritten, and the   *)
(* indices of driver and card do not lose each other.                      *)
RingHoldsPending ==
    /\ Len(pending) <= N
    /\ cardFills = (currentRecvBuffer + Len(pending)) % N
    /\ \A k \in Slots :
          recvBufferDescr[(currentRecvBuffer + k) % N] =
             IF k < Len(pending) THEN pending[k + 1] ELSE Card

(* The receive ring as a whole.                                            *)
RecvRingInv == RecvTypeOK /\ RingHoldsPending

Oldest(no) == pending # <<>> /\ Head(pending).no = no

(* A frame in the ring is announced, so it is handled.  The exception is a *)
(* frame that came after the loop of Receive had ended and before the      *)
(* acknowledgement, which clears the bit that announces it as well         *)
(* (amd_am79c973.cpp:150-155): it may lie in the ring for good if no other *)
(* comes.                                                                  *)
HandledUnlessRaced ==
    \A no \in 0 .. RecvNumbers - 1 : Oldest(no) ~> (~Oldest(no) \/ raced)

(* When frames keep coming the next one gets it handled - unless those     *)
(* that raced have filled the ring: then every further frame is missed,    *)
(* the interrupt for that does not call Receive, and nothing is received   *)
(* any more.                                                               *)
Choked == raced /\ Len(pending) = N

HandledUnlessChoked ==
    WF_recvVars(Traffic) =>
        \A no \in 0 .. RecvNumbers - 1 : Oldest(no) ~> (~Oldest(no) \/ Choked)
=============================================================================
