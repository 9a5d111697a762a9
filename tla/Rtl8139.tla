------------------------------ MODULE Rtl8139 ------------------------------
(***************************************************************************)
(* The driver of the RTL8139 network card (src/src/drivers/rtl8139.cpp).   *)
(* The card writes packets into a ring in memory, each behind a header of  *)
(* four bytes and aligned to four; the last may run past the end of the    *)
(* ring, for which the buffer has room.  Received packets are copied to    *)
(* the heap, where they stay (see HeapIrq.tla).                            *)
(***************************************************************************)
EXTENDS Integers, Sequences

CONSTANTS
    RxBufSize,      \* 8192
    Lengths,        \* of packets, with their checksums
    Slots           \* transmit registers, 4

(* What the constants must satisfy.                                        *)
ConstantsOK ==
    /\ RxBufSize \in Nat \ {0} /\ RxBufSize % 4 = 0
    /\ Lengths \subseteq 1 .. RxBufSize - 8
    /\ Slots \in Nat \ {0}

VARIABLES
    currentPacketPtr,   \* where the driver reads next
    cardPtr,            \* where the card writes next
    unread,             \* the packets in the ring, in order: begin, length
    isr,                \* interrupt status: ROK, TOK
    at, status,         \* where HandleInterrupt is, and what it has read
    lag,                \* history: packets came that share an interrupt
    missed,             \* history: the pointer stopped at the ring's end
    txCur,              \* tx_cur
    cardTx, given,      \* the slot the card sends next, the slots it owns
    txOrder             \* history: "kept" while every Send found its slot

rx == <<currentPacketPtr, cardPtr, unread, lag, missed>>
tx == <<txCur, cardTx, given, txOrder>>
vars == <<rx, isr, at, status, tx>>

(* RX_READ_POINTER_MASK.                                                   *)
Aligned(p) == p - (p % 4)

(* A wrong step for the mutation runs: the header is not counted.           *)
AfterData(ptr, length) == Aligned(ptr + length + 3)

AfterPacket(ptr, length) == Aligned(ptr + length + 4 + 3)

(* The driver wraps only a pointer beyond the ring's size.                 *)
NextPtr(ptr, length) ==
    LET next == AfterPacket(ptr, length)
    IN  IF next > RxBufSize THEN next - RxBufSize ELSE next

(* After Activate.  The constructor leaves tx_cur as it finds it; a value  *)
(* that selects no slot is left out.                                       *)
Init ==
    /\ currentPacketPtr = 0 /\ cardPtr = 0 /\ unread = <<>>
    /\ isr = {} /\ at = "out" /\ status = {}
    /\ lag = FALSE /\ missed = FALSE
    /\ txCur \in 0 .. Slots - 1 /\ cardTx = 0 /\ given = {}
    /\ txOrder = IF txCur = 0 THEN "kept" ELSE "unknown"

----------------------------------------------------------------------------
(* The card (not in src/) stores a packet if the ring has room before the  *)
(* packet that CAPR + 0x10 says is the oldest; a full ring would look      *)
(* empty.  A driver that has stopped at the end reads what is not there.   *)
Size(length) == 4 * ((length + 7) \div 4)
Room == (RxBufSize - 1) - ((cardPtr - currentPacketPtr) % RxBufSize)

Arrive(length) ==
    /\ ~missed
    /\ Size(length) <= Room
    /\ unread' = Append(unread, [begin |-> cardPtr, length |-> length])
    /\ cardPtr' = (cardPtr + Size(length)) % RxBufSize
    /\ isr' = isr \cup {"ROK"}
    /\ lag' = (lag \/ "ROK" \in isr \/ at # "out")
    /\ UNCHANGED <<currentPacketPtr, missed, at, status, tx>>

(* It sends the slots in turn.                                             *)
Transmit ==
    /\ cardTx \in given
    /\ given' = given \ {cardTx}
    /\ cardTx' = (cardTx + 1) % Slots
    /\ isr' = isr \cup {"TOK"}
    /\ UNCHANGED <<rx, at, status, txCur, txOrder>>

----------------------------------------------------------------------------
(* HandleInterrupt: read the status, ...                                   *)
Enter ==
    /\ at = "out" /\ isr # {}
    /\ status' = isr
    /\ at' = IF "ROK" \in isr THEN "receive" ELSE "acknowledge"
    /\ UNCHANGED <<rx, isr, tx>>

(* ... take one packet, and move the pointer past it, ...                  *)
Receive ==
    /\ at = "receive"
    /\ at' = "acknowledge"
    /\ IF missed THEN UNCHANGED <<currentPacketPtr, missed>>
       ELSE /\ currentPacketPtr' = NextPtr(currentPacketPtr, Head(unread).length)
            /\ missed' = (currentPacketPtr' = RxBufSize)
    /\ unread' = IF missed THEN unread ELSE Tail(unread)
    /\ UNCHANGED <<cardPtr, lag, isr, status, tx>>

(* ... and clear both bits, whatever was read.                             *)
Cleared == isr \ {"ROK", "TOK"}

Acknowledge ==
    /\ at = "acknowledge"
    /\ isr' = Cleared
    /\ at' = "out" /\ status' = {}
    /\ UNCHANGED <<rx, tx>>

(* Send: the current slot, whether or not the card still owns it.          *)
Send ==
    /\ given' = given \cup {txCur}
    /\ txOrder' = IF txCur \in given /\ txOrder = "kept" THEN "overrun" ELSE txOrder
    /\ txCur' = (txCur + 1) % Slots
    /\ UNCHANGED <<rx, isr, at, status>>
    /\ UNCHANGED cardTx

Next ==
    \/ \E length \in Lengths : Arrive(length)
    \/ Transmit \/ Enter \/ Receive \/ Acknowledge \/ Send

Spec == Init /\ [][Next]_vars

----------------------------------------------------------------------------
TypeOK ==
    /\ currentPacketPtr \in 0 .. RxBufSize /\ cardPtr \in 0 .. RxBufSize - 1
    /\ unread \in Seq([begin : 0 .. RxBufSize - 1, length : Lengths])
    /\ isr \subseteq {"ROK", "TOK"} /\ status \subseteq isr
    /\ at \in {"out", "receive", "acknowledge"}
    /\ lag \in BOOLEAN /\ missed \in BOOLEAN
    /\ txCur \in 0 .. Slots - 1 /\ cardTx \in 0 .. Slots - 1
    /\ given \subseteq 0 .. Slots - 1 /\ txOrder \in {"kept", "unknown", "overrun"}

(* The driver reads where the card wrote: its pointer is at the oldest     *)
(* packet, or where the next will be.  This is lost only when a packet     *)
(* ends exactly at the end of the ring, where the driver's pointer stays   *)
(* and the card's does not.                                                *)
PointerRight ==
    IF missed THEN currentPacketPtr = RxBufSize
    ELSE currentPacketPtr = IF unread = <<>> THEN cardPtr ELSE Head(unread).begin

(* Receive never reads a packet that is not there, and none is left unread *)
(* for want of an interrupt unless two shared one: the handler takes one,  *)
(* and clears the status of all.                                           *)
NoneForgotten ==
    /\ at = "receive" => missed \/ unread # <<>>
    /\ ~lag /\ ~missed =>
          /\ Len(unread) <= 1
          /\ unread # <<>> => "ROK" \in isr /\ at # "acknowledge"

(* The card's turn and the driver's: the slots given away are those from   *)
(* the card's next to the driver's, if tx_cur happened to begin at 0 and   *)
(* no Send met a slot the card still owned.                                *)
SlotsInTurn ==
    txOrder = "kept" =>
        \E n \in 0 .. Slots :
            /\ given = {(cardTx + k) % Slots : k \in 0 .. n - 1}
            /\ txCur = (cardTx + n) % Slots

RtlInv == TypeOK /\ PointerRight /\ NoneForgotten /\ SlotsInTurn
=============================================================================
