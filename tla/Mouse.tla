------------------------------- MODULE Mouse -------------------------------
(***************************************************************************)
(* The mouse driver (src/src/drivers/mouse.cpp) and the PS/2 port.  The    *)
(* mouse sends packets of three bytes, of which the first holds the        *)
(* buttons.  Of a byte only the three bits that the driver compares with   *)
(* the buttons are kept, as the set of the bits that are set.  The driver  *)
(* has an event handler, as in kernelMain.                                 *)
(***************************************************************************)
EXTENDS Integers, Sequences

CONSTANTS
    Bits,           \* the buttons, bits 0 to 2 of the first byte
    AckBits         \* those of them in 0xFA, the answer to a command

(* What the constants must satisfy.                                        *)
ConstantsOK == AckBits \subseteq Bits

VARIABLES
    offset, buffer, buttons,    \* the driver's
    port,           \* the controller's output buffer: one byte or none
    packet,         \* the bytes of its packet that the mouse has yet to send
    phase,          \* "commanded", then "active" when Activate has returned
    ackLate,        \* history: Activate's last Read came before the answer
    down,           \* history: the buttons that the handler was told of
    pressed         \* history: the buttons as the mouse last reported them

driver == <<offset, buffer, buttons, down>>
vars == <<driver, port, packet, phase, ackLate, pressed>>

Bytes == SUBSET Bits

(* Activate up to its last statement: it has reset the driver and sent the *)
(* command 0xF4, which the mouse is going to acknowledge.                  *)
Init ==
    /\ offset = 0 /\ buttons = {} /\ down = {} /\ pressed = {}
    /\ buffer = [i \in 0 .. 2 |-> {}]
    /\ port = <<>> /\ packet = <<AckBits>>
    /\ phase = "commanded" /\ ackLate = FALSE

(* The mouse (not in src/) hands the controller its next byte once the     *)
(* last one has been read, ...                                             *)
Deliver ==
    /\ port = <<>> /\ packet # <<>>
    /\ port' = <<Head(packet)>> /\ packet' = Tail(packet)
    /\ UNCHANGED <<driver, phase, ackLate, pressed>>

(* ... and makes up a packet whenever it moves or a button changes.        *)
Report(now, dx) ==
    /\ packet = <<>>
    /\ packet' = <<now, dx, {}>>
    /\ pressed' = now
    /\ UNCHANGED <<driver, port, phase, ackLate>>

(* Activate's dataport.Read(), which does not wait for the answer.         *)
ReadAck ==
    /\ phase = "commanded"
    /\ phase' = "active"
    /\ port' = <<>>
    /\ ackLate' = (port = <<>>)
    /\ UNCHANGED <<driver, packet, pressed>>

(* A wrong EndPacket for the mutation runs: the events do not move the     *)
(* state they are computed from.                                           *)
EndPacketStale(first) ==
    /\ down' = (down \ (buttons \ first)) \cup (first \ buttons)
    /\ UNCHANGED buttons

(* OnMouseUp for the buttons that are no longer pressed, OnMouseDown for   *)
(* those that are now.                                                     *)
EndPacket(first) ==
    /\ down' = (down \ (buttons \ first)) \cup (first \ buttons)
    /\ buttons' = first

(* HandleInterrupt, when the byte in the port is the mouse's.  A packet is *)
(* complete when offset comes round.                                       *)
HandleInterrupt ==
    /\ phase = "active" /\ port # <<>>
    /\ buffer' = [buffer EXCEPT ![offset] = Head(port)]
    /\ offset' = (offset + 1) % 3
    /\ IF offset' = 0 THEN EndPacket(buffer'[0]) ELSE UNCHANGED <<buttons, down>>
    /\ port' = <<>>
    /\ UNCHANGED <<packet, phase, ackLate, pressed>>

Next ==
    \/ Deliver
    \/ \E now, dx \in Bytes : Report(now, dx)
    \/ ReadAck
    \/ HandleInterrupt

Spec == Init /\ [][Next]_vars

----------------------------------------------------------------------------
TypeOK ==
    /\ offset \in 0 .. 2 /\ buffer \in [0 .. 2 -> Bytes]
    /\ buttons \in Bytes /\ down \in Bytes /\ pressed \in Bytes
    /\ port \in Seq(Bytes) /\ Len(port) <= 1
    /\ packet \in Seq(Bytes) /\ Len(packet) <= 3
    /\ phase \in {"commanded", "active"} /\ ackLate \in BOOLEAN

(* The driver counts the bytes of a packet with the mouse, except that an  *)
(* answer which Activate did not wait for is taken for the first byte of a *)
(* packet, and every later packet is read one byte late.                   *)
UnderWay == Len(port) + Len(packet)

InStep ==
    phase = "active" =>
        offset = (6 - UnderWay + (IF ackLate THEN 1 ELSE 0)) % 3

(* In step, the handler was told exactly of the buttons that are pressed   *)
(* now, when the last packet has come; and out of step it is still never   *)
(* told twice in a row that one button went down or up.                    *)
ButtonsRight ==
    /\ down = buttons
    /\ phase = "active" /\ ~ackLate /\ UnderWay = 0 => down = pressed

MouseInv == TypeOK /\ InStep /\ ButtonsRight
=============================================================================
