------------------------------- MODULE HeapIrq -------------------------------
(***************************************************************************)
(* The heap of Heap.tla with the two parties that use it in the kernel as  *)
(* built: the shell (ReadLine's malloc, the free in Shell::Next), which    *)
(* runs with interrupts enabled, and the interrupt handler of the RTL8139  *)
(* network card, whose Receive mallocs a copy of every packet and keeps    *)
(* it.  No code disables interrupts around the heap, so a packet may       *)
(* arrive while the shell is inside malloc.                                *)
(*                                                                         *)
(* Only one of the places where that can happen is modelled: between the   *)
(* search loop (lines 41-43) and the writes that follow it (lines 48-63).  *)
(***************************************************************************)
EXTENDS Heap

CONSTANTS
    LineSize,       \* what ReadLine asks for, 255; a member of Requests
    PacketSizes     \* lengths of received packets; a subset of Requests

VARIABLES
    found,          \* `result' of the shell's malloc, Null outside malloc
    lines, copies   \* headers of the blocks the shell and the driver hold

irqVars == <<chunk, found, lines, copies>>

IrqInit ==
    /\ Init
    /\ found = Null
    /\ lines = {} /\ copies = {}

(* The shell's malloc: the search ...                                      *)
ShellSearch ==
    /\ found = Null /\ lines = {}
    /\ \E c \in Heads : IsFirstFit(c, LineSize) /\ found' = c
    /\ UNCHANGED <<chunk, lines, copies>>

(* ... and the rest, on whatever the chunk is by then.                     *)
ShellCarve ==
    /\ found # Null
    /\ chunk' = Carve(chunk, found, LineSize)
    /\ lines' = lines \cup {found}
    /\ found' = Null
    /\ UNCHANGED copies

(* Shell::Next frees the line.                                             *)
ShellFree ==
    /\ found = Null
    /\ \E c \in lines : Free(c) /\ lines' = lines \ {c}
    /\ UNCHANGED <<found, copies>>

(* The interrupt: RTL8139::Receive mallocs and never frees.                *)
Receive ==
    /\ \E n \in PacketSizes, c \in Heads :
          Malloc(n, c) /\ copies' = copies \cup {c}
    /\ UNCHANGED <<found, lines>>

IrqNext == ShellSearch \/ ShellCarve \/ ShellFree \/ Receive

IrqSpec == IrqInit /\ [][IrqNext]_irqVars

(* "be sure to make a copy of the packet, insteading of using the buffer"  *)
(* (rtl8139.cpp:136): the copy is memory of its own, which nothing else    *)
(* that runs will write over.                                              *)
CopyIsPrivate == copies \cap lines = {}
=============================================================================
