------------------------------ MODULE Vectors ------------------------------
(***************************************************************************)
(* From the vector to iret: the descriptor table that InterruptManager's   *)
(* constructor fills (src/src/hardwarecommunication/interrupts.cpp) and    *)
(* the stubs it points to (interruptstubs.s), word by word on the stack.   *)
(* Interrupts.tla takes an interrupt for one step; here it is many.        *)
(***************************************************************************)
EXTENDS Integers, Sequences, SequencesExt

CONSTANT Vectors    \* those that occur, in 0 .. 255

VARIABLES
    vector,         \* the vector taken
    stack,          \* the words on the stack, the top first
    cpuRegs,        \* the general registers
    resumed,        \* what iret has loaded: eip, cs, eflags
    number,         \* what HandleInterrupt was called with
    stage           \* the next part of the path

vars == <<vector, stack, cpuRegs, resumed, number, stage>>

HardwareInterruptOffset == 32    \* as kernelMain constructs the manager
IrqBase == 32                    \* .set IRQ_BASE, 0x20

Interrupted == <<"eip", "cs", "eflags">>
Below == <<"local", "return">>   \* the stack of the interrupted code
Names == <<"eax", "ebx", "ecx", "edx", "esi", "edi", "ebp">>

(* The frame of a task that has not run yet (Task::Task).  Its error, esp  *)
(* and ss are not set.                                                     *)
Fresh == [k \in 1 .. 7 |-> "0"] \o <<"?", "entrypoint", "cs", "0x202", "?", "?">>

(* The constructor points every gate to InterruptIgnore, then those of the *)
(* exceptions and of the hardware interrupts to their stubs.               *)
Gate(v) ==
    IF v \in 0 .. 19 THEN "HandleException"
    ELSE IF v \in HardwareInterruptOffset .. HardwareInterruptOffset + 15
    THEN "HandleInterruptRequest"
    ELSE "InterruptIgnore"

(* What a line of the PICs raises: the constructor tells either of them    *)
(* where its eight begin, and drivers register for offset + line.          *)
VectorOf(line) ==
    IF line < 8 THEN HardwareInterruptOffset + line
    ELSE (HardwareInterruptOffset + 8) + (line - 8)

(* The CPU pushes an error code for some exceptions (x86 manual).          *)
HasErrorCode(v) == v \in {8, 10, 11, 12, 13, 14, 17, 21, 29, 30}

Init ==
    /\ vector \in Vectors
    /\ stack = (IF HasErrorCode(vector) THEN <<"error">> ELSE <<>>) \o Interrupted \o Below
    /\ cpuRegs = Names /\ resumed = <<>> /\ number = -1
    /\ stage = Gate(vector)

(* A wrong stub for the mutation runs: no word for the error code.          *)
RequestUnpadded ==
    /\ stage = "HandleInterruptRequest" /\ stage' = "int_bottom"
    /\ number' = (vector - HardwareInterruptOffset) + IrqBase
    /\ UNCHANGED <<vector, stack, cpuRegs, resumed>>

(* The stub of line n stores n + IRQ_BASE and pushes a word where an       *)
(* exception has its error code, ...                                       *)
HandleInterruptRequest ==
    /\ stage = "HandleInterruptRequest" /\ stage' = "int_bottom"
    /\ number' = (vector - HardwareInterruptOffset) + IrqBase
    /\ stack' = <<"0">> \o stack
    /\ UNCHANGED <<vector, cpuRegs, resumed>>

(* ... that of an exception pushes none, whether there is one or not.      *)
HandleException ==
    /\ stage = "HandleException" /\ stage' = "int_bottom"
    /\ number' = vector
    /\ UNCHANGED <<vector, stack, cpuRegs, resumed>>

(* int_bottom saves the registers and calls HandleInterrupt, ...           *)
Bottom ==
    /\ stage = "int_bottom" /\ stage' = "call"
    /\ stack' = cpuRegs \o stack
    /\ UNCHANGED <<vector, cpuRegs, resumed, number>>

(* ... which changes them all, and returns the same stack or, from the     *)
(* timer, that of another task, ...                                        *)
Call ==
    /\ stage = "call" /\ stage' = "restore"
    /\ cpuRegs' = [k \in 1 .. 7 |-> "?"]
    /\ \/ UNCHANGED stack
       \/ vector = HardwareInterruptOffset /\ stack' = Fresh
    /\ UNCHANGED <<vector, resumed, number>>

(* ... restores the registers and drops the word above eip.                *)
Restore ==
    /\ stage = "restore" /\ stage' = "InterruptIgnore"
    /\ cpuRegs' = SubSeq(stack, 1, 7)
    /\ stack' = SubSeq(stack, 9, Len(stack))
    /\ UNCHANGED <<vector, resumed, number>>

(* InterruptIgnore, where the common path ends, too.                       *)
Iret ==
    /\ stage = "InterruptIgnore" /\ stage' = "done"
    /\ resumed' = SubSeq(stack, 1, 3)
    /\ stack' = SubSeq(stack, 4, Len(stack))
    /\ UNCHANGED <<vector, cpuRegs, number>>

Returned == stage = "done" /\ UNCHANGED vars

Next ==
    \/ HandleInterruptRequest \/ HandleException
    \/ Bottom \/ Call \/ Restore \/ Iret \/ Returned

Spec == Init /\ [][Next]_vars

----------------------------------------------------------------------------
(* After iret the interrupted code goes on with its registers, flags and   *)
(* stack as they were, or a new task begins at its entry point with its    *)
(* registers 0 and interrupts on.                                          *)
GoesOn == resumed = Interrupted /\ stack = Below /\ cpuRegs = Names

Begins ==
    /\ vector = HardwareInterruptOffset
    /\ resumed = <<"entrypoint", "cs", "0x202">> /\ cpuRegs = [k \in 1 .. 7 |-> "0"]

(* So it is for every hardware interrupt and every ignored vector without  *)
(* an error code.  Of the exceptions it is so only for those with an error *)
(* code; the others lose their eip, and iret takes cs for it.              *)
Unbalanced ==
    IF Gate(vector) = "HandleException" THEN ~HasErrorCode(vector)
    ELSE Gate(vector) = "InterruptIgnore" /\ HasErrorCode(vector)

ReturnsRight == stage = "done" =>
    IF Unbalanced THEN Head(resumed) \in {"cs", "error"} ELSE GoesOn \/ Begins

(* HandleInterrupt is told of the vector that was taken and of none that   *)
(* is ignored; for a hardware interrupt it is the number that the driver   *)
(* of the line has registered for.                                         *)
NumberRight ==
    stage \in {"int_bottom", "call", "restore"} =>
        /\ number = vector
        /\ \A line \in 0 .. 15 : vector = VectorOf(line) =>
              number = HardwareInterruptOffset + line

VectorsInv == ReturnsRight /\ NumberRight
=============================================================================
