---------------------------- MODULE MCInterrupts ----------------------------
(***************************************************************************)
(* Boot sequences for Interrupts.tla.                                      *)
(***************************************************************************)
EXTENDS Interrupts

CONSTANTS t1, t2, t3, t4

(* The order the classes are made for: fill the table, then Activate.  The *)
(* fourth task does not fit a table of three.                              *)
TasksFirst ==
    AddTask(t1) \o AddTask(t2) \o AddTask(t3) \o AddTask(t4) \o Activate

(* Activate while a manager is active already, which it provides for       *)
(* (interrupts.cpp:153-154).                                               *)
TasksThenActivateTwice == AddTask(t1) \o AddTask(t2) \o Activate \o Activate

BothCodes == {TasksFirst, TasksThenActivateTwice}

TwiceOnly == {TasksThenActivateTwice}
=============================================================================
