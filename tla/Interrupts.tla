----------------------------- MODULE Interrupts -----------------------------
(***************************************************************************)
(* Interrupt dispatch and task switching: class InterruptManager           *)
(* (src/src/hardwarecommunication/interrupts.cpp, interruptstubs.s) and    *)
(* class TaskManager (src/src/multitasking.cpp), with the two 8259         *)
(* interrupt controllers and the interrupt flag of the CPU they run on.    *)
(*                                                                         *)
(* One CPU runs the boot code, kernelMain, until the timer first finds a   *)
(* task; from then on it runs tasks.  The boot code is a list of           *)
(* instructions, put together from the operators AddTask, Activate and     *)
(* Deactivate, so that an interrupt can fall between any two of them.      *)
(* All gates are interrupt gates: a handler runs with interrupts off, so   *)
(* one interrupt, from entry to iret, is one step.                         *)
(***************************************************************************)
EXTENDS Integers, Sequences, FiniteSets

CONSTANTS
    Task,       \* the tasks the boot code may add
    Boot,       \* the context kernelMain runs in
    Garbage,    \* what a slot of tasks[] holds before anything is stored
    Lines,      \* interrupt lines that devices raise, in 0..15, 0 the timer
    MaxTasks,   \* length of tasks[], 256
    Codes,      \* the boot codes considered, of which the kernel has one
    Laps        \* bound: a task counts its own steps modulo Laps

Timer == 0
Cascade == 2                     \* the slave controller hangs on this line

ASSUME InterruptsAssumption ==
    /\ Boot \notin Task /\ Garbage \notin Task \cup {Boot}
    /\ Lines \subseteq 0 .. 15 \ {Cascade}
    /\ MaxTasks \in Nat \ {0}
    /\ Laps \in Nat \ {0}

VARIABLES
    code,           \* the boot code
    ifl,            \* the interrupt flag of the CPU
    active,         \* ActiveInterruptManager # 0
    irr,            \* lines requested and not yet taken
    isrM, isrS,     \* lines in service at the master and at the slave
    ignored,        \* history: lines that were taken while no manager was active
    tasks, numTasks, currentTask,
    saved,          \* task -> the frame its cpustate points to
    cpu,            \* the running context: whose it is and how far it got
    done,           \* history: how far each context really got
    turns           \* history: turns each task had, less the fewest

pic   == <<irr, isrM, isrS, ignored>>
sched == <<tasks, numTasks, currentTask, saved, turns>>
vars  == <<code, ifl, active, pic, sched, cpu, done>>

Context == Task \cup {Boot, Garbage}
Slots   == 0 .. MaxTasks - 1

----------------------------------------------------------------------------
(* The instructions of the boot code.  `claim' is the test and the         *)
(* increment of AddTask, `store' the write to the slot; `retire' the       *)
(* assignment in Deactivate with the test that guards it.                  *)
AddTask(t) == <<[do |-> "claim", task |-> t], [do |-> "store", task |-> t]>>
Deactivate == <<[do |-> "retire"], [do |-> "cli"]>>
Activate   == Deactivate \o <<[do |-> "install"], [do |-> "sti"]>>

(* The order that the classes are made for: a slot that is claimed is      *)
(* filled next, no task is added twice, and none is once interrupts are on.*)
Orderly(c) ==
    /\ DOMAIN c \subseteq Nat
    /\ \A k \in DOMAIN c :
          /\ c[k].do = "claim" => k + 1 \in DOMAIN c /\ c[k + 1].do = "store"
          /\ c[k].do = "store" => c[k].task \in Task
          /\ c[k].do = "sti" =>
                \A j \in DOMAIN c : j > k => c[j].do \notin {"claim", "store"}
    /\ \A j, k \in DOMAIN c :
          c[j].do = "store" /\ c[k].do = "store" /\ c[j].task = c[k].task => j = k

ASSUME OrderlyAssumption == \A c \in Codes : Orderly(c)

Init ==
    /\ code \in Codes
    /\ ifl = FALSE /\ active = FALSE
    /\ irr = {} /\ isrM = {} /\ isrS = {} /\ ignored = {}
    /\ tasks = [i \in Slots |-> Garbage]
    /\ numTasks = 0 /\ currentTask = -1
    /\ saved = [t \in Task |-> [owner |-> t, pc |-> 0]]      \* Task::Task
    /\ cpu = [owner |-> Boot, pc |-> 1]
    /\ done = [c \in Context |-> IF c = Boot THEN 1 ELSE 0]
    /\ turns = [t \in Task |-> 0]

(* The running context goes on at pc.                                      *)
Goto(pc) ==
    /\ cpu' = [cpu EXCEPT !.pc = pc]
    /\ done' = [done EXCEPT ![cpu.owner] = pc]

At(what) ==
    /\ cpu.owner = Boot
    /\ cpu.pc \in DOMAIN code
    /\ code[cpu.pc].do = what

(* A wrong AddTask for the mutation runs: the limit is off by one.          *)
ClaimOneMore ==
    /\ At("claim")
    /\ IF numTasks > MaxTasks
       THEN numTasks' = numTasks /\ Goto(cpu.pc + 2)
       ELSE numTasks' = numTasks + 1 /\ Goto(cpu.pc + 1)
    /\ UNCHANGED <<code, ifl, active, pic, tasks, currentTask, saved, turns>>

(* AddTask: refuse when the array is full, else take the next slot ...     *)
Claim ==
    /\ At("claim")
    /\ IF numTasks >= MaxTasks
       THEN numTasks' = numTasks /\ Goto(cpu.pc + 2)
       ELSE numTasks' = numTasks + 1 /\ Goto(cpu.pc + 1)
    /\ UNCHANGED <<code, ifl, active, pic, tasks, currentTask, saved, turns>>

(* A wrong AddTask for the mutation runs: tasks[++numTasks].                *)
StoreAbove ==
    /\ At("store")
    /\ tasks' = [tasks EXCEPT ![numTasks] = code[cpu.pc].task]
    /\ Goto(cpu.pc + 1)
    /\ UNCHANGED <<code, ifl, active, pic, numTasks, currentTask, saved, turns>>

(* ... and fill it: the compiler increments before it stores, and only the *)
(* boot code adds tasks, so the slot is still the last one.                *)
Store ==
    /\ At("store")
    /\ tasks' = [tasks EXCEPT ![numTasks - 1] = code[cpu.pc].task]
    /\ Goto(cpu.pc + 1)
    /\ UNCHANGED <<code, ifl, active, pic, numTasks, currentTask, saved, turns>>

(* Deactivate: nothing unless a manager is active.                         *)
Retire ==
    /\ At("retire")
    /\ active' = FALSE
    /\ Goto(IF active THEN cpu.pc + 1 ELSE cpu.pc + 2)
    /\ UNCHANGED <<code, ifl, pic, sched>>

Cli ==
    /\ At("cli")
    /\ ifl' = FALSE
    /\ Goto(cpu.pc + 1)
    /\ UNCHANGED <<code, active, pic, sched>>

Install ==
    /\ At("install")
    /\ active' = TRUE
    /\ Goto(cpu.pc + 1)
    /\ UNCHANGED <<code, ifl, pic, sched>>

Sti ==
    /\ At("sti")
    /\ ifl' = TRUE
    /\ Goto(cpu.pc + 1)
    /\ UNCHANGED <<code, active, pic, sched>>

BootStep == Claim \/ Store \/ Retire \/ Cli \/ Install \/ Sti

(* A task does some of its own work.                                       *)
TaskStep ==
    /\ cpu.owner \in Task
    /\ Goto((cpu.pc + 1) % Laps)
    /\ UNCHANGED <<code, ifl, active, pic, sched>>

----------------------------------------------------------------------------
(* The controllers (not in src/): a line waits in irr until nothing of     *)
(* equal or higher priority is in service; an end of interrupt retires the *)
(* line of highest priority in service.                                    *)
MasterLine(l) == IF l < 8 THEN l ELSE Cascade

Deliverable(l) ==
    /\ l \in irr
    /\ \A k \in isrM : MasterLine(l) < k
    /\ l >= 8 => \A k \in isrS : l < k
    /\ \A k \in irr : MasterLine(k) >= MasterLine(l) /\ (l >= 8 /\ k >= 8 => k >= l)

EndOfInterrupt(isr) == {l \in isr : \E k \in isr : k < l}

Raise(l) ==
    /\ l \notin irr
    /\ irr' = irr \cup {l}
    /\ UNCHANGED <<code, ifl, active, isrM, isrS, ignored, sched, cpu, done>>

(* The CPU takes line l.                                                   *)
TakenM(l) == isrM \cup {MasterLine(l)}
TakenS(l) == IF l >= 8 THEN isrS \cup {l} ELSE isrS

(* Wrong acknowledgements for the mutation runs: an off-by-one on the first *)
(* line of the slave, and no slave at all.                                 *)
AckSlaveAfter8(l) == 8 < l /\ l < 16
AckSlaveNever(l)  == FALSE

(* Which controllers DoHandleInterrupt acknowledges for line l.            *)
AckMaster(l) == 0 <= l /\ l < 16
AckSlave(l)  == AckMaster(l) /\ 8 <= l

(* Wrong successors for the mutation runs: wrap to slot 1, never move.      *)
WrapToOne == IF currentTask + 1 >= numTasks THEN 1 % numTasks ELSE currentTask + 1
StayPut   == IF currentTask < 0 THEN 0 ELSE currentTask

(* The index Schedule moves on to.                                         *)
Successor == IF currentTask + 1 >= numTasks
             THEN (currentTask + 1) % numTasks
             ELSE currentTask + 1

TurnsCounted == 2    \* bound: the history counts a lead of two turns as two or more

(* One more turn for t, counted from the task that had the fewest.         *)
Credit(t) ==
    LET more == [turns EXCEPT ![t] = IF @ < TurnsCounted THEN @ + 1 ELSE @]
        in   == {tasks[i] : i \in 0 .. numTasks - 1} \cap Task
    IN  IF \A u \in in : more[u] > 0
        THEN [u \in Task |-> IF u \in in THEN more[u] - 1 ELSE more[u]]
        ELSE more

(* A wrong Schedule for the mutation runs: the interrupted frame is not     *)
(* recorded.                                                               *)
ScheduleNoSave(frame) ==
    IF numTasks <= 0
    THEN cpu' = frame /\ UNCHANGED <<saved, currentTask, turns>>
    ELSE /\ UNCHANGED saved
         /\ currentTask' = Successor
         /\ cpu' = saved[tasks[Successor]]
         /\ turns' = Credit(tasks[Successor])

(* TaskManager::Schedule on the frame of the interrupted context.  The     *)
(* very first switch finds currentTask = -1 and drops the boot context.    *)
Schedule(frame) ==
    IF numTasks <= 0
    THEN cpu' = frame /\ UNCHANGED <<saved, currentTask, turns>>
    ELSE /\ saved' = IF currentTask >= 0
                     THEN [saved EXCEPT ![tasks[currentTask]] = frame]
                     ELSE saved
         /\ currentTask' = Successor
         /\ LET t == tasks[Successor] IN
               IF t \in Task
               THEN cpu' = saved'[t] /\ turns' = Credit(t)
               ELSE cpu' = [owner |-> Garbage, pc |-> 0] /\ UNCHANGED turns

(* An interrupt with a manager active: HandleInterrupt, DoHandleInterrupt, *)
(* iret.  Whether a driver has registered a handler makes no difference to *)
(* the state kept here.                                                    *)
Handle(l) ==
    /\ ifl /\ active /\ Deliverable(l)
    /\ irr' = irr \ {l}
    /\ IF l = Timer
       THEN Schedule(cpu)
       ELSE UNCHANGED <<cpu, saved, currentTask, turns>>
    /\ isrM' = IF AckMaster(l) THEN EndOfInterrupt(TakenM(l)) ELSE TakenM(l)
    /\ isrS' = IF AckSlave(l) THEN EndOfInterrupt(TakenS(l)) ELSE TakenS(l)
    /\ UNCHANGED <<code, ifl, active, ignored, tasks, numTasks, done>>

(* An interrupt with no manager active: HandleInterrupt returns at once.   *)
Ignore(l) ==
    /\ ifl /\ ~active /\ Deliverable(l)
    /\ irr' = irr \ {l}
    /\ isrM' = TakenM(l) /\ isrS' = TakenS(l)
    /\ ignored' = ignored \cup {l}
    /\ UNCHANGED <<code, ifl, active, sched, cpu, done>>

Next ==
    \/ BootStep
    \/ TaskStep
    \/ \E l \in Lines : Raise(l) \/ Handle(l) \/ Ignore(l)

(* The CPU keeps executing and the clock keeps ticking.  Strong fairness   *)
(* of an interrupt line: the timer, which has priority over every other    *)
(* line, leaves gaps between its ticks, so a line that waits is           *)
(* deliverable again and again.                                            *)
Fairness ==
    /\ WF_vars(BootStep)
    /\ WF_vars(TaskStep)
    /\ WF_vars(Raise(Timer))
    /\ \A l \in Lines : SF_vars(Handle(l))

Spec == Init /\ [][Next]_vars /\ Fairness

----------------------------------------------------------------------------
Frame == [owner : Context, pc : Nat]

TypeOK ==
    /\ code \in Codes
    /\ ifl \in BOOLEAN /\ active \in BOOLEAN
    /\ irr \subseteq Lines /\ ignored \subseteq Lines
    /\ isrM \subseteq 0 .. 7 /\ isrS \subseteq 8 .. 15
    /\ numTasks \in 0 .. MaxTasks
    /\ tasks \in [Slots -> Task \cup {Garbage}]
    /\ currentTask \in -1 .. numTasks - 1
    /\ saved \in [Task -> Frame]
    /\ cpu \in Frame
    /\ done \in [Context -> Nat]
    /\ turns \in [Task -> Nat]

(* "hardware interrupts must be acknowledged" (interrupts.cpp:195): when   *)
(* the CPU is back from an interrupt no line is left in service at either  *)
(* controller, where it would block every line of lower priority for good. *)
AllAcknowledged == isrM = {} /\ isrS = {}

(* An interrupt that meets an active manager is acknowledged before the    *)
(* iret, even while an earlier one is stuck: a line only stays in service  *)
(* if it came while Deactivate had cleared ActiveInterruptManager but not  *)
(* yet the interrupt flag (interrupts.cpp:164-165, 171-173).               *)
StuckOnlyIfIgnored ==
    /\ isrM \subseteq {MasterLine(l) : l \in ignored}
    /\ isrS \subseteq ignored

InTable(t) == \E i \in 0 .. numTasks - 1 : tasks[i] = t

(* Schedule loses no work and replays none: the CPU continues the running  *)
(* context where that context stopped, and the frame kept for every task   *)
(* that waits is the task's own, at the point it was interrupted.          *)
ContextIntegrity ==
    /\ cpu.pc = done[cpu.owner]
    /\ \A i \in 0 .. numTasks - 1 :
          tasks[i] \in Task /\ i # currentTask =>
              saved[tasks[i]] = [owner |-> tasks[i], pc |-> done[tasks[i]]]

(* Once the timer has started a task the CPU runs the task currentTask     *)
(* names, out of a slot that AddTask has filled, and never the boot code   *)
(* again.                                                                  *)
RunsCurrent ==
    currentTask >= 0 => cpu.owner = tasks[currentTask] /\ cpu.owner \in Task

(* What task switching keeps: well-typed tables, the running task in its   *)
(* slot, and every context whole.                                          *)
TaskInv == TypeOK /\ RunsCurrent /\ ContextIntegrity

(* Round robin: no task ever has had two turns more than another.          *)
EqualTurns == \A t \in Task : turns[t] <= 1

(* A line that was ignored is in service for good and silences line l.  A  *)
(* line of the slave silences all lines of the slave, at the master.       *)
Silenced(l) == \E k \in ignored : MasterLine(k) <= MasterLine(l)

(* Every task in the table gets the CPU again and again, unless a tick of  *)
(* the timer was ignored.                                                  *)
EveryTaskRuns == \A t \in Task :
    [](InTable(t) => <>(cpu.owner = t \/ Silenced(Timer)))

(* Every request of a device reaches its handler, unless that line or one  *)
(* of higher priority was ignored.                                         *)
EveryLineServed == \A l \in Lines : l \in irr ~> (l \notin irr \/ Silenced(l))
=============================================================================
