-------------------------- MODULE InterruptsProofs --------------------------
(***************************************************************************)
(* Proofs about Interrupts.tla, for every orderly boot code, every set of  *)
(* tasks and of interrupt lines, and every length of the table: first that *)
(* interrupts are acknowledged, then that task switching keeps every       *)
(* context whole, then that it gives every task its turn.                  *)
(***************************************************************************)
EXTENDS Interrupts, TLAPS

(* The inductive invariant about acknowledgement.                          *)
AckInv == ignored \subseteq Lines /\ StuckOnlyIfIgnored

----------------------------------------------------------------------------
(* Lines have numbers, on the master as well.                              *)
LEMMA LineNumbers == ASSUME NEW l \in Lines
                     PROVE  l \in 0 .. 15 /\ MasterLine(l) \in 0 .. 7
<1>1. l \in 0 .. 15
  BY InterruptsAssumption
<1>2. QED
  BY <1>1 DEF MasterLine, Cascade

(* An end of interrupt retires the line just taken, because that one has   *)
(* priority over all that are in service.                                  *)
LEMMA EndsTheTaken ==
    ASSUME NEW isr \in SUBSET Int, NEW m \in Int, \A k \in isr : m < k
    PROVE  EndOfInterrupt(isr \cup {m}) \subseteq isr
<1>1. \A k \in isr \cup {m} : ~(k < m)
  OBVIOUS
<1>2. QED
  BY <1>1 DEF EndOfInterrupt

(* What is in service has a number.                                        *)
LEMMA InServiceNumbers == ASSUME AckInv PROVE isrM \subseteq Int /\ isrS \subseteq Int
<1>1. \A l \in ignored : l \in Int /\ MasterLine(l) \in Int
  BY LineNumbers DEF AckInv
<1>2. QED
  BY <1>1 DEF AckInv, StuckOnlyIfIgnored

(* With an active manager an interrupt leaves nothing new in service.      *)
LEMMA HandleAcknowledges ==
    ASSUME AckInv, NEW l \in Lines, Handle(l)
    PROVE  isrM' \subseteq isrM /\ isrS' \subseteq isrS
<1>1. l \in 0 .. 15 /\ MasterLine(l) \in Int
  BY LineNumbers
<1>2. isrM \in SUBSET Int /\ isrS \in SUBSET Int
  BY InServiceNumbers
<1>3. /\ \A k \in isrM : MasterLine(l) < k
      /\ l >= 8 => \A k \in isrS : l < k
  BY DEF Handle, Deliverable
<1>4. isrM' = EndOfInterrupt(isrM \cup {MasterLine(l)})
  BY <1>1 DEF Handle, AckMaster, TakenM
<1>5. isrM' \subseteq isrM
  BY <1>1, <1>2, <1>3, <1>4, EndsTheTaken
<1>6. CASE l >= 8
  <2>1. isrS' = EndOfInterrupt(isrS \cup {l})
    BY <1>1, <1>6 DEF Handle, AckMaster, AckSlave, TakenS
  <2>2. l \in Int
    BY <1>1
  <2>3. isrS' \subseteq isrS
    BY <1>2, <1>3, <1>6, <2>1, <2>2, EndsTheTaken
  <2>4. QED
    BY <1>5, <2>3
<1>7. CASE ~(l >= 8)
  <2>1. isrS' = isrS
    BY <1>1, <1>7 DEF Handle, AckMaster, AckSlave, TakenS
  <2>2. QED
    BY <1>5, <2>1
<1>8. QED
  BY <1>6, <1>7

(* With none, what stays in service is the line that is then ignored.      *)
LEMMA IgnoreKeeps ==
    ASSUME AckInv, NEW l \in Lines, Ignore(l)
    PROVE  AckInv'
<1>1. /\ isrM' = isrM \cup {MasterLine(l)}
      /\ isrS' \subseteq isrS \cup {l}
      /\ ignored' = ignored \cup {l}
  BY DEF Ignore, TakenM, TakenS
<1>2. ignored' \subseteq Lines
  BY <1>1 DEF AckInv
<1>3. isrM' \subseteq {MasterLine(k) : k \in ignored'}
  BY <1>1 DEF AckInv, StuckOnlyIfIgnored
<1>4. isrS' \subseteq ignored'
  BY <1>1 DEF AckInv, StuckOnlyIfIgnored
<1>5. QED
  BY <1>2, <1>3, <1>4 DEF AckInv, StuckOnlyIfIgnored

(* Every step keeps the invariant.                                         *)
LEMMA AckStep == AckInv /\ [Next]_vars => AckInv'
<1> SUFFICES ASSUME AckInv, [Next]_vars PROVE AckInv'
  OBVIOUS
<1>1. ASSUME UNCHANGED <<isrM, isrS, ignored>> PROVE AckInv'
  BY <1>1 DEF AckInv, StuckOnlyIfIgnored
<1>2. CASE BootStep
  <2>1. UNCHANGED <<isrM, isrS, ignored>>
    BY <1>2 DEF BootStep, Claim, Store, Retire, Cli, Install, Sti, pic
  <2>2. QED
    BY <2>1, <1>1
<1>3. CASE TaskStep
  BY <1>1, <1>3 DEF TaskStep, pic
<1>4. ASSUME NEW l \in Lines, Raise(l) PROVE AckInv'
  BY <1>1, <1>4 DEF Raise
<1>5. ASSUME NEW l \in Lines, Handle(l) PROVE AckInv'
  <2>1. isrM' \subseteq isrM /\ isrS' \subseteq isrS
    BY <1>5, HandleAcknowledges
  <2>2. ignored' = ignored
    BY <1>5 DEF Handle
  <2>3. QED
    BY <2>1, <2>2 DEF AckInv, StuckOnlyIfIgnored
<1>6. ASSUME NEW l \in Lines, Ignore(l) PROVE AckInv'
  BY <1>6, IgnoreKeeps
<1>7. CASE UNCHANGED vars
  BY <1>1, <1>7 DEF vars, pic
<1>8. QED
  BY <1>2, <1>3, <1>4, <1>5, <1>6, <1>7 DEF Next

----------------------------------------------------------------------------
(* Whatever the boot code does, only a line that was taken while no        *)
(* manager was active is ever left in service.                             *)
THEOREM Acknowledgement == Spec => []StuckOnlyIfIgnored
<1>1. Init => AckInv
  BY DEF Init, AckInv, StuckOnlyIfIgnored
<1>2. AckInv => StuckOnlyIfIgnored
  BY DEF AckInv
<1>3. QED
  BY <1>1, <1>2, AckStep, PTL DEF Spec

(* So a manager that is never deactivated acknowledges everything.         *)
THEOREM AcknowledgedUnlessIgnored == Spec => [](ignored = {} => AllAcknowledged)
<1>1. StuckOnlyIfIgnored => (ignored = {} => AllAcknowledged)
  BY DEF StuckOnlyIfIgnored, AllAcknowledged
<1>2. QED
  BY <1>1, Acknowledgement, PTL

----------------------------------------------------------------------------
USE InterruptsAssumption, OrderlyAssumption

(* The boot code runs until the timer first finds a task, then tasks do.   *)
BootFirst ==
    /\ cpu.owner = Boot <=> currentTask = -1
    /\ cpu.owner \in Task \cup {Boot}

(* Where each context stopped.                                             *)
EachWhole ==
    /\ cpu.pc = done[cpu.owner]
    /\ \A t \in Task : t # cpu.owner => saved[t] = [owner |-> t, pc |-> done[t]]

(* Slot i has been filled, by an instruction that the boot code has passed.*)
Filled(i) == \E k \in DOMAIN code :
    /\ code[k].do = "store" /\ code[k].task = tasks[i]
    /\ cpu.owner = Boot => k < cpu.pc

(* Between the two instructions of AddTask the last slot is not filled.    *)
Full == IF At("store") THEN numTasks - 1 ELSE numTasks

(* No task is in the table twice.                                          *)
TableInv ==
    /\ \A i \in 0 .. Full - 1 : Filled(i)
    /\ \A i, j \in 0 .. Full - 1 : tasks[i] = tasks[j] => i = j

(* With interrupts on, no task is added any more.                          *)
NoneAdded ==
    ifl /\ cpu.owner = Boot =>
        \A k \in DOMAIN code : k >= cpu.pc => code[k].do \notin {"claim", "store"}

(* The inductive invariant.                                                *)
SwitchInv ==
    TypeOK /\ RunsCurrent /\ BootFirst /\ EachWhole /\ TableInv /\ NoneAdded

----------------------------------------------------------------------------
(* Arithmetic of the indices.                                              *)
LEMMA SuccessorInTable ==
    ASSUME TypeOK, numTasks > 0
    PROVE  Successor \in 0 .. numTasks - 1
<1>1. numTasks \in Nat \ {0} /\ currentTask \in Int
  BY DEF TypeOK
<1>2. numTasks % numTasks = 0
  BY <1>1
<1>3. CASE currentTask + 1 >= numTasks
  <2>1. currentTask + 1 = numTasks
    BY <1>1, <1>3 DEF TypeOK
  <2> QED
    BY <1>1, <1>2, <1>3, <2>1 DEF Successor
<1> QED
  BY <1>1, <1>3 DEF Successor, TypeOK

(* Indices below one less are below the whole.                             *)
LEMMA FewerFull ==
    ASSUME NEW n \in Nat, NEW m \in {n - 1, n}, NEW i \in 0 .. m - 1
    PROVE  i \in 0 .. n - 1
<1>1. m = n - 1 \/ m = n
  OBVIOUS
<1> QED
  BY <1>1

(* The work of a task is counted in numbers.                               *)
LEMMA LapInNat == ASSUME NEW n \in Nat PROVE (n + 1) % Laps \in Nat
OBVIOUS

(* Turns are counted in numbers.                                           *)
LEMMA CreditTyped ==
    ASSUME turns \in [Task -> Nat], NEW t \in Task
    PROVE  Credit(t) \in [Task -> Nat]
<1> DEFINE more == [turns EXCEPT ![t] = IF @ < TurnsCounted THEN @ + 1 ELSE @]
<1> DEFINE in == {tasks[i] : i \in 0 .. numTasks - 1} \cap Task
<1>1. more \in [Task -> Nat]
  BY DEF TurnsCounted
<1>2. Credit(t) = IF \A u \in in : more[u] > 0
                  THEN [u \in Task |-> IF u \in in THEN more[u] - 1 ELSE more[u]]
                  ELSE more
  BY DEF Credit
<1> HIDE DEF more, in
<1>3. CASE \A u \in in : more[u] > 0
  BY <1>1, <1>2, <1>3
<1>4. CASE ~ \A u \in in : more[u] > 0
  BY <1>1, <1>2, <1>4
<1> QED
  BY <1>3, <1>4

----------------------------------------------------------------------------
(* The running context moves, the others stay whole.                       *)
LEMMA GotoWhole ==
    ASSUME SwitchInv, NEW n \in Nat, Goto(n), UNCHANGED saved
    PROVE  /\ cpu' = [owner |-> cpu.owner, pc |-> n]
           /\ cpu' \in Frame /\ done' \in [Context -> Nat]
           /\ EachWhole'
<1>1. cpu \in Frame /\ done \in [Context -> Nat]
  BY DEF SwitchInv, TypeOK
<1>2. cpu' = [owner |-> cpu.owner, pc |-> n] /\ cpu.owner \in Context
  BY <1>1 DEF Goto, Frame
<1>3. done' = [done EXCEPT ![cpu.owner] = n]
  BY DEF Goto
<1>4. done' \in [Context -> Nat] /\ done'[cpu.owner] = n
  BY <1>1, <1>2, <1>3
<1>5. \A t \in Task : t # cpu.owner => done'[t] = done[t]
  BY <1>1, <1>3 DEF Context
<1>6. EachWhole'
  BY <1>2, <1>4, <1>5 DEF SwitchInv, EachWhole
<1> QED
  BY <1>2, <1>4, <1>6 DEF Frame

(* Instructions of the boot code that leave the table alone.               *)
LEMMA BootMoves ==
    ASSUME SwitchInv, cpu.owner = Boot, ~At("store"),
           NEW n \in Nat, n > cpu.pc, Goto(n),
           UNCHANGED <<code, pic, sched>>,
           ifl' \in BOOLEAN, active' \in BOOLEAN, NoneAdded'
    PROVE  SwitchInv'
<1>1. /\ cpu' = [owner |-> Boot, pc |-> n]
      /\ cpu' \in Frame /\ done' \in [Context -> Nat]
      /\ EachWhole'
  BY GotoWhole DEF sched
<1>2. TypeOK'
  BY <1>1 DEF SwitchInv, TypeOK, sched, pic
<1>3. cpu.pc \in Nat /\ numTasks \in Nat
  BY DEF SwitchInv, TypeOK, Frame
<1>4. RunsCurrent' /\ BootFirst'
  BY <1>1 DEF SwitchInv, RunsCurrent, BootFirst, sched
<1>5. TableInv'
  <2>1. ASSUME NEW i, Filled(i) PROVE Filled(i)'
    <3>1. PICK k \in DOMAIN code :
             code[k].do = "store" /\ code[k].task = tasks[i] /\ k < cpu.pc
      BY <2>1 DEF Filled
    <3>2. DOMAIN code \subseteq Nat
      BY DEF SwitchInv, TypeOK, Orderly
    <3>3. k < n
      BY <1>3, <3>1, <3>2
    <3> QED
      BY <1>1, <3>1, <3>3 DEF Filled, sched
  <2>2. Full' \in {numTasks - 1, numTasks} /\ Full = numTasks
    BY DEF Full, sched
  <2>3. \A i \in 0 .. Full' - 1 : i \in 0 .. Full - 1
    BY <1>3, <2>2, FewerFull
  <2>4. (\A i \in 0 .. Full - 1 : Filled(i))'
    BY <2>1, <2>3 DEF SwitchInv, TableInv
  <2>5. (\A i, j \in 0 .. Full - 1 : tasks[i] = tasks[j] => i = j)'
    BY <2>3 DEF SwitchInv, TableInv, sched
  <2> QED
    BY <2>4, <2>5 DEF TableInv
<1> QED
  BY <1>1, <1>2, <1>4, <1>5 DEF SwitchInv

(* Going on in the boot code adds no AddTask ahead.                        *)
LEMMA NoneAddedLater ==
    ASSUME SwitchInv, cpu.owner = Boot, NEW n \in Nat, n > cpu.pc,
           cpu' = [owner |-> Boot, pc |-> n], UNCHANGED code, ifl' => ifl
    PROVE  NoneAdded'
<1>1. cpu.pc \in Nat /\ DOMAIN code \subseteq Nat
  BY DEF SwitchInv, TypeOK, Frame, Orderly
<1> QED
  BY <1>1 DEF SwitchInv, NoneAdded

(* Each instruction of the boot code keeps the invariant.                  *)
LEMMA BootKeeps == ASSUME SwitchInv, BootStep PROVE SwitchInv'
<1> DEFINE pc == cpu.pc
<1>1. /\ pc \in Nat /\ pc \in DOMAIN code /\ cpu.owner = Boot /\ cpu \in Frame
      /\ Orderly(code) /\ ifl \in BOOLEAN /\ active \in BOOLEAN
      /\ numTasks \in 0 .. MaxTasks
  BY DEF SwitchInv, TypeOK, Frame, BootStep, Claim, Store, Retire, Cli, Install, Sti, At
<1>2. \A n \in Nat : Goto(n) => cpu' = [owner |-> Boot, pc |-> n]
  BY <1>1 DEF Goto, Frame
<1>3. pc + 1 \in Nat /\ pc + 2 \in Nat /\ pc + 1 > pc /\ pc + 2 > pc
  BY <1>1
<1>4. CASE Retire
  <2>1. PICK n \in {pc + 1, pc + 2} : Goto(n)
    BY <1>4 DEF Retire
  <2>2. n \in Nat /\ n > pc /\ cpu' = [owner |-> Boot, pc |-> n]
    BY <1>2, <1>3, <2>1
  <2>3. NoneAdded'
    BY <1>1, <1>4, <2>2, NoneAddedLater DEF Retire
  <2>4. ~At("store")
    BY <1>4 DEF Retire, At
  <2> QED
    BY <1>1, <1>4, <2>1, <2>2, <2>3, <2>4, BootMoves DEF Retire
<1>5. CASE Cli \/ Install
  <2>1. Goto(pc + 1) /\ cpu' = [owner |-> Boot, pc |-> pc + 1]
    BY <1>2, <1>3, <1>5 DEF Cli, Install
  <2>2. NoneAdded'
    BY <1>1, <1>3, <1>5, <2>1, NoneAddedLater DEF Cli, Install
  <2>3. ~At("store")
    BY <1>5 DEF Cli, Install, At
  <2> QED
    BY <1>1, <1>3, <1>5, <2>1, <2>2, <2>3, BootMoves DEF Cli, Install
<1>6. CASE Sti
  <2>1. Goto(pc + 1) /\ cpu' = [owner |-> Boot, pc |-> pc + 1] /\ code[pc].do = "sti"
    BY <1>2, <1>3, <1>6 DEF Sti, At
  <2>2. NoneAdded'
    BY <1>1, <1>6, <2>1 DEF Sti, NoneAdded, Orderly
  <2>3. ~At("store")
    BY <1>6 DEF Sti, At
  <2> QED
    BY <1>1, <1>3, <1>6, <2>1, <2>2, <2>3, BootMoves DEF Sti
<1>7. CASE Claim /\ numTasks >= MaxTasks
  <2>1. Goto(pc + 2) /\ cpu' = [owner |-> Boot, pc |-> pc + 2] /\ numTasks' = numTasks
    BY <1>2, <1>3, <1>7 DEF Claim
  <2>2. NoneAdded'
    BY <1>1, <1>3, <1>7, <2>1, NoneAddedLater DEF Claim
  <2>3. ~At("store")
    BY <1>7 DEF Claim, At
  <2>4. UNCHANGED <<code, pic, sched>>
    BY <1>7, <2>1 DEF Claim, sched
  <2> QED
    BY <1>1, <1>3, <1>7, <2>1, <2>2, <2>3, <2>4, BootMoves DEF Claim
<1>8. CASE Claim /\ ~(numTasks >= MaxTasks)
  <2>1. /\ Goto(pc + 1) /\ cpu' = [owner |-> Boot, pc |-> pc + 1]
        /\ numTasks' = numTasks + 1 /\ code[pc].do = "claim"
        /\ UNCHANGED <<code, ifl, active, pic, tasks, currentTask, saved, turns>>
    BY <1>2, <1>3, <1>8 DEF Claim, At
  <2>2. cpu' \in Frame /\ done' \in [Context -> Nat] /\ EachWhole'
    BY <1>3, <2>1, GotoWhole
  <2>3. TypeOK'
    BY <1>1, <1>8, <2>1, <2>2 DEF SwitchInv, TypeOK, pic
  <2>4. RunsCurrent' /\ BootFirst'
    BY <1>1, <2>1 DEF SwitchInv, RunsCurrent, BootFirst
  <2>5. NoneAdded'
    BY <1>1, <1>3, <2>1, NoneAddedLater
  <2>6. TableInv'
    <3>1. Full = numTasks /\ At("store")' /\ Full' = numTasks
      BY <1>1, <2>1 DEF Full, At, Orderly
    <3>2. \A i : Filled(i) => Filled(i)'
      BY <1>1, <2>1 DEF Filled, Orderly
    <3>3. (\A i \in 0 .. Full - 1 : Filled(i))'
      BY <3>1, <3>2 DEF SwitchInv, TableInv
    <3>4. (\A i, j \in 0 .. Full - 1 : tasks[i] = tasks[j] => i = j)'
      BY <2>1, <3>1 DEF SwitchInv, TableInv
    <3> QED
      BY <3>3, <3>4 DEF TableInv
  <2> QED
    BY <2>2, <2>3, <2>4, <2>5, <2>6 DEF SwitchInv
<1>9. CASE Store
  <2>1. /\ Goto(pc + 1) /\ cpu' = [owner |-> Boot, pc |-> pc + 1]
        /\ tasks' = [tasks EXCEPT ![numTasks - 1] = code[pc].task]
        /\ code[pc].do = "store" /\ code[pc].task \in Task
        /\ UNCHANGED <<code, ifl, active, pic, numTasks, currentTask, saved, turns>>
    BY <1>1, <1>2, <1>3, <1>9 DEF Store, At, Orderly
  <2>2. cpu' \in Frame /\ done' \in [Context -> Nat] /\ EachWhole'
    BY <1>3, <2>1, GotoWhole
  <2>3. tasks \in [Slots -> Task \cup {Garbage}] /\ tasks' \in [Slots -> Task \cup {Garbage}]
    BY <2>1 DEF SwitchInv, TypeOK
  <2>4. TypeOK'
    BY <2>1, <2>2, <2>3 DEF SwitchInv, TypeOK, pic
  <2>5. RunsCurrent' /\ BootFirst'
    BY <1>1, <2>1 DEF SwitchInv, RunsCurrent, BootFirst
  <2>6. NoneAdded'
    BY <1>1, <1>3, <2>1, NoneAddedLater
  <2>7. TableInv'
    <3>1. Full = numTasks - 1 /\ Full' \in {numTasks - 1, numTasks}
      BY <1>1, <2>1 DEF Full, At
    <3>2. ASSUME NEW i \in 0 .. numTasks - 1
          PROVE  /\ i = numTasks - 1 => tasks'[i] = code[pc].task
                 /\ i # numTasks - 1 => i \in 0 .. Full - 1 /\ tasks'[i] = tasks[i]
      <4>1. i \in Slots
        BY <1>1 DEF Slots
      <4> QED
        BY <1>1, <2>1, <2>3, <3>1, <4>1
    <3>3. \A i \in 0 .. Full - 1 : \E k \in DOMAIN code :
             code[k].do = "store" /\ code[k].task = tasks[i] /\ k < pc
      BY <1>1 DEF SwitchInv, TableInv, Filled
    <3>4. ASSUME NEW i \in 0 .. numTasks - 1 PROVE Filled(i)'
      <4>1. CASE i = numTasks - 1
        BY <1>1, <2>1, <3>2, <4>1 DEF Filled
      <4>2. CASE i # numTasks - 1
        <5>1. PICK k \in DOMAIN code :
                 code[k].do = "store" /\ code[k].task = tasks[i] /\ k < pc
          BY <3>2, <3>3, <4>2
        <5>2. k \in Nat /\ k < pc + 1
          BY <1>1, <5>1 DEF Orderly
        <5> QED
          BY <2>1, <3>2, <4>2, <5>1, <5>2 DEF Filled
      <4> QED
        BY <4>1, <4>2
    <3>5. ASSUME NEW i \in 0 .. Full - 1 PROVE tasks[i] # code[pc].task
      BY <1>1, <2>1, <3>3 DEF Orderly
    <3>6. ASSUME NEW i \in 0 .. numTasks - 1, NEW j \in 0 .. numTasks - 1,
                 tasks'[i] = tasks'[j]
          PROVE  i = j
      <4>1. CASE i # numTasks - 1 /\ j # numTasks - 1
        BY <3>2, <3>6, <4>1 DEF SwitchInv, TableInv
      <4>2. CASE i = numTasks - 1 \/ j = numTasks - 1
        BY <3>2, <3>5, <3>6, <4>2
      <4> QED
        BY <4>1, <4>2
    <3>7. \A i \in 0 .. Full' - 1 : i \in 0 .. numTasks - 1
      <4>1. numTasks \in Nat
        BY <1>1
      <4> QED
        BY <3>1, <4>1, FewerFull
    <3>8. (\A i \in 0 .. Full - 1 : Filled(i))'
      BY <3>4, <3>7
    <3>9. (\A i, j \in 0 .. Full - 1 : tasks[i] = tasks[j] => i = j)'
      BY <3>6, <3>7
    <3> QED
      BY <3>8, <3>9 DEF TableInv
  <2> QED
    BY <2>2, <2>4, <2>5, <2>6, <2>7 DEF SwitchInv
<1> QED
  BY <1>4, <1>5, <1>6, <1>7, <1>8, <1>9 DEF BootStep

----------------------------------------------------------------------------
(* Steps that change neither the contexts nor the table.                   *)
LEMMA OthersKeep ==
    ASSUME SwitchInv, UNCHANGED <<code, ifl, active, sched, cpu, done>>,
           irr' \subseteq Lines, ignored' \subseteq Lines,
           isrM' \subseteq 0 .. 7, isrS' \subseteq 8 .. 15
    PROVE  SwitchInv'
<1>1. TypeOK' /\ RunsCurrent' /\ BootFirst' /\ EachWhole' /\ NoneAdded'
  BY DEF SwitchInv, TypeOK, RunsCurrent, BootFirst, EachWhole, NoneAdded, sched
<1>2. TableInv'
  BY DEF SwitchInv, TableInv, Full, At, Filled, sched
<1> QED
  BY <1>1, <1>2 DEF SwitchInv

(* The work of a task touches its own context only.                        *)
LEMMA TaskKeeps == ASSUME SwitchInv, TaskStep PROVE SwitchInv'
<1> DEFINE n == (cpu.pc + 1) % Laps
<1>1. n \in Nat
  BY LapInNat DEF SwitchInv, TypeOK, Frame
<1>2. /\ Goto(n) /\ cpu.owner \in Task /\ cpu.owner # Boot
      /\ UNCHANGED <<code, ifl, active, pic, sched>>
  BY DEF TaskStep
<1> HIDE DEF n
<1>3. /\ cpu' = [owner |-> cpu.owner, pc |-> n]
      /\ cpu' \in Frame /\ done' \in [Context -> Nat]
      /\ EachWhole'
  BY <1>1, <1>2, GotoWhole DEF sched
<1>4. TypeOK'
  BY <1>2, <1>3 DEF SwitchInv, TypeOK, sched, pic
<1>5. RunsCurrent' /\ BootFirst' /\ NoneAdded'
  BY <1>2, <1>3 DEF SwitchInv, RunsCurrent, BootFirst, NoneAdded, sched
<1>6. TableInv'
  BY <1>2, <1>3 DEF SwitchInv, TableInv, Full, At, Filled, sched
<1> QED
  BY <1>3, <1>4, <1>5, <1>6 DEF SwitchInv

(* The controllers' registers keep their types when line l is taken.       *)
LEMMA TakenTyped ==
    ASSUME SwitchInv, NEW l \in Lines
    PROVE  /\ TakenM(l) \subseteq 0 .. 7 /\ TakenS(l) \subseteq 8 .. 15
           /\ EndOfInterrupt(TakenM(l)) \subseteq 0 .. 7
           /\ EndOfInterrupt(TakenS(l)) \subseteq 8 .. 15
<1>1. l \in 0 .. 15 /\ isrM \subseteq 0 .. 7 /\ isrS \subseteq 8 .. 15
  BY DEF SwitchInv, TypeOK
<1>2. MasterLine(l) \in 0 .. 7
  BY <1>1 DEF MasterLine, Cascade
<1>3. TakenM(l) \subseteq 0 .. 7
  BY <1>1, <1>2 DEF TakenM
<1>4. TakenS(l) \subseteq 8 .. 15
  <2>1. l >= 8 => l \in 8 .. 15
    BY <1>1
  <2> QED
    BY <1>1, <2>1 DEF TakenS
<1> QED
  BY <1>3, <1>4 DEF EndOfInterrupt

(* When the timer strikes every slot of the table is filled.               *)
LEMMA TableIsFull ==
    ASSUME SwitchInv, ifl
    PROVE  /\ Full = numTasks
           /\ \A i \in 0 .. numTasks - 1 : tasks[i] \in Task
           /\ \A i, j \in 0 .. numTasks - 1 : tasks[i] = tasks[j] => i = j
<1>1. ~At("store")
  <2> SUFFICES ASSUME At("store") PROVE FALSE
    OBVIOUS
  <2>1. cpu.pc \in Nat
    BY DEF SwitchInv, TypeOK, Frame
  <2> QED
    BY <2>1 DEF At, SwitchInv, NoneAdded
<1>2. Full = numTasks
  BY <1>1 DEF Full
<1>3. \A i \in 0 .. numTasks - 1 : Filled(i)
  BY <1>2 DEF SwitchInv, TableInv
<1>4. Orderly(code)
  BY DEF SwitchInv, TypeOK
<1> QED
  BY <1>2, <1>3, <1>4 DEF SwitchInv, TableInv, Filled, Orderly

(* Schedule puts the running task's frame away and takes up another's.     *)
LEMMA SwitchKeeps ==
    ASSUME SwitchInv, ifl, numTasks > 0, Schedule(cpu),
           UNCHANGED <<code, ifl, active, tasks, numTasks, done, ignored>>,
           irr' \subseteq Lines, isrM' \subseteq 0 .. 7, isrS' \subseteq 8 .. 15
    PROVE  SwitchInv'
<1> DEFINE t == tasks[Successor]
<1>1. /\ \A i \in 0 .. numTasks - 1 : tasks[i] \in Task
      /\ \A i, j \in 0 .. numTasks - 1 : tasks[i] = tasks[j] => i = j
      /\ Full = numTasks
  BY TableIsFull
<1>2. Successor \in 0 .. numTasks - 1
  BY SuccessorInTable DEF SwitchInv
<1>3. t \in Task
  BY <1>1, <1>2
<1>4. /\ numTasks \in Nat /\ currentTask \in -1 .. numTasks - 1
      /\ cpu \in Frame /\ saved \in [Task -> Frame]
      /\ cpu.pc = done[cpu.owner]
      /\ \A u \in Task : u # cpu.owner => saved[u] = [owner |-> u, pc |-> done[u]]
      /\ done \in [Context -> Nat]
  BY DEF SwitchInv, TypeOK, EachWhole
<1>5. /\ saved' = IF currentTask >= 0 THEN [saved EXCEPT ![tasks[currentTask]] = cpu] ELSE saved
      /\ currentTask' = Successor
      /\ cpu' = saved'[t] /\ turns' = Credit(t)
  BY <1>3, <1>4 DEF Schedule
<1>6. cpu = [owner |-> cpu.owner, pc |-> done[cpu.owner]]
  BY <1>4 DEF Frame
<1>7. \A u \in Task : saved'[u] = [owner |-> u, pc |-> done[u]]
  <2>1. CASE currentTask >= 0
    <3>1. cpu.owner = tasks[currentTask] /\ cpu.owner \in Task
      BY <2>1 DEF SwitchInv, RunsCurrent
    <3>2. saved' = [saved EXCEPT ![cpu.owner] = cpu]
      BY <1>5, <2>1, <3>1
    <3>3. ASSUME NEW u \in Task PROVE saved'[u] = [owner |-> u, pc |-> done[u]]
      <4>1. CASE u = cpu.owner
        BY <1>4, <1>6, <3>1, <3>2, <4>1
      <4>2. CASE u # cpu.owner
        BY <1>4, <3>2, <4>2
      <4> QED
        BY <4>1, <4>2
    <3> QED
      BY <3>3
  <2>2. CASE ~(currentTask >= 0)
    <3>1. cpu.owner = Boot
      BY <1>4, <2>2 DEF SwitchInv, BootFirst
    <3> QED
      BY <1>4, <1>5, <2>2, <3>1
  <2> QED
    BY <2>1, <2>2
<1>8. saved' \in [Task -> Frame]
  BY <1>4, <1>5 DEF SwitchInv, RunsCurrent
<1>9. cpu' = [owner |-> t, pc |-> done[t]] /\ cpu' \in Frame
  BY <1>3, <1>4, <1>5, <1>7 DEF Frame, Context
<1>10. TypeOK'
  <2>1. turns' \in [Task -> Nat]
    BY <1>3, <1>5, CreditTyped DEF SwitchInv, TypeOK
  <2>2. currentTask' \in -1 .. numTasks' - 1
    BY <1>2, <1>4, <1>5
  <2> QED
    BY <1>8, <1>9, <2>1, <2>2 DEF SwitchInv, TypeOK
<1>11. RunsCurrent' /\ BootFirst' /\ EachWhole' /\ NoneAdded'
  BY <1>2, <1>3, <1>4, <1>5, <1>7, <1>9
     DEF RunsCurrent, BootFirst, EachWhole, NoneAdded
<1>12. TableInv'
  <2>1. Full' = numTasks
    BY <1>3, <1>9 DEF Full, At
  <2>2. \A i : Filled(i) => Filled(i)'
    BY <1>3, <1>9 DEF Filled
  <2>3. (\A i \in 0 .. Full - 1 : Filled(i))'
    BY <1>1, <2>1, <2>2 DEF SwitchInv, TableInv
  <2>4. (\A i, j \in 0 .. Full - 1 : tasks[i] = tasks[j] => i = j)'
    BY <1>1, <2>1
  <2> QED
    BY <2>3, <2>4 DEF TableInv
<1> QED
  BY <1>10, <1>11, <1>12 DEF SwitchInv

(* An interrupt keeps the invariant.                                       *)
LEMMA HandleKeeps == ASSUME SwitchInv, NEW l \in Lines, Handle(l) PROVE SwitchInv'
<1>1. /\ irr' \subseteq Lines /\ isrM' \subseteq 0 .. 7 /\ isrS' \subseteq 8 .. 15
      /\ ignored' \subseteq Lines
      /\ ifl /\ UNCHANGED <<code, ifl, active, ignored, tasks, numTasks, done>>
  BY TakenTyped DEF Handle, SwitchInv, TypeOK
<1>2. CASE l = Timer /\ numTasks > 0
  BY <1>1, <1>2, SwitchKeeps DEF Handle
<1>3. CASE l # Timer \/ ~(numTasks > 0)
  <2>1. numTasks \in Nat
    BY DEF SwitchInv, TypeOK
  <2>2. UNCHANGED <<cpu, saved, currentTask, turns>>
    BY <1>3, <2>1 DEF Handle, Schedule
  <2> QED
    BY <1>1, <2>2, OthersKeep DEF sched
<1> QED
  BY <1>2, <1>3

(* Every step keeps the invariant.                                         *)
LEMMA SwitchStep == SwitchInv /\ [Next]_vars => SwitchInv'
<1> SUFFICES ASSUME SwitchInv, [Next]_vars PROVE SwitchInv'
  OBVIOUS
<1>0. /\ irr \subseteq Lines /\ ignored \subseteq Lines
      /\ isrM \subseteq 0 .. 7 /\ isrS \subseteq 8 .. 15
  BY DEF SwitchInv, TypeOK
<1>1. ASSUME NEW l \in Lines, Raise(l) PROVE SwitchInv'
  BY <1>0, <1>1, OthersKeep DEF Raise
<1>2. ASSUME NEW l \in Lines, Ignore(l) PROVE SwitchInv'
  BY <1>0, <1>2, TakenTyped, OthersKeep DEF Ignore
<1>3. CASE UNCHANGED vars
  BY <1>0, <1>3, OthersKeep DEF vars, pic
<1> QED
  BY <1>1, <1>2, <1>3, BootKeeps, TaskKeeps, HandleKeeps DEF Next

(* At first there is no task.                                              *)
LEMMA SwitchInit == Init => SwitchInv
<1> SUFFICES ASSUME Init PROVE SwitchInv
  OBVIOUS
<1> USE DEF Init
<1>1. TypeOK
  <2>1. cpu \in Frame /\ saved \in [Task -> Frame]
    BY DEF Frame, Context
  <2>2. done \in [Context -> Nat] /\ turns \in [Task -> Nat]
    OBVIOUS
  <2>3. tasks \in [Slots -> Task \cup {Garbage}]
    OBVIOUS
  <2>4. currentTask \in -1 .. numTasks - 1 /\ numTasks \in 0 .. MaxTasks
    OBVIOUS
  <2>5. code \in Codes /\ ifl \in BOOLEAN /\ active \in BOOLEAN
    OBVIOUS
  <2>6. irr \subseteq Lines /\ ignored \subseteq Lines /\ isrM \subseteq 0 .. 7 /\ isrS \subseteq 8 .. 15
    OBVIOUS
  <2> HIDE DEF Init
  <2> QED
    BY <2>1, <2>2, <2>3, <2>4, <2>5, <2>6 DEF TypeOK
<1>2. RunsCurrent /\ BootFirst /\ NoneAdded
  BY DEF RunsCurrent, BootFirst, NoneAdded
<1>3. EachWhole
  BY DEF EachWhole, Context
<1>4. TableInv
  <2>1. Full \in {-1, 0}
    BY DEF Full
  <2>2. 0 .. Full - 1 = {}
    BY <2>1
  <2> QED
    BY <2>2 DEF TableInv
<1> QED
  BY <1>1, <1>2, <1>3, <1>4 DEF SwitchInv

(* No work is lost and none is done twice: each task resumes where it      *)
(* stopped, in its own context, whatever interrupts come when.             *)
THEOREM ContextsAreKept == Spec => []TaskInv
<1>1. SwitchInv => TaskInv
  <2> SUFFICES ASSUME SwitchInv PROVE ContextIntegrity
    BY DEF SwitchInv, TaskInv
  <2> SUFFICES ASSUME NEW i \in 0 .. numTasks - 1, tasks[i] \in Task, i # currentTask
               PROVE  saved[tasks[i]] = [owner |-> tasks[i], pc |-> done[tasks[i]]]
    BY DEF SwitchInv, ContextIntegrity, EachWhole
  <2>1. CASE currentTask >= 0
    <3>1. cpu.owner = tasks[currentTask] /\ cpu.owner # Boot
      BY <2>1 DEF SwitchInv, RunsCurrent
    <3>2. Full = numTasks /\ currentTask \in 0 .. numTasks - 1
      BY <2>1, <3>1 DEF Full, At, SwitchInv, TypeOK
    <3>3. tasks[i] # cpu.owner
      BY <3>1, <3>2 DEF SwitchInv, TableInv
    <3> QED
      BY <3>3 DEF SwitchInv, EachWhole
  <2>2. CASE ~(currentTask >= 0)
    <3>1. cpu.owner = Boot
      BY <2>2 DEF SwitchInv, BootFirst, TypeOK
    <3> QED
      BY <3>1 DEF SwitchInv, EachWhole
  <2> QED
    BY <2>1, <2>2
<1> QED
  BY <1>1, SwitchInit, SwitchStep, PTL DEF Spec
----------------------------------------------------------------------------
(* Task t has had its turn in this round of the table, which is not over.  *)
HadItsTurn(t) == currentTask + 1 < numTasks /\ \E i \in 0 .. currentTask : tasks[i] = t

(* Round robin, as a relation between the history and the table.           *)
RoundInv == \A t \in Task : turns[t] = IF HadItsTurn(t) THEN 1 ELSE 0

(* Steps that switch to no other task.                                     *)
LEMMA RoundUnchanged ==
    ASSUME SwitchInv, RoundInv, UNCHANGED <<currentTask, turns>>,
           UNCHANGED <<tasks, numTasks>> \/ cpu.owner = Boot
    PROVE  RoundInv'
<1>1. CASE UNCHANGED <<tasks, numTasks>>
  BY <1>1 DEF RoundInv, HadItsTurn
<1>2. CASE cpu.owner = Boot
  <2>1. currentTask = -1
    BY <1>2 DEF SwitchInv, BootFirst
  <2>2. 0 .. currentTask = {} /\ 0 .. currentTask' = {}
    BY <2>1
  <2>3. \A t \in Task : ~HadItsTurn(t) /\ ~HadItsTurn(t)'
    BY <2>2 DEF HadItsTurn
  <2> QED
    BY <2>3 DEF RoundInv
<1> QED
  BY <1>1, <1>2

(* A switch gives the next task its turn, and the last one ends the round. *)
LEMMA SwitchTurns ==
    ASSUME SwitchInv, RoundInv, ifl, numTasks > 0, Schedule(cpu),
           UNCHANGED <<tasks, numTasks>>
    PROVE  RoundInv'
<1> DEFINE s == Successor
           t == tasks[s]
           more == [turns EXCEPT ![t] = IF @ < TurnsCounted THEN @ + 1 ELSE @]
           in == {tasks[i] : i \in 0 .. numTasks - 1} \cap Task
           Had(u) == \E i \in 0 .. s : tasks[i] = u
<1>1. /\ \A i \in 0 .. numTasks - 1 : tasks[i] \in Task
      /\ \A i, j \in 0 .. numTasks - 1 : tasks[i] = tasks[j] => i = j
  BY TableIsFull
<1>2. s \in 0 .. numTasks - 1
  BY SuccessorInTable DEF SwitchInv
<1>3. t \in Task
  BY <1>1, <1>2
<1>4. /\ numTasks \in Nat \ {0} /\ currentTask \in -1 .. numTasks - 1
      /\ turns \in [Task -> Nat]
  BY DEF SwitchInv, TypeOK
<1>5. currentTask' = s /\ turns' = Credit(t)
  BY <1>3, <1>4 DEF Schedule
<1>6. turns' = IF \A u \in in : more[u] > 0
               THEN [u \in Task |-> IF u \in in THEN more[u] - 1 ELSE more[u]]
               ELSE more
  BY <1>5 DEF Credit
<1>7. \A u \in Task : more[u] = IF Had(u) THEN 1 ELSE 0
  <2>1. CASE currentTask + 1 < numTasks
    <3>1. s = currentTask + 1
      BY <1>4, <2>1 DEF Successor
    <3>2. \A i \in 0 .. currentTask : tasks[i] # t
      BY <1>1, <1>2, <1>4, <2>1, <3>1
    <3>3. turns[t] = 0
      BY <1>3, <3>2 DEF RoundInv, HadItsTurn
    <3>4. more[t] = 1
      BY <1>3, <1>4, <3>3 DEF TurnsCounted
    <3>5. Had(t)
      BY <1>2
    <3>6. ASSUME NEW u \in Task, u # t PROVE more[u] = IF Had(u) THEN 1 ELSE 0
      <4>1. more[u] = IF \E i \in 0 .. currentTask : tasks[i] = u THEN 1 ELSE 0
        BY <1>4, <2>1, <3>6 DEF RoundInv, HadItsTurn
      <4>2. Had(u) <=> \E i \in 0 .. currentTask : tasks[i] = u
        BY <1>4, <2>1, <3>1, <3>6
      <4> QED
        BY <4>1, <4>2
    <3> QED
      BY <3>4, <3>5, <3>6
  <2>2. CASE ~(currentTask + 1 < numTasks)
    <3>1. \A u \in Task : turns[u] = 0
      BY <2>2 DEF RoundInv, HadItsTurn
    <3>2. s = 0
      BY <1>4, <2>2 DEF Successor
    <3>3. \A u \in Task : Had(u) <=> u = t
      BY <3>2
    <3>4. \A u \in Task : more[u] = IF u = t THEN 1 ELSE 0
      BY <1>3, <1>4, <3>1 DEF TurnsCounted
    <3> QED
      BY <3>3, <3>4
  <2> QED
    BY <2>1, <2>2
<1> HIDE DEF more, t
<1>8. CASE s + 1 < numTasks
  <2> DEFINE last == tasks[numTasks - 1]
  <2>1. last \in in /\ last \in Task
    BY <1>1, <1>4
  <2>2. ~Had(last)
    BY <1>1, <1>2, <1>4, <1>8
  <2>3. more[last] = 0
    BY <1>7, <2>1, <2>2
  <2>4. turns' = more
    BY <1>6, <2>1, <2>3
  <2> QED
    BY <1>5, <1>7, <1>8, <2>4 DEF RoundInv, HadItsTurn
<1>9. CASE ~(s + 1 < numTasks)
  <2>1. s = numTasks - 1
    BY <1>2, <1>4, <1>9
  <2>2. \A u \in Task : Had(u) <=> u \in in
    BY <2>1
  <2>3. \A u \in in : more[u] = 1
    BY <1>7, <2>2
  <2>4. turns' = [u \in Task |-> IF u \in in THEN more[u] - 1 ELSE more[u]]
    BY <1>6, <2>3
  <2>5. \A u \in Task : turns'[u] = 0
    BY <1>7, <2>2, <2>3, <2>4
  <2> QED
    BY <1>5, <1>9, <2>5 DEF RoundInv, HadItsTurn
<1> QED
  BY <1>8, <1>9

(* Every step keeps the relation.                                          *)
LEMMA RoundStep == SwitchInv /\ RoundInv /\ [Next]_vars => RoundInv'
<1> SUFFICES ASSUME SwitchInv, RoundInv, [Next]_vars PROVE RoundInv'
  OBVIOUS
<1>1. CASE BootStep
  <2>1. cpu.owner = Boot
    BY <1>1 DEF BootStep, Claim, Store, Retire, Cli, Install, Sti, At
  <2>2. UNCHANGED <<currentTask, turns>>
    BY <1>1 DEF BootStep, Claim, Store, Retire, Cli, Install, Sti, sched
  <2> QED
    BY <2>1, <2>2, RoundUnchanged
<1>2. CASE TaskStep
  BY <1>2, RoundUnchanged DEF TaskStep, sched
<1>3. ASSUME NEW l \in Lines, Raise(l) \/ Ignore(l) PROVE RoundInv'
  BY <1>3, RoundUnchanged DEF Raise, Ignore, sched
<1>4. ASSUME NEW l \in Lines, Handle(l) PROVE RoundInv'
  <2>1. CASE l = Timer /\ numTasks > 0
    BY <1>4, <2>1, SwitchTurns DEF Handle
  <2>2. CASE ~(l = Timer /\ numTasks > 0)
    <3>1. numTasks \in Nat
      BY DEF SwitchInv, TypeOK
    <3>2. UNCHANGED <<currentTask, turns, tasks, numTasks>>
      BY <1>4, <2>2, <3>1 DEF Handle, Schedule
    <3> QED
      BY <3>2, RoundUnchanged
  <2> QED
    BY <2>1, <2>2
<1>5. CASE UNCHANGED vars
  BY <1>5, RoundUnchanged DEF vars, sched
<1> QED
  BY <1>1, <1>2, <1>3, <1>4, <1>5 DEF Next

(* Round robin is fair turn by turn: of the tasks in the table none is     *)
(* ever two turns ahead of another, whatever interrupts come when.         *)
THEOREM TurnsAreEqual == Spec => []EqualTurns
<1>1. Init => RoundInv
  <2> SUFFICES ASSUME Init PROVE RoundInv
    OBVIOUS
  <2>1. 0 .. currentTask = {}
    BY DEF Init
  <2> QED
    BY <2>1 DEF Init, RoundInv, HadItsTurn
<1>2. RoundInv => EqualTurns
  BY DEF RoundInv, EqualTurns
<1> QED
  BY <1>1, <1>2, SwitchInit, SwitchStep, RoundStep, PTL DEF Spec
=============================================================================
