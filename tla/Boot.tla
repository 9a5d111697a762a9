-------------------------------- MODULE Boot --------------------------------
(***************************************************************************)
(* kernelMain (src/src/kernel.cpp) from the interrupt manager to the       *)
(* shell: the drivers that are always there, the cards that the PCI scan   *)
(* finds (pci.cpp), their activation by the driver manager (driver.cpp),   *)
(* the timer, and only then the interrupts.  Devices raise their lines all *)
(* the while; nothing is delivered before the last step.                   *)
(***************************************************************************)
EXTENDS Naturals, Sequences, FiniteSetsExt

CONSTANTS
    Devices,        \* the places on the buses, in the order of the scan
    Functions,      \* of a device: 0 .. 7
    Cards           \* what a function can be: kind, line, io

(* What the constants must satisfy.                                        *)
ConstantsOK == Devices \subseteq Nat /\ Functions \subseteq Nat /\ 0 \in Functions

VARIABLES
    pci,            \* pci[d] = [multi, fn]; multi: bit 7 of function 0's header
    bootStep,       \* what kernelMain has yet to do
    toScan,         \* the functions the scan has not reached
    drivers,        \* DriverManager: kind, card, line and ports of each
    handlers,       \* handlers[line]: the number of a driver, Pit, or None
    baseAddress,    \* the static BaseAddress of rtl8139.cpp
    activated,      \* how many of the drivers ActivateAll has reached
    raised,         \* the lines that wait at the interrupt controller
    unhandled       \* history: lines delivered to no handler, or too early

vars == <<pci, bootStep, toScan, drivers, handlers, baseAddress, activated, raised, unhandled>>

None == 0
Pit == 99

TimerLine == 0
KeyboardLine == 1
MouseLine == 12
Lines == {TimerLine, KeyboardLine, MouseLine} \cup {c.line : c \in Cards}

(* A wrong order for the mutation runs: the timer's handler comes last.     *)
OrderPitLast == <<"drivers", "pci", "activate", "interrupts", "pit">>

Order == <<"drivers", "pci", "activate", "pit", "interrupts">>

Absent == [kind |-> "absent", line |-> 0, io |-> FALSE]

Init ==
    /\ pci \in [Devices -> [multi : BOOLEAN, fn : [Functions -> Cards \cup {Absent}]]]
    /\ \A d \in Devices : pci[d].fn[0] = Absent => pci[d].multi
    /\ bootStep = Order
    /\ toScan = Devices \X Functions
    /\ drivers = <<>> /\ activated = 0
    /\ handlers = [l \in Lines |-> None]
    /\ baseAddress = <<>>
    /\ raised = {} /\ unhandled = {}

At(s) == bootStep # <<>> /\ Head(bootStep) = s

----------------------------------------------------------------------------
(* The constructor of a driver registers it for its line, over whatever    *)
(* was registered before; then it is added to the drivers.                 *)
Driver(kind, card, line, ports) ==
    [kind |-> kind, card |-> card, line |-> line, ports |-> ports]

AddDriver(d) ==
    /\ drivers' = Append(drivers, d)
    /\ handlers' = [handlers EXCEPT ![d.line] = Len(drivers) + 1]

(* The keyboard and the mouse are there always.                            *)
LoadDrivers ==
    /\ At("drivers") /\ bootStep' = Tail(bootStep)
    /\ drivers' = <<Driver("keyboard", <<>>, KeyboardLine, <<>>),
                    Driver("mouse", <<>>, MouseLine, <<>>)>>
    /\ handlers' = [handlers EXCEPT ![KeyboardLine] = 1, ![MouseLine] = 2]
    /\ UNCHANGED <<pci, toScan, baseAddress, activated, raised, unhandled>>

(* An absent function 0 reads as all ones, so that all eight are scanned.  *)
DeviceHasFunctions(d) == pci[d].multi

Before(a, b) == a[1] < b[1] \/ (a[1] = b[1] /\ a[2] <= b[2])

NextFunction == CHOOSE p \in toScan : \A q \in toScan : Before(p, q)

(* portBase is the last I/O base address register, or never set.           *)
PortBase(p) == IF pci[p[1]].fn[p[2]].io THEN p ELSE <<"?">>

(* GetDriver: for the two cards it knows, if there is memory for a driver. *)
GetDriver(p, c) ==
    \/ /\ c.kind = "amd"
       /\ AddDriver(Driver("amd", p, c.line, PortBase(p)))
       /\ UNCHANGED baseAddress
    \/ /\ c.kind = "rtl"                    \* reads the base for itself, ...
       /\ baseAddress' = PortBase(p)        \* ... into a variable of all
       /\ AddDriver(Driver("rtl", p, c.line, <<>>))
    \/ UNCHANGED <<drivers, handlers, baseAddress>>     \* malloc returns 0

SelectDrivers ==
    /\ At("pci")
    /\ IF toScan = {}
       THEN bootStep' = Tail(bootStep) /\ UNCHANGED <<toScan, drivers, handlers, baseAddress>>
       ELSE LET p == NextFunction
                numFunctions == IF DeviceHasFunctions(p[1]) THEN Functions ELSE {0}
                c == pci[p[1]].fn[p[2]]
            IN  /\ toScan' = toScan \ {p}
                /\ UNCHANGED bootStep
                /\ IF p[2] \in numFunctions /\ c.kind \in {"amd", "rtl"}
                   THEN GetDriver(p, c)
                   ELSE UNCHANGED <<drivers, handlers, baseAddress>>
    /\ UNCHANGED <<pci, activated, raised, unhandled>>

ActivateAll ==
    /\ At("activate")
    /\ IF activated = Len(drivers)
       THEN bootStep' = Tail(bootStep) /\ UNCHANGED activated
       ELSE activated' = activated + 1 /\ UNCHANGED bootStep
    /\ UNCHANGED <<pci, toScan, drivers, handlers, baseAddress, raised, unhandled>>

LoadPit ==
    /\ At("pit") /\ bootStep' = Tail(bootStep)
    /\ handlers' = [handlers EXCEPT ![TimerLine] = Pit]
    /\ UNCHANGED <<pci, toScan, drivers, baseAddress, activated, raised, unhandled>>

Activate ==
    /\ At("interrupts") /\ bootStep' = Tail(bootStep)
    /\ UNCHANGED <<pci, toScan, drivers, handlers, baseAddress, activated, raised, unhandled>>

----------------------------------------------------------------------------
(* The card whose registers a driver writes to.                            *)
Reaches(k) == IF drivers[k].kind = "rtl" THEN baseAddress ELSE drivers[k].ports

(* The timer and the keyboard are running when the kernel starts; the      *)
(* mouse or a card raises its line only after some driver activated it.    *)
Alive(line) ==
    \/ line \in {TimerLine, KeyboardLine}
    \/ line = MouseLine /\ activated >= 2
    \/ \E k \in 1 .. activated :
          /\ Reaches(k) \in Devices \X Functions
          /\ pci[Reaches(k)[1]].fn[Reaches(k)[2]].line = line

Raise(line) ==
    /\ Alive(line)
    /\ raised' = raised \cup {line}
    /\ UNCHANGED <<pci, bootStep, toScan, drivers, handlers, baseAddress, activated, unhandled>>

InterruptsOn == "interrupts" \notin {bootStep[k] : k \in DOMAIN bootStep}

Ready(h) == h = Pit \/ h \in 1 .. activated

Deliver(line) ==
    /\ InterruptsOn /\ line \in raised
    /\ raised' = raised \ {line}
    /\ unhandled' = IF Ready(handlers[line]) THEN unhandled ELSE unhandled \cup {line}
    /\ UNCHANGED <<pci, bootStep, toScan, drivers, handlers, baseAddress, activated>>

Next ==
    \/ LoadDrivers \/ SelectDrivers \/ ActivateAll \/ LoadPit \/ Activate
    \/ \E line \in Lines : Raise(line) \/ Deliver(line)

Spec == Init /\ [][Next]_vars

----------------------------------------------------------------------------
TypeOK ==
    /\ toScan \subseteq Devices \X Functions
    /\ handlers \in [Lines -> {None, Pit} \cup 1 .. Len(drivers)]
    /\ activated \in 0 .. Len(drivers)
    /\ raised \subseteq Lines /\ unhandled \subseteq Lines

(* However early a device asks, its interrupt is delivered to a handler,   *)
(* and to one whose driver has been activated.                             *)
NothingUnhandled == unhandled = {}

(* A driver keeps its line unless a later one has taken it: one of two     *)
(* cards on one line is never served.  The timer, which comes last, always *)
(* is.                                                                     *)
LineOfLast ==
    /\ \A k \in DOMAIN drivers :
          LET h == handlers[drivers[k].line]
          IN  h = Pit \/ (h >= k /\ h # None /\ drivers[h].line = drivers[k].line)
    /\ InterruptsOn => handlers[TimerLine] = Pit

(* A driver activates the card it was made for, and no card is activated   *)
(* twice, unless there are two RTL8139s, whose drivers share one base.     *)
OwnCard ==
    \A k \in DOMAIN drivers :
        drivers[k].card # <<>> /\ Reaches(k) # drivers[k].card =>
            \/ Reaches(k) = <<"?">>
            \/ \E j \in k + 1 .. Len(drivers) :
                  drivers[k].kind = "rtl" /\ drivers[j].kind = "rtl"
                  /\ Reaches(k) = PortBase(drivers[j].card)

(* No function has two drivers, and none of a device of a single function  *)
(* but its first.                                                          *)
OneDriverEach ==
    \A k \in DOMAIN drivers : drivers[k].card # <<>> =>
        /\ \A j \in DOMAIN drivers : drivers[j].card = drivers[k].card => j = k
        /\ drivers[k].card[2] = 0 \/ pci[drivers[k].card[1]].multi

BootInv == TypeOK /\ NothingUnhandled /\ LineOfLast /\ OwnCard /\ OneDriverEach
=============================================================================
