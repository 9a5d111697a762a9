-------------------------------- MODULE Acpi --------------------------------
(***************************************************************************)
(* The shell's command shutdown: initAcpi, then acpiPowerOff               *)
(* (src/src/hardwarecommunication/acpi.cpp), on an ACPI object that lives  *)
(* on the stack and has no constructor.  The hardware enables ACPI some    *)
(* time after it was told to, in each of its control registers by itself.  *)
(***************************************************************************)
EXTENDS Integers, Sequences

CONSTANTS
    Roots,          \* what is found where an RSDP can be, from 0xE0000 on
                    \* and then in the EBDA: sequences of kinds
    Tables,         \* what the RSDT can list: sequences of kinds of table
    Polls           \* 300

RootKinds == {"nothing", "bad checksum", "address 0", "RSDT", "bad RSDT"}

(* A table that is no FACP or whose checksum is wrong is passed over.      *)
Skipped == {"other", "FACP, bad checksum"}
FacpKinds == {"FACP", "FACP, DSDT invalid", "FACP, _S5_ not present", "FACP, _S5_ parse error"}

(* What the constants must satisfy.                                        *)
ConstantsOK ==
    /\ Roots \subseteq Seq(RootKinds) /\ Tables \subseteq Seq(Skipped \cup FacpKinds)
    /\ Polls \in Nat \ {0}

VARIABLES
    roots, rsdt,    \* the places for an RSDP, and what a valid RSDT lists
    machine,        \* PM1b_CNT # 0; SMI_CMD # 0 and ACPI_ENABLE # 0; the
                    \* stack where SCI_EN will lie is not 0
    enabled,        \* the control registers that say ACPI is enabled
    step,           \* where acpiPowerOff is
    i, slept,       \* the count of polls; history: the calls of Sleep
    result,         \* of acpiEnable
    written         \* what the shutdown command was written to

vars == <<roots, rsdt, machine, enabled, step, i, slept, result, written>>

(* acpiCheckRSDPtr gives the address in an RSDP with the right signature   *)
(* and checksum; an address of 0 cannot be told from no RSDP.              *)
Checked(kind) == kind \in {"RSDT", "bad RSDT"}

(* acpiGetRSDPtr returns the first address; initAcpi then wants a valid    *)
(* RSDT there and does not go back for another.                            *)
FirstRsdt(rs) == \E k \in DOMAIN rs :
    rs[k] = "RSDT" /\ \A j \in 1 .. k - 1 : ~Checked(rs[j])

Registers == IF machine.b THEN {"a", "b"} ELSE {"a"}

Init ==
    /\ roots \in Roots /\ rsdt \in Tables
    /\ machine \in [b : BOOLEAN, smi : BOOLEAN, stack : BOOLEAN]
    /\ enabled \in SUBSET Registers
    /\ step = "initAcpi" /\ i = 0 /\ slept = 0
    /\ result = "none" /\ written = "nothing"

(* initAcpi takes the first FACP, whatever comes of it (entrys = -2).      *)
FirstFacp(ts) == \E k \in DOMAIN ts :
    ts[k] = "FACP" /\ \A j \in 1 .. k - 1 : ts[j] \in Skipped

(* Whether the object has been filled in.                                  *)
Found == FirstRsdt(roots) /\ FirstFacp(rsdt)

(* acpiPowerOff gives up if SCI_EN is 0.  Only initAcpi sets it.           *)
PowerOff ==
    /\ step = "initAcpi"
    /\ step' = IF Found THEN "check" ELSE IF machine.stack THEN "write" ELSE "done"
    /\ UNCHANGED <<roots, rsdt, machine, enabled, i, slept, result, written>>

(* acpiEnable: nothing to do when PM1a_CNT says so; no way to do it; or    *)
(* the command is sent.                                                    *)
Check ==
    /\ step = "check"
    /\ step' = IF "a" \in enabled \/ ~machine.smi THEN "write" ELSE "pollA"
    /\ result' = IF "a" \in enabled THEN "already"
                 ELSE IF ~machine.smi THEN "failed" ELSE "none"
    /\ UNCHANGED <<roots, rsdt, machine, enabled, i, slept, written>>

(* The hardware (not in src/), once it was told to.                        *)
Told ==
    \/ step \in {"pollA", "pollB"}
    \/ result = "enabled"
    \/ (result = "failed" /\ machine.smi)

Enable(r) ==
    /\ Told
    /\ r \in Registers \ enabled
    /\ enabled' = enabled \cup {r}
    /\ UNCHANGED <<roots, rsdt, machine, step, i, slept, result, written>>

(* A wrong Ends for the mutation runs: both loops look at PM1a.            *)
EndsByA(r) == "a" \in enabled \/ i = Polls

(* One turn of a loop that polls register r: it ends when the register     *)
(* says enabled or the polls are used up.                                  *)
Ends(r) == r \in enabled \/ i = Polls

Wait ==
    /\ i' = i + 1 /\ slept' = slept + 1
    /\ UNCHANGED <<step, result>>

(* After the loops success is told by the count.                           *)
Return ==
    /\ step' = "write"
    /\ result' = IF i < Polls THEN "enabled" ELSE "failed"
    /\ UNCHANGED slept

PollA ==
    /\ step = "pollA"
    /\ \/ ~Ends("a") /\ Wait
       \/ Ends("a") /\ machine.b /\ step' = "pollB" /\ UNCHANGED <<i, slept, result>>
       \/ Ends("a") /\ ~machine.b /\ Return /\ UNCHANGED i
    /\ UNCHANGED <<roots, rsdt, machine, enabled, written>>

(* The second loop goes on with the same count.                            *)
PollB ==
    /\ step = "pollB"
    /\ \/ ~Ends("b") /\ Wait
       \/ Ends("b") /\ Return /\ UNCHANGED i
    /\ UNCHANGED <<roots, rsdt, machine, enabled, written>>

(* acpiPowerOff writes the command whatever acpiEnable has returned.       *)
Write ==
    /\ step = "write" /\ step' = "done"
    /\ written' = IF Found THEN "registers" ELSE "unknown port"
    /\ UNCHANGED <<roots, rsdt, machine, enabled, i, slept, result>>

Finished == step = "done" /\ UNCHANGED vars

Next ==
    \/ PowerOff \/ Check \/ PollA \/ PollB \/ Write \/ Finished
    \/ \E r \in {"a", "b"} : Enable(r)

Spec == Init /\ [][Next]_vars

----------------------------------------------------------------------------
TypeOK ==
    /\ roots \in Roots /\ rsdt \in Tables
    /\ machine \in [b : BOOLEAN, smi : BOOLEAN, stack : BOOLEAN]
    /\ enabled \subseteq Registers
    /\ step \in {"initAcpi", "check", "pollA", "pollB", "write", "done"}
    /\ i \in 0 .. Polls /\ slept \in 0 .. Polls
    /\ result \in {"none", "already", "enabled", "failed"}
    /\ written \in {"nothing", "registers", "unknown port"}

(* When acpiEnable says that it has enabled ACPI every register says so;   *)
(* it looks at PM1a only when it says that it was enabled already.  In     *)
(* both loops together it waits no longer than it gives the hardware.      *)
SuccessMeansEnabled ==
    /\ result = "enabled" => enabled = Registers
    /\ result = "already" => "a" \in enabled
    /\ slept <= Polls

(* So the command is written to registers that are enabled, except after a *)
(* failure that acpiPowerOff does not look at or when only PM1a was; and   *)
(* to no other port, except when initAcpi has failed, if only because a    *)
(* bad table comes before the good one, and SCI_EN, which "is set to 1 if  *)
(* acpi shutdown is possible" (acpi.cpp:245), was left over on the stack.  *)
Before(s, good, bad) ==
    \A k \in DOMAIN s : s[k] = good => \E j \in 1 .. k - 1 : s[j] \in bad

CommandExcused ==
    /\ written = "registers" =>
          enabled = Registers \/ result = "failed" \/ (result = "already" /\ machine.b)
    /\ written = "unknown port" => machine.stack /\
          (Before(roots, "RSDT", {"bad RSDT"}) \/ Before(rsdt, "FACP", FacpKinds \ {"FACP"}))

AcpiInv == TypeOK /\ SuccessMeansEnabled /\ CommandExcused
=============================================================================
