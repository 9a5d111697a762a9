------------------------------- MODULE Timer -------------------------------
(***************************************************************************)
(* The interval timer and the PC speaker (src/src/drivers/pit.cpp): a tick *)
(* counter that the timer interrupt increments, Sleep, which spins on it,  *)
(* and Beep, called by several tasks, each of which can be interrupted     *)
(* between any two statements.                                             *)
(***************************************************************************)
EXTENDS Integers

CONSTANTS
    Callers,        \* the tasks that beep
    Durations,      \* what they give to Beep
    Width           \* 2^32, where timer_ticks wraps

(* What the constants must satisfy.                                        *)
ConstantsOK == Width \in Nat \ {0} /\ Durations \subseteq 0 .. Width - 1

VARIABLES
    timerTicks,
    speaker,        \* bits 0 and 1 of port 0x61 are set
    beep            \* per task: next statement, tmp, ms and eticks of Sleep;
                    \* history: ticks since Sleep began (up to ms), and
                    \* whether timer_ticks + ms wrapped

vars == <<timerTicks, speaker, beep>>

Idle == [at |-> "idle", tmp |-> FALSE, ms |-> 0, eticks |-> 0,
         elapsed |-> 0, wrapped |-> FALSE]

Init ==
    /\ timerTicks = 0 /\ speaker = FALSE
    /\ beep = [t \in Callers |-> Idle]

(* HandleInterrupt.                                                        *)
HandleInterrupt ==
    /\ timerTicks' = (timerTicks + 1) % Width
    /\ beep' = [t \in Callers |->
          IF beep[t].at = "spin" /\ beep[t].elapsed < beep[t].ms
          THEN [beep[t] EXCEPT !.elapsed = @ + 1] ELSE beep[t]]
    /\ UNCHANGED speaker

Go(t, new) == beep' = [beep EXCEPT ![t] = new]

(* Beep(freq, duration): nothing for a duration of 0; else PlaySound reads *)
(* the port ...                                                            *)
Beep(t, duration) ==
    /\ beep[t].at = "idle" /\ duration # 0
    /\ Go(t, [Idle EXCEPT !.at = "on", !.tmp = speaker, !.ms = duration])
    /\ UNCHANGED <<timerTicks, speaker>>

(* ... and writes it back with the bits set, if they were not.             *)
PlaySound(t) ==
    /\ beep[t].at = "on"
    /\ speaker' = IF beep[t].tmp THEN speaker ELSE TRUE
    /\ Go(t, [beep[t] EXCEPT !.at = "sleep"])
    /\ UNCHANGED timerTicks

(* Sleep: the tick to wait for, in 32 bits.                                *)
Sleep(t) ==
    LET sum == timerTicks + beep[t].ms
    IN  /\ beep[t].at = "sleep"
        /\ Go(t, [beep[t] EXCEPT !.at = "spin", !.eticks = sum % Width,
                                 !.wrapped = sum >= Width])
        /\ UNCHANGED <<timerTicks, speaker>>

(* A wrong test for the mutation runs: one tick early.                      *)
PassedEarly(eticks) == timerTicks + 1 >= eticks

Passed(eticks) == timerTicks >= eticks

SleepReturns(t) ==
    /\ beep[t].at = "spin" /\ Passed(beep[t].eticks)
    /\ Go(t, [beep[t] EXCEPT !.at = "off"])
    /\ UNCHANGED <<timerTicks, speaker>>

(* NoSound reads the port and writes it with the bits cleared.             *)
NoSoundRead(t) ==
    /\ beep[t].at = "off"
    /\ Go(t, [beep[t] EXCEPT !.at = "silence"])
    /\ UNCHANGED <<timerTicks, speaker>>

Silenced(tmp) == FALSE

NoSoundWrite(t) ==
    /\ beep[t].at = "silence"
    /\ speaker' = Silenced(beep[t].tmp)
    /\ Go(t, Idle)
    /\ UNCHANGED timerTicks

Next ==
    \/ HandleInterrupt
    \/ \E t \in Callers :
          \/ \E d \in Durations : Beep(t, d)
          \/ PlaySound(t) \/ Sleep(t) \/ SleepReturns(t)
          \/ NoSoundRead(t) \/ NoSoundWrite(t)

Spec == Init /\ [][Next]_vars

----------------------------------------------------------------------------
TypeOK ==
    /\ timerTicks \in 0 .. Width - 1 /\ speaker \in BOOLEAN
    /\ beep \in [Callers ->
          [at : {"idle", "on", "sleep", "spin", "off", "silence"}, tmp : BOOLEAN,
           ms : Durations \cup {0}, eticks : 0 .. Width - 1,
           elapsed : 0 .. Width - 1, wrapped : BOOLEAN]]

(* Sleep is as long as was asked for, unless the counter was about to wrap *)
(* when it began (after 49 days); also when the counter wraps meanwhile,   *)
(* or the sleeping task does not look at it for long.                      *)
SleptEnough == \A t \in Callers :
    beep[t].at \in {"off", "silence"} => beep[t].elapsed = beep[t].ms \/ beep[t].wrapped

(* However the reads and writes of the port by several tasks cross, the    *)
(* speaker is silent when nobody beeps.                                    *)
SilentWhenIdle == (\A t \in Callers : beep[t].at = "idle") => ~speaker

TimerInv == TypeOK /\ SleptEnough /\ SilentWhenIdle
=============================================================================
