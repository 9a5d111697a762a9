-------------------------------- MODULE Rtc --------------------------------
(***************************************************************************)
(* The real-time clock (src/src/drivers/rtc.cpp), read by the shell's      *)
(* commands time and date: three registers one after the other, each once  *)
(* the update-in-progress flag is clear.  The clock sets the flag some     *)
(* time (244 microseconds) before it updates its registers, but interrupts *)
(* and other tasks can come between the test of the flag and the read, for *)
(* any time: then the register is read in the middle of an update.         *)
(***************************************************************************)
EXTENDS Integers, Sequences

CONSTANT Modulus    \* per register, the slowest first: 24, 60, 60

(* What the constants must satisfy.                                        *)
ConstantsOK == Modulus \in [1 .. 3 -> Nat \ {0}]

VARIABLES
    clock,          \* the registers: hour, minute, second
    rtcPhase,       \* "steady", "flagged" (about to update) or "updating"
    reading,        \* how many are read, whether the flag was just seen
                    \* clear, the values, and (history) whether one of
                    \* them was read in an update
    turned          \* history: the slowest register wrapped while reading

vars == <<clock, rtcPhase, reading, turned>>

Zero == [r \in 1 .. 3 |-> 0]

(* The time as one number.                                                 *)
Value(t) == (t[1] * Modulus[2] + t[2]) * Modulus[3] + t[3]

NotBegun == [done |-> 0, clear |-> FALSE, values |-> Zero, garbled |-> FALSE]

Init ==
    /\ clock = Zero /\ rtcPhase = "steady" /\ turned = FALSE
    /\ reading = NotBegun

(* The clock (not in src/); the reader does not hold it up.                *)
Flag ==
    /\ rtcPhase = "steady" /\ rtcPhase' = "flagged"
    /\ UNCHANGED <<clock, reading, turned>>

Update ==
    /\ rtcPhase = "flagged" /\ rtcPhase' = "updating"
    /\ UNCHANGED <<clock, reading, turned>>

Carry(t) ==
    LET s == (t[3] + 1) % Modulus[3]
        m == IF s = 0 THEN (t[2] + 1) % Modulus[2] ELSE t[2]
        h == IF s = 0 /\ m = 0 THEN (t[1] + 1) % Modulus[1] ELSE t[1]
    IN  <<h, m, s>>

Advance ==
    /\ rtcPhase = "updating" /\ rtcPhase' = "steady"
    /\ clock' = Carry(clock)
    /\ turned' = (turned \/ clock' = <<0, 0, 0>>)
    /\ UNCHANGED reading

(* A wrong order for the mutation runs: the fastest register first.        *)
OrderFastestFirst == <<3, 2, 1>>

(* The order in which the shell asks: hour, minute, second.                *)
Order == <<1, 2, 3>>

(* get_update_in_progress_flag, until it is clear.                         *)
Poll ==
    /\ reading.done < 3 /\ ~reading.clear /\ rtcPhase = "steady"
    /\ reading' = [reading EXCEPT !.clear = TRUE]
    /\ turned' = (reading.done # 0 /\ turned)
    /\ UNCHANGED <<clock, rtcPhase>>

(* get_RTC_register: in an update anything, an impossible time included.   *)
Registers(r) == IF rtcPhase = "updating" THEN 0 .. Modulus[r] ELSE {clock[r]}

Read ==
    /\ reading.clear
    /\ \E v \in Registers(Order[reading.done + 1]) :
          reading' = [done |-> reading.done + 1, clear |-> FALSE,
                      values |-> [reading.values EXCEPT ![Order[reading.done + 1]] = v],
                      garbled |-> (reading.garbled \/ rtcPhase = "updating")]
    /\ UNCHANGED <<clock, rtcPhase, turned>>

(* The command shows the time, and may be given again.                     *)
Show ==
    /\ reading.done = 3
    /\ reading' = NotBegun
    /\ UNCHANGED <<clock, rtcPhase, turned>>

Next == Flag \/ Update \/ Advance \/ Poll \/ Read \/ Show

Spec == Init /\ [][Next]_vars

----------------------------------------------------------------------------
(* The conversions, of a register's value with status register B: BCD      *)
(* unless bit 2 is set, the hour of a 12-hour clock unless bit 1 is set.   *)
FromBcd(value) == (value % 16) + (value \div 16) * 10

Decode(value, binary) == IF binary THEN value ELSE FromBcd(value)

(* Bit 7 marks the afternoon; & 0x70 leaves it out of the BCD conversion.  *)
DecodeHour(value, binary, h24) ==
    LET pm == value >= 128
        low == Decode(value % 128, binary)
    IN  IF h24 \/ ~pm THEN (IF pm THEN low + 128 ELSE low) ELSE (low + 12) % 24

(* GetYear, from the two digits and CURRENT_YEAR.                          *)
FullYear(value, current) ==
    LET year == value + (current \div 100) * 100
    IN  IF year < current THEN year + 100 ELSE year

----------------------------------------------------------------------------
TypeOK ==
    /\ \A r \in 1 .. 3 : clock[r] \in 0 .. Modulus[r] - 1
    /\ \A r \in 1 .. 3 : reading.values[r] \in 0 .. Modulus[r]
    /\ rtcPhase \in {"steady", "flagged", "updating"}
    /\ reading.done \in 0 .. 3 /\ turned \in BOOLEAN
    /\ reading.clear \in BOOLEAN /\ reading.garbled \in BOOLEAN

(* The time shown may be torn, when a faster register wraps between two    *)
(* reads, but because the slowest is read first it is never ahead of the   *)
(* clock.  The exceptions: the day, or century, itself turns meanwhile; or *)
(* the reader is held up between the test of the flag and the read until   *)
(* the clock updates (rtc.cpp:26-27), and what it reads is any number.     *)
NeverAhead ==
    reading.done = 3 /\ ~turned /\ ~reading.garbled => Value(reading.values) <= Value(clock)

(* What the chip's registers hold, by the modes in its register B.         *)
Encoded(v, binary) == IF binary THEN v ELSE (v \div 10) * 16 + (v % 10)

Encoded12(hour, binary) ==
    Encoded(IF hour % 12 = 0 THEN 12 ELSE hour % 12, binary) + (IF hour < 12 THEN 0 ELSE 128)

(* In every mode the driver finds the number that the chip meant, except   *)
(* that with a 12-hour clock midnight and noon change places: the twelve   *)
(* hours are added whenever it is p.m. (rtc.cpp:54).  A year comes out in  *)
(* the century that begins with CURRENT_YEAR.                              *)
ConversionsRight ==
    \A binary \in BOOLEAN :
        /\ \A v \in 0 .. 99 : Decode(Encoded(v, binary), binary) = v
        /\ \A h \in 0 .. 23 :
              /\ DecodeHour(Encoded(h, binary), binary, TRUE) = h
              /\ DecodeHour(Encoded12(h, binary), binary, FALSE) =
                    IF h % 12 = 0 THEN 12 - h ELSE h
        /\ \A v \in 0 .. 99 : LET y == FullYear(v, 2018)
                              IN  y \in 2018 .. 2117 /\ y % 100 = v

RtcInv == TypeOK /\ NeverAhead /\ ConversionsRight
=============================================================================
