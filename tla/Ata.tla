-------------------------------- MODULE Ata --------------------------------
(***************************************************************************)
(* Sectors read and written by programmed I/O (src/src/vfs/ata.cpp).  Every *)
(* command moves all the words of one sector, whatever the caller wants of *)
(* it.  Read28 waits for the drive before the first word; Write28 does not *)
(* and neither does the flush that follows it.  The drive ignores commands *)
(* while it is busy or waits for data, and data that it does not wait for. *)
(* Where no drive is, the status reads as 0, or as 0xFF if nothing at all  *)
(* drives the bus; only Identify looks for that.                           *)
(***************************************************************************)
EXTENDS Naturals, Sequences

CONSTANTS
    bytesPerSector, \* 512
    Sectors,        \* on the disk
    Counts,         \* what callers ask for, too much included
    MaxCalls        \* bound on the calls of a behaviour

(* What the constants must satisfy.                                        *)
ConstantsOK ==
    /\ bytesPerSector \in Nat \ {0} /\ bytesPerSector % 2 = 0
    /\ Counts \subseteq Nat /\ MaxCalls \in Nat

VARIABLES
    medium,         \* [sector -> its bytes], a byte is a call's or 0
    drive,          \* mode: idle, busy or waiting for data; sector; buffer
    failed,         \* the error bit of the status
    call,           \* the call in progress: op, sector, count, id
    phase,          \* where it is: words, status, or no call
    pos,            \* i, the byte the loop has come to
    data,           \* what Read28 has stored, or Identify
    calls,          \* how many calls there were
    expected,       \* history: what each sector should hold
    slips,          \* history: commands ignored, words lost
    attached        \* what is there: "drive", "none" or "floating"

vars == <<medium, drive, failed, call, phase, pos, data, calls, expected, slips, attached>>

Zeros == [k \in 1 .. bytesPerSector |-> 0]

(* What a drive says of itself: its bytes, each different from the others. *)
Identity == [k \in 1 .. bytesPerSector |-> k]

Idle == [mode |-> "idle", sector |-> 0, buffer |-> <<>>]
NoCall == [op |-> "none", sector |-> 0, count |-> 0, id |-> 0]

Init ==
    /\ medium = [s \in Sectors |-> Zeros] /\ expected = medium
    /\ drive = Idle /\ failed = FALSE
    /\ call = NoCall /\ phase = "none" /\ pos = 0
    /\ data = <<>> /\ calls = 0 /\ slips = {}
    /\ attached \in {"drive", "none", "floating"}

----------------------------------------------------------------------------
(* A command: taken when the drive is idle and otherwise ignored.          *)
Command(mode, sector) ==
    IF attached = "drive" /\ drive.mode = "idle"
    THEN /\ drive' = [mode |-> mode, sector |-> sector, buffer |-> <<>>]
         /\ failed' = FALSE /\ UNCHANGED slips
    ELSE /\ slips' = slips \cup {IF mode = "flushing" THEN "flush" ELSE "command"}
         /\ UNCHANGED <<drive, failed>>

(* Read28 and Write28, which return at once when they are asked for more   *)
(* than a sector.                                                          *)
Begin(op, sector, count) ==
    /\ phase = "none" /\ calls < MaxCalls
    /\ calls' = calls + 1 /\ UNCHANGED <<medium, attached>>
    /\ IF count > bytesPerSector
       THEN UNCHANGED <<drive, failed, call, phase, pos, data, expected, slips>>
       ELSE /\ call' = [op |-> op, sector |-> sector, count |-> count, id |-> calls + 1]
            /\ Command(IF op = "Write28" THEN "preparing" ELSE "seeking", sector)
            /\ phase' = IF op = "Write28" THEN "words" ELSE "status"
            /\ pos' = 0 /\ data' = <<>>
            /\ expected' = IF op # "Write28" THEN expected
                  ELSE [expected EXCEPT ![sector] =
                           [k \in 1 .. bytesPerSector |-> IF k <= count THEN calls + 1 ELSE 0]]

(* A wrong test for the mutation runs: of the floating bus only.           *)
AbsentFloating == attached = "floating"

(* The returns of Identify for a status of 0xFF and 0x00.                  *)
Absent == attached # "drive"

(* Identify, which asks a drive that is there for a block of its own.      *)
Identify ==
    /\ phase = "none" /\ calls < MaxCalls
    /\ calls' = calls + 1 /\ UNCHANGED <<medium, expected, attached>>
    /\ IF Absent
       THEN UNCHANGED <<drive, failed, call, phase, pos, data, slips>>
       ELSE /\ call' = [op |-> "Identify", sector |-> 0, count |-> bytesPerSector,
                        id |-> calls + 1]
            /\ Command("identifying", 0)
            /\ phase' = "status" /\ pos' = 0 /\ data' = <<>>

Busy == drive.mode \in {"seeking", "identifying", "preparing", "storing", "flushing"}
Error == failed \/ attached = "floating"

(* The loop that waits for the status, ended by an error, too.             *)
Status ==
    /\ phase = "status"
    /\ ~Busy \/ Error
    /\ IF Error \/ call.op = "Write28"
       THEN phase' = "none" /\ call' = NoCall
       ELSE phase' = "words" /\ UNCHANGED call
    /\ UNCHANGED <<medium, drive, failed, pos, data, calls, expected, slips, attached>>

(* What the data port yields: the next word, or bytes of no sector.        *)
NoByte == bytesPerSector + MaxCalls + 1

DataWord ==
    IF drive.mode = "sending" THEN SubSeq(drive.buffer, 1, 2) ELSE <<NoByte, NoByte>>

Rest(seq) == SubSeq(seq, 3, Len(seq))

(* A wrong rest of the sector for the mutation runs: from count on, as if  *)
(* no odd byte had been left over.                                         *)
EndOfDataUneven(count) == count

(* for(i = count + (count % 2); ...): where the words begin that the       *)
(* caller has no use for.                                                  *)
EndOfData(count) == count + (count % 2)

(* The loops over the words are the same for reading and writing.          *)
NextPos ==
    IF pos + 2 >= call.count /\ pos < call.count THEN EndOfData(call.count) ELSE pos + 2

Finished == pos >= bytesPerSector

(* A wrong word for the mutation runs: the low byte only.                  *)
HeaderWordLow(word) == {word[1]}

(* What Identify keeps of a word: one byte, the or of both, which is all   *)
(* that is left of the numbers in the header (ata.cpp:82-83).              *)
HeaderWord(word) == {word[1], word[2]}

ReadWord ==
    /\ phase = "words" /\ call.op # "Write28" /\ ~Finished
    /\ drive' = IF drive.mode # "sending" THEN drive
                ELSE IF Len(drive.buffer) = 2 THEN Idle
                ELSE [drive EXCEPT !.buffer = Rest(@)]
    /\ slips' = IF drive.mode = "sending" THEN slips ELSE slips \cup {"no word"}
    /\ data' = IF call.op = "Identify" THEN Append(data, HeaderWord(DataWord))
               ELSE IF pos < call.count
               THEN data \o SubSeq(DataWord, 1, IF pos + 1 < call.count THEN 2 ELSE 1)
               ELSE data
    /\ pos' = NextPos
    /\ UNCHANGED <<medium, failed, call, phase, calls, expected, attached>>

(* The word written: two bytes of the caller's, one, or none.              *)
CallersWord == [k \in 1 .. 2 |-> IF pos + k <= call.count THEN call.id ELSE 0]

WriteWord ==
    /\ phase = "words" /\ call.op = "Write28" /\ ~Finished
    /\ drive' = IF drive.mode # "receiving" THEN drive
                ELSE [drive EXCEPT !.buffer = @ \o CallersWord,
                                   !.mode = IF Len(drive.buffer) + 2 = bytesPerSector
                                            THEN "storing" ELSE @]
    /\ slips' = IF drive.mode = "receiving" THEN slips
                ELSE slips \cup {IF drive.mode = "preparing" \/ failed THEN "early" ELSE "late"}
    /\ pos' = NextPos
    /\ UNCHANGED <<medium, failed, call, phase, data, calls, expected, attached>>

(* The others return; Write28 calls Flush and waits for the status.        *)
Done ==
    /\ phase = "words" /\ Finished
    /\ IF call.op = "Write28"
       THEN /\ Command("flushing", call.sector)
            /\ phase' = "status" /\ UNCHANGED call
       ELSE /\ phase' = "none" /\ call' = NoCall
            /\ UNCHANGED <<drive, failed, slips>>
    /\ UNCHANGED <<medium, pos, data, calls, expected, attached>>

----------------------------------------------------------------------------
(* The drive (not in src/): it finds the sector, asks for data, stores or  *)
(* flushes, or fails.                                                      *)
Work ==
    /\ \/ /\ drive.mode = "seeking"
          /\ drive' = [drive EXCEPT !.mode = "sending", !.buffer = medium[drive.sector]]
          /\ UNCHANGED <<medium, expected>>
       \/ /\ drive.mode = "identifying"
          /\ drive' = [drive EXCEPT !.mode = "sending", !.buffer = Identity]
          /\ UNCHANGED <<medium, expected>>
       \/ /\ drive.mode = "preparing"
          /\ drive' = [drive EXCEPT !.mode = "receiving"]
          /\ UNCHANGED <<medium, expected>>
       \/ /\ drive.mode = "storing"
          /\ medium' = [medium EXCEPT ![drive.sector] = drive.buffer]
          /\ drive' = Idle /\ UNCHANGED expected
       \/ /\ drive.mode = "flushing"
          /\ drive' = Idle /\ UNCHANGED <<medium, expected>>
    /\ UNCHANGED <<failed, call, phase, pos, data, calls, slips, attached>>

(* After a failed write the sector may be anything; say it is as before.   *)
Fail ==
    /\ drive.mode \in {"seeking", "identifying", "preparing"}
    /\ drive' = Idle /\ failed' = TRUE
    /\ expected' = IF drive.mode = "preparing"
                   THEN [expected EXCEPT ![drive.sector] = medium[drive.sector]]
                   ELSE expected
    /\ UNCHANGED <<medium, call, phase, pos, data, calls, slips, attached>>

(* No more calls, within the bound.                                        *)
Ended == phase = "none" /\ calls = MaxCalls /\ UNCHANGED vars

Next ==
    \/ \E op \in {"Read28", "Write28"}, s \in Sectors, c \in Counts : Begin(op, s, c)
    \/ Identify \/ Status \/ ReadWord \/ WriteWord \/ Done \/ Work \/ Fail
    \/ Ended

Spec == Init /\ [][Next]_vars

----------------------------------------------------------------------------
TypeOK ==
    /\ drive.mode \in {"idle", "seeking", "identifying", "sending", "preparing", "receiving",
                       "storing", "flushing"}
    /\ attached \in {"drive", "none", "floating"}
    /\ \A s \in Sectors : Len(medium[s]) = bytesPerSector
    /\ phase \in {"none", "status", "words"}
    /\ pos \in Nat /\ calls \in 0 .. MaxCalls
    /\ slips \subseteq {"command", "flush", "early", "late", "no word"}

(* A call moves all the words of its sector, no fewer and no more: when it *)
(* has returned the drive waits for none.  Only words written before the   *)
(* drive asks for them, or after it has failed, are lost; the drive goes   *)
(* on waiting for them, and only from then on does it ignore commands and  *)
(* is it given too much.                                                   *)
WholeSector ==
    attached = "drive" /\ "early" \notin slips =>
        /\ slips \subseteq {"flush"}
        /\ phase = "none" => drive.mode \notin {"sending", "receiving"}

(* As long as no word was lost, Read28 gives what is on the disk and       *)
(* Write28 leaves its bytes there, with zeros behind, flushed or not.      *)
(* Identify has the header of a drive, as much of it as its words keep,    *)
(* and never takes what the bus yields without a drive for one.            *)
RightBytes ==
    "early" \notin slips =>
        /\ attached = "drive" /\ phase = "words" /\ call.op = "Read28" =>
              data = SubSeq(expected[call.sector], 1, Len(data))
        /\ phase = "words" /\ call.op = "Identify" =>
              data = [k \in 1 .. pos \div 2 |-> {Identity[2 * k - 1], Identity[2 * k]}]
        /\ attached = "drive" /\ phase = "none" => medium = expected

(* A sector holds one call's bytes and zeros; the bytes of two calls need  *)
(* a lost word.                                                            *)
NeverMixed ==
    \A s \in Sectors : \A j, k \in 1 .. bytesPerSector :
        medium[s][j] # 0 /\ medium[s][k] # 0 /\ medium[s][j] # medium[s][k] =>
            "early" \in slips

AtaInv == TypeOK /\ WholeSector /\ RightBytes /\ NeverMixed
=============================================================================
