---------------------------- MODULE ConsoleInput ----------------------------
(***************************************************************************)
(* A line typed at the console.  Two parties share the key buffer of       *)
(* ConsoleKeyboardEventHandler (src/include/gui/console.h), with neither a *)
(* lock nor a disabled interrupt between them:                             *)
(*                                                                         *)
(*   - the keyboard interrupt, KeyboardDriver::HandleInterrupt             *)
(*     (src/src/drivers/keyboard.cpp), which puts a key in the buffer;     *)
(*   - the shell, Shell::Next (src/src/gui/shell.cpp), which calls         *)
(*     Console::ReadLine (src/src/gui/console.cpp), which spins on the     *)
(*     flag DataAvailible and edits the line.                              *)
(*                                                                         *)
(* They share one thing more: Convert::CharToStr returns its character in  *)
(* a static string, `lit', that every character printed anywhere goes      *)
(* through.  A key is known by the number of its press, 1, 2, ...          *)
(***************************************************************************)
EXTENDS Integers, Sequences

CONSTANTS
    BufLen,     \* bytes ReadLine allocates for a line, 255
    MaxKeys     \* bound: keys pressed in a behaviour

ASSUME ConsoleInputAssumption ==
    /\ BufLen \in Nat \ {0, 1}
    /\ MaxKeys \in Nat

(* A character of the line is the number of the key that typed it, or      *)
Nul   == -1
Blank == -2          \* the ' ' a backspace leaves

(* What a key is to ReadLine.  "nul" is no key: it is what the buffer may  *)
(* hold before the first one, since the constructor does not set it.       *)
Mapped == {"char", "newline", "back"}
Key    == [id : Nat, kind : Mapped \cup {"nul"}]

VARIABLES
    avail, buffer,      \* DataAvailible, buffer
    lit,                \* the static string of CharToStr
    pressed,            \* how many keys were pressed
    pc,                 \* where the shell is
    reg,                \* the key in flight: CharToStr's argument, then `c'
    num, result,        \* numChars and the line's bytes, one past the end too
    text,               \* history: the line as its typist edited it
    peak,               \* history: the highest numChars of this line
    overrun,            \* history: this line wrote the byte past its buffer
    last, again,        \* history: the last key ReadLine acted on, how often
    due                 \* history: a key pressed while ReadLine was waiting

shared == <<avail, buffer, lit>>
line   == <<num, result, text, peak, overrun>>
hist   == <<last, again>>
vars   == <<shared, pressed, pc, reg, line, hist, due>>

Modulus == BufLen + 1        \* numChars is a uint8_t and BufLen is 255

(* DataAvailible and buffer are never initialised.                         *)
Init ==
    /\ avail \in BOOLEAN
    /\ buffer \in [id : {0}, kind : Mapped \cup {"nul"}]
    /\ lit = [id |-> 0, kind |-> "char"]
    /\ pressed = 0
    /\ pc = "shell"
    /\ reg = lit
    /\ num = 0 /\ result = [i \in 0 .. BufLen |-> Nul]
    /\ text = <<>> /\ peak = 0 /\ overrun = FALSE
    /\ last = [id |-> 0, kind |-> "nul"] /\ again = 0
    /\ due = 0

----------------------------------------------------------------------------
(* The keyboard interrupt.                                                 *)

(* A wrong OnKeyDown for the mutation runs: the flag is forgotten.          *)
OnKeyDownSilent(key) ==
    /\ buffer' = key
    /\ UNCHANGED <<avail, lit>>

(* A key the driver maps: OnKeyDown.                                       *)
OnKeyDown(key) ==
    /\ buffer' = key
    /\ avail' = TRUE
    /\ UNCHANGED lit

(* A key it does not: two hex digits are printed from the interrupt, the   *)
(* last of which stays in the static string.                               *)
PrintScanCode(key) ==
    /\ lit' = key
    /\ UNCHANGED <<avail, buffer>>

Press ==
    /\ pressed < MaxKeys
    /\ pressed' = pressed + 1
    /\ \/ \E kind \in Mapped : OnKeyDown([id |-> pressed', kind |-> kind])
          /\ due' = IF pc = "wait" THEN pressed' ELSE due
       \/ PrintScanCode([id |-> pressed', kind |-> "char"]) /\ UNCHANGED due
    /\ UNCHANGED <<pc, reg, line, hist>>

----------------------------------------------------------------------------
(* The shell.                                                              *)

(* The same without the memset, for the mutation runs.                      *)
CallNoMemset ==
    /\ pc = "shell" /\ pc' = "wait"
    /\ num' = 0 /\ result' = result
    /\ text' = <<>> /\ peak' = 0 /\ overrun' = FALSE
    /\ UNCHANGED <<shared, pressed, reg, hist, due>>

(* Shell::Next up to the loop of ReadLine: prompt, malloc, memset.  What   *)
(* is printed passes through `lit', which ReadLine sets again before it    *)
(* reads it.                                                               *)
Call ==
    /\ pc = "shell" /\ pc' = "wait"
    /\ num' = 0 /\ result' = [i \in 0 .. BufLen |-> Nul]
    /\ text' = <<>> /\ peak' = 0 /\ overrun' = FALSE
    /\ UNCHANGED <<shared, pressed, reg, hist, due>>

(* while(!keyboard->DataAvailible);                                        *)
Wait ==
    /\ pc = "wait" /\ avail /\ pc' = "get"
    /\ UNCHANGED <<shared, pressed, reg, line, hist, due>>

(* A GetBuffer that leaves the flag set, for the mutation runs.             *)
GetFlagNot ==
    /\ pc = "get" /\ pc' = "read"
    /\ UNCHANGED <<shared, pressed, reg, line, hist, due>>

(* GetBuffer: clear the flag, read the buffer, then put it in the string.  *)
GetFlag ==
    /\ pc = "get" /\ pc' = "read"
    /\ avail' = FALSE
    /\ UNCHANGED <<buffer, lit, pressed, reg, line, hist, due>>

GetRead ==
    /\ pc = "read" /\ pc' = "lit"
    /\ reg' = buffer
    /\ UNCHANGED <<shared, pressed, line, hist, due>>

GetLit ==
    /\ pc = "lit" /\ pc' = "fetch"
    /\ lit' = reg
    /\ UNCHANGED <<avail, buffer, pressed, reg, line, hist, due>>

(* c = intput[i], once, unless the string is empty.                        *)
Fetch ==
    /\ pc = "fetch" /\ pc' = IF lit.kind = "nul" THEN "clear" ELSE "use"
    /\ reg' = lit
    /\ UNCHANGED <<shared, pressed, line, hist, due>>

Used ==
    /\ last' = reg
    /\ again' = IF reg = last THEN again + 1 ELSE 1

(* case '\n': return result.  Note that the buffer is not cleared.         *)
Newline ==
    /\ pc = "use" /\ reg.kind = "newline" /\ pc' = "shell"
    /\ Used
    /\ UNCHANGED <<shared, pressed, reg, line, due>>

(* A backspace that does not test numChars, for the mutation runs.          *)
BackspaceUnguarded ==
    /\ pc = "use" /\ reg.kind = "back" /\ pc' = "clear"
    /\ result' = [result EXCEPT ![num] = Blank]
    /\ num' = (num - 1) % Modulus
    /\ overrun' = (overrun \/ num = BufLen)
    /\ text' = SubSeq(text, 1, Len(text) - 1)
    /\ Used
    /\ UNCHANGED <<peak, shared, pressed, reg, due>>

(* case '\b'                                                               *)
Backspace ==
    /\ pc = "use" /\ reg.kind = "back" /\ pc' = "clear"
    /\ IF num > 0
       THEN /\ result' = [result EXCEPT ![num] = Blank]
            /\ num' = num - 1
            /\ overrun' = (overrun \/ num = BufLen)
            /\ text' = SubSeq(text, 1, Len(text) - 1)
            /\ UNCHANGED peak
       ELSE UNCHANGED line
    /\ Used
    /\ UNCHANGED <<shared, pressed, reg, due>>

(* A wider numChars, for the mutation runs.                                 *)
CharWide ==
    /\ pc = "use" /\ reg.kind = "char" /\ pc' = "clear"
    /\ result' = [result EXCEPT ![num] = reg.id]
    /\ num' = num + 1
    /\ overrun' = (overrun \/ num = BufLen)
    /\ text' = Append(text, reg.id)
    /\ peak' = IF num + 1 > peak THEN num + 1 ELSE peak
    /\ lit' = reg
    /\ Used
    /\ UNCHANGED <<avail, buffer, pressed, reg, due>>

(* default: store the character and echo it (through `lit').               *)
Char ==
    /\ pc = "use" /\ reg.kind = "char" /\ pc' = "clear"
    /\ result' = [result EXCEPT ![num] = reg.id]
    /\ num' = (num + 1) % Modulus
    /\ overrun' = (overrun \/ num = BufLen)
    /\ text' = Append(text, reg.id)
    /\ peak' = IF num + 1 > peak THEN num + 1 ELSE peak
    /\ lit' = reg
    /\ Used
    /\ UNCHANGED <<avail, buffer, pressed, reg, due>>

(* A ClearBuffer that clears nothing, for the mutation runs.                *)
ClearNothing ==
    /\ pc = "clear" /\ pc' = "wait"
    /\ UNCHANGED <<shared, pressed, reg, line, hist, due>>

(* keyboard->ClearBuffer()                                                 *)
ClearBuffer ==
    /\ pc = "clear" /\ pc' = "wait"
    /\ avail' = FALSE
    /\ UNCHANGED <<buffer, lit, pressed, reg, line, hist, due>>

Main ==
    \/ Call \/ Wait \/ GetFlag \/ GetRead \/ GetLit \/ Fetch
    \/ Newline \/ Backspace \/ Char \/ ClearBuffer

Next == Press \/ Main

(* The interrupt returns to the shell, which then goes on.  Nobody has to  *)
(* press a key.                                                            *)
Spec == Init /\ [][Next]_vars /\ WF_vars(Main)

----------------------------------------------------------------------------
TypeOK ==
    /\ avail \in BOOLEAN
    /\ buffer \in Key /\ lit \in Key /\ reg \in Key /\ last \in Key
    /\ pressed \in 0 .. MaxKeys
    /\ pc \in {"shell", "wait", "get", "read", "lit", "fetch", "use", "clear"}
    /\ num \in 0 .. BufLen
    /\ result \in [0 .. BufLen -> Nat \cup {Nul, Blank}]
    /\ text \in Seq(Nat)
    /\ peak \in Nat /\ again \in Nat /\ overrun \in BOOLEAN
    /\ due \in 0 .. MaxKeys

(* Keys are acted on in the order they were pressed, whenever the          *)
(* interrupt strikes: ReadLine never goes back to an older key.            *)
InOrder == [][last'.id >= last.id]_vars

(* One press is acted on once.  A newline, after which ReadLine returns    *)
(* without clearing the buffer, can count twice (pressed between the two   *)
(* statements of GetBuffer, it also ends the next line), but never three   *)
(* times.                                                                  *)
PressActsOnce == again <= IF last.kind = "newline" THEN 2 ELSE 1

(* As long as the line fits, its first numChars bytes are the characters   *)
(* as the typist edited them, whatever was typed, erased or pressed in     *)
(* between.                                                                *)
LineIsText ==
    peak <= BufLen =>
        /\ num = Len(text)
        /\ \A i \in 1 .. num : result[i - 1] = text[i]

(* A line that never had more than BufLen - 2 characters is safe to use as *)
(* a C string: nothing was written past the buffer, and a NUL ends it      *)
(* inside.  (One character more, and erasing it leaves a blank in the last *)
(* byte; two more, and numChars reaches the byte past the end.)            *)
ShortLineIsString ==
    peak <= BufLen - 2 =>
        /\ ~overrun
        /\ \E i \in 0 .. BufLen - 1 : result[i] = Nul

(* What holds of the line that ReadLine returns and of its buffer.         *)
LineInv == TypeOK /\ LineIsText /\ ShortLineIsString

(* A key pressed while ReadLine waits is acted on, unless a later key      *)
(* takes its place: the spin on DataAvailible misses no wake-up.           *)
WaitingKeyCounts == \A k \in 1 .. MaxKeys : due = k ~> last.id >= k
=============================================================================
