--------------------------- MODULE ConsoleProofs ---------------------------
(***************************************************************************)
(* Proofs about the console: about the line that is kept, ConsoleInput.tla,*)
(* for every length of the line and every number of keys, whenever the     *)
(* keyboard interrupt strikes, and about what the screen shows, Screen.tla,*)
(* for every size of the screen and every font.                            *)
(***************************************************************************)
EXTENDS ConsoleInput, SequenceTheorems, TLAPS

USE ConsoleInputAssumption

(* What has been written of the line lies below the highest numChars, or   *)
(* at it, where a backspace leaves a blank.                                *)
WrittenBelowPeak ==
    /\ num <= peak
    /\ overrun => peak >= BufLen
    /\ \A i \in 0 .. BufLen : i > peak => result[i] = Nul

(* No key is known that was not pressed.                                   *)
KeysPressed == \A key \in {buffer, lit, reg, last} : key.id <= pressed

(* The key on its way to ReadLine is not older than the last one it acted  *)
(* on.  Only a key that went through the buffer is a newline, which does   *)
(* not clear it.                                                           *)
NoOlderKey ==
    /\ pc \in {"shell", "wait"} /\ avail => last.id <= buffer.id
    /\ pc \in {"get", "read"} => last.id <= buffer.id
    /\ pc = "lit" => last.id <= reg.id /\ reg.id <= buffer.id
    /\ pc = "fetch" => /\ last.id <= lit.id
                       /\ lit.kind = "newline" => lit.id <= buffer.id
    /\ pc = "use" => /\ last.id <= reg.id
                     /\ reg.kind = "newline" => reg.id <= buffer.id

(* ReadLine may act once more on the last key, a newline it has acted on   *)
(* once.                                                                   *)
MayCountTwice == last.kind = "newline" /\ again = 1

(* Only such a key is on its way to ReadLine again; once it is, the flag   *)
(* does not announce it any more.                                          *)
OnceMore == last.kind # "nul" =>
    /\ pc \in {"shell", "wait"} /\ avail /\ buffer = last => MayCountTwice
    /\ pc = "get" /\ buffer = last => MayCountTwice
    /\ pc = "read" /\ buffer = last => MayCountTwice /\ ~avail
    /\ pc = "lit" /\ reg = last => MayCountTwice /\ (buffer = last => ~avail)
    /\ pc = "fetch" /\ lit = last => MayCountTwice /\ (buffer = last => ~avail)
    /\ pc = "use" /\ reg = last => MayCountTwice /\ (buffer = last => ~avail)

(* The inductive invariants.                                               *)
LineProof == LineInv /\ WrittenBelowPeak
KeyProof  == KeysPressed /\ NoOlderKey
InputInv  == LineProof /\ KeyProof

----------------------------------------------------------------------------
(* The shortest lines have room for their NUL.                             *)
LEMMA RoomForNul ==
    ASSUME TypeOK, WrittenBelowPeak
    PROVE  ShortLineIsString
<1> SUFFICES ASSUME peak <= BufLen - 2
             PROVE  ~overrun /\ \E i \in 0 .. BufLen - 1 : result[i] = Nul
  BY DEF ShortLineIsString
<1>1. BufLen - 1 \in 0 .. BufLen /\ BufLen - 1 > peak /\ ~(peak >= BufLen)
  BY DEF TypeOK
<1> QED
  BY <1>1 DEF WrittenBelowPeak

(* case '\b' of ReadLine.                                                  *)
LEMMA BackspaceKeepsLine == ASSUME LineProof, Backspace PROVE LineProof'
<1> USE DEF LineProof, LineInv
<1>1. CASE num > 0
  <2>1. /\ num' = num - 1 /\ peak' = peak
        /\ result' = [result EXCEPT ![num] = Blank]
        /\ text' = SubSeq(text, 1, Len(text) - 1)
        /\ overrun' = (overrun \/ num = BufLen)
    BY <1>1 DEF Backspace
  <2>2. /\ num \in 0 .. BufLen /\ peak \in Nat /\ text \in Seq(Nat) /\ overrun \in BOOLEAN
        /\ result \in [0 .. BufLen -> Nat \cup {Nul, Blank}]
    BY DEF TypeOK
  <2>3. result' \in [0 .. BufLen -> Nat \cup {Nul, Blank}]
    BY <2>1, <2>2
  <2>4. text' \in Seq(Nat)
    BY <2>1, <2>2
  <2>5. overrun' \in BOOLEAN /\ (overrun' => peak' >= BufLen)
    BY <2>1, <2>2 DEF WrittenBelowPeak
  <2>6. TypeOK'
    BY <1>1, <2>1, <2>2, <2>3, <2>4, <2>5 DEF Backspace, TypeOK, Used, Key, shared
  <2>7. WrittenBelowPeak'
    BY <1>1, <2>1, <2>2, <2>5 DEF WrittenBelowPeak
  <2>8. LineIsText'
    <3> SUFFICES ASSUME peak <= BufLen
                 PROVE  /\ num' = Len(text')
                        /\ \A i \in 1 .. num' : result'[i - 1] = text'[i]
      BY <2>1 DEF LineIsText
    <3>1. num = Len(text) /\ \A i \in 1 .. num : result[i - 1] = text[i]
      BY DEF LineIsText
    <3>2. /\ Len(text') = num - 1
          /\ \A i \in 1 .. num - 1 : text'[i] = text[i]
      BY <1>1, <2>1, <2>2, <3>1
    <3>3. \A i \in 1 .. num - 1 : result'[i - 1] = result[i - 1] /\ i \in 1 .. num
      BY <1>1, <2>1, <2>2
    <3> QED
      BY <2>1, <3>1, <3>2, <3>3
  <2>9. ShortLineIsString'
    <3>1. TypeOK' /\ WrittenBelowPeak'
      BY <2>6, <2>7
    <3>2. (TypeOK /\ WrittenBelowPeak => ShortLineIsString)'
      BY RoomForNul, PTL
    <3> QED
      BY <3>1, <3>2
  <2> QED
    BY <2>6, <2>7, <2>8, <2>9
<1>2. CASE ~(num > 0)
  BY <1>2 DEF Backspace, line, shared, TypeOK, Used, Key,
              WrittenBelowPeak, LineIsText, ShortLineIsString
<1> QED
  BY <1>1, <1>2

(* numChars wraps at 256 only.                                             *)
LEMMA BelowModulus == ASSUME NEW n \in 0 .. Modulus - 1 PROVE n % Modulus = n
BY DEF Modulus

(* The default case: a character is stored.                                *)
LEMMA CharKeepsLine == ASSUME LineProof, Char PROVE LineProof'
<1> USE DEF LineProof, LineInv
<1>1. /\ num' = (num + 1) % Modulus
      /\ peak' = IF num + 1 > peak THEN num + 1 ELSE peak
      /\ result' = [result EXCEPT ![num] = reg.id]
      /\ text' = Append(text, reg.id)
      /\ overrun' = (overrun \/ num = BufLen)
  BY DEF Char
<1>2. /\ num \in 0 .. BufLen /\ peak \in Nat /\ text \in Seq(Nat) /\ overrun \in BOOLEAN
      /\ result \in [0 .. BufLen -> Nat \cup {Nul, Blank}] /\ reg.id \in Nat
      /\ num <= peak
  BY DEF TypeOK, Key, WrittenBelowPeak
<1>3. num' = IF num = BufLen THEN 0 ELSE num + 1
  <2>1. CASE num = BufLen
    BY <1>1, <2>1 DEF Modulus
  <2>2. CASE num # BufLen
    <3>1. num + 1 \in 0 .. Modulus - 1
      BY <1>2, <2>2 DEF Modulus
    <3>2. (num + 1) % Modulus = num + 1
      BY <3>1, BelowModulus
    <3> QED
      BY <1>1, <2>2, <3>2
  <2> QED
    BY <2>1, <2>2
<1>4. /\ num' \in 0 .. BufLen /\ num' <= peak' /\ peak' \in Nat
      /\ num + 1 <= peak' /\ peak <= peak'
  BY <1>1, <1>2, <1>3
<1>5. result' \in [0 .. BufLen -> Nat \cup {Nul, Blank}]
  BY <1>1, <1>2
<1>6. overrun' \in BOOLEAN /\ (overrun' => peak' >= BufLen)
  BY <1>1, <1>2, <1>4 DEF WrittenBelowPeak
<1>7. TypeOK'
  <2>1. text' \in Seq(Nat)
    BY <1>1, <1>2
  <2> QED
    BY <1>4, <1>5, <1>6, <2>1 DEF Char, TypeOK, Used, Key
<1>8. WrittenBelowPeak'
  BY <1>1, <1>2, <1>4, <1>6 DEF WrittenBelowPeak
<1>9. LineIsText'
  <2> SUFFICES ASSUME peak' <= BufLen
               PROVE  /\ num' = Len(text')
                      /\ \A i \in 1 .. num' : result'[i - 1] = text'[i]
    BY DEF LineIsText
  <2>1. num = Len(text) /\ \A i \in 1 .. num : result[i - 1] = text[i]
    BY <1>2, <1>4 DEF LineIsText
  <2>2. num' = num + 1
    BY <1>2, <1>3, <1>4
  <2>3. /\ Len(text') = num + 1 /\ text'[num + 1] = reg.id
        /\ \A i \in 1 .. num : text'[i] = text[i]
    BY <1>1, <1>2, <2>1
  <2>4. /\ result'[num] = reg.id
        /\ \A i \in 1 .. num : result'[i - 1] = result[i - 1]
    BY <1>1, <1>2
  <2> QED
    BY <1>2, <2>1, <2>2, <2>3, <2>4
<1>10. ShortLineIsString'
  <2>1. (TypeOK /\ WrittenBelowPeak => ShortLineIsString)'
    BY RoomForNul, PTL
  <2> QED
    BY <1>7, <1>8, <2>1
<1> QED
  BY <1>7, <1>8, <1>9, <1>10

(* Every other step keeps the line, or begins a new one.                   *)
LEMMA LineStep == LineProof /\ [Next]_vars => LineProof'
<1> SUFFICES ASSUME LineProof, [Next]_vars PROVE LineProof'
  OBVIOUS
<1> USE DEF LineProof, LineInv
<1>1. ASSUME UNCHANGED line, TypeOK' PROVE LineProof'
  BY <1>1 DEF line, WrittenBelowPeak, LineIsText, ShortLineIsString
<1>2. CASE Press
  <2> DEFINE Typed(kind) == [id |-> pressed', kind |-> kind]
  <2>1. TypeOK'
    <3>1. pressed' = pressed + 1 /\ pressed' \in 0 .. MaxKeys
      BY <1>2 DEF Press, TypeOK
    <3>2. \A kind \in Mapped : Typed(kind) \in Key
      BY <3>1 DEF Key
    <3>3. buffer' \in Key /\ lit' \in Key /\ avail' \in BOOLEAN /\ due' \in 0 .. MaxKeys
      BY <1>2, <3>1, <3>2 DEF Press, OnKeyDown, PrintScanCode, TypeOK, Mapped
    <3> QED
      BY <1>2, <3>1, <3>3 DEF Press, TypeOK, line, hist
  <2> QED
    BY <1>1, <1>2, <2>1 DEF Press
<1>3. CASE Call
  <2>1. TypeOK'
    BY <1>3 DEF Call, TypeOK, shared, hist
  <2>2. LineIsText'
    <3>1. num' = 0 /\ text' = <<>>
      BY <1>3 DEF Call
    <3>2. Len(text') = 0 /\ 1 .. num' = {}
      BY <3>1
    <3> QED
      BY <3>1, <3>2 DEF LineIsText
  <2>3. WrittenBelowPeak' /\ ShortLineIsString'
    BY <1>3 DEF Call, WrittenBelowPeak, ShortLineIsString
  <2> QED
    BY <2>1, <2>2, <2>3
<1>4. CASE Wait \/ GetFlag \/ GetRead \/ GetLit \/ Fetch \/ ClearBuffer
  <2>1. TypeOK'
    BY <1>4 DEF Wait, GetFlag, GetRead, GetLit, Fetch, ClearBuffer, TypeOK, shared, line, hist
  <2>2. UNCHANGED line
    BY <1>4 DEF Wait, GetFlag, GetRead, GetLit, Fetch, ClearBuffer
  <2> QED
    BY <1>1, <2>1, <2>2
<1>5. CASE Newline
  <2>1. TypeOK'
    BY <1>5 DEF Newline, Used, TypeOK, shared, line
  <2> QED
    BY <1>1, <1>5, <2>1 DEF Newline
<1>6. CASE UNCHANGED vars
  <2>1. TypeOK' /\ UNCHANGED line
    BY <1>6 DEF vars, TypeOK, shared, line, hist
  <2> QED
    BY <1>1, <2>1
<1> QED
  BY <1>2, <1>3, <1>4, <1>5, <1>6, BackspaceKeepsLine, CharKeepsLine DEF Next, Main

(* Keys reach ReadLine in the order they were pressed.                     *)
LEMMA KeyStep ==
    ASSUME TypeOK, TypeOK', KeyProof, [Next]_vars
    PROVE  KeyProof' /\ last'.id >= last.id
<1> USE DEF KeyProof, KeysPressed, NoOlderKey
<1>0. /\ buffer.id \in Nat /\ lit.id \in Nat /\ reg.id \in Nat /\ last.id \in Nat
      /\ pressed \in Nat
  BY DEF TypeOK, Key
<1>1. CASE Press
  <2>1. PICK key : /\ key.id = pressed + 1
                   /\ \/ buffer' = key /\ UNCHANGED lit
                      \/ lit' = key /\ key.kind = "char" /\ UNCHANGED <<avail, buffer>>
    BY <1>1 DEF Press, OnKeyDown, PrintScanCode
  <2>2. pressed' = pressed + 1 /\ UNCHANGED <<pc, reg, last>>
    BY <1>1 DEF Press, hist
  <2>3. KeysPressed'
    BY <1>0, <2>1, <2>2
  <2>4. NoOlderKey'
    BY <1>0, <2>1, <2>2
  <2> QED
    BY <1>0, <2>2, <2>3, <2>4
<1>2. CASE Call
  BY <1>0, <1>2 DEF Call, shared, hist
<1>3. CASE Wait
  BY <1>0, <1>3 DEF Wait, shared, hist
<1>4. CASE GetFlag
  BY <1>0, <1>4 DEF GetFlag, hist
<1>5. CASE GetRead
  BY <1>0, <1>5 DEF GetRead, shared, hist
<1>6. CASE GetLit
  BY <1>0, <1>6 DEF GetLit, hist
<1>7. CASE Fetch
  BY <1>0, <1>7 DEF Fetch, shared, hist
<1>8. CASE Newline
  BY <1>0, <1>8 DEF Newline, Used, shared
<1>9. CASE Backspace
  BY <1>0, <1>9 DEF Backspace, Used, shared
<1>10. CASE Char
  BY <1>0, <1>10 DEF Char, Used
<1>11. CASE ClearBuffer
  BY <1>0, <1>11 DEF ClearBuffer, hist
<1>12. CASE UNCHANGED vars
  BY <1>0, <1>12 DEF vars, shared, hist
<1> QED
  BY <1>1, <1>2, <1>3, <1>4, <1>5, <1>6, <1>7, <1>8, <1>9, <1>10, <1>11, <1>12 DEF Next, Main

(* The steps for the line and for the keys together.                       *)
LEMMA InputStep == InputInv /\ [Next]_vars => InputInv' /\ last'.id >= last.id
<1> SUFFICES ASSUME InputInv, [Next]_vars PROVE InputInv' /\ last'.id >= last.id
  OBVIOUS
<1>1. LineProof'
  BY LineStep DEF InputInv
<1> QED
  BY <1>1, KeyStep DEF InputInv, LineProof, LineInv

(* A press is on its way to ReadLine once, a newline twice at most.        *)
LEMMA OnceStep ==
    ASSUME TypeOK, TypeOK', KeysPressed, OnceMore, PressActsOnce, [Next]_vars
    PROVE  OnceMore' /\ PressActsOnce'
<1> USE DEF OnceMore, PressActsOnce, MayCountTwice
<1>0. /\ buffer.id \in Nat /\ lit.id \in Nat /\ reg.id \in Nat /\ last.id \in Nat
      /\ pressed \in Nat /\ again \in Nat /\ avail \in BOOLEAN
  BY DEF TypeOK, Key
<1>1. CASE Press
  <2>1. PICK key : /\ key.id = pressed + 1
                   /\ \/ buffer' = key /\ UNCHANGED lit
                      \/ lit' = key /\ UNCHANGED <<avail, buffer>>
    BY <1>1 DEF Press, OnKeyDown, PrintScanCode
  <2>2. UNCHANGED <<pc, reg, last, again>>
    BY <1>1 DEF Press, hist
  <2>3. key # last
    BY <1>0, <2>1 DEF KeysPressed
  <2> QED
    BY <2>1, <2>2, <2>3
<1>2. CASE Call \/ Wait \/ GetFlag \/ GetRead \/ GetLit \/ Fetch \/ ClearBuffer
  BY <1>0, <1>2 DEF Call, Wait, GetFlag, GetRead, GetLit, Fetch, ClearBuffer, shared, hist
<1>3. CASE Newline
  BY <1>0, <1>3 DEF Newline, Used, shared
<1>4. CASE Backspace
  BY <1>0, <1>4 DEF Backspace, Used, shared
<1>5. CASE Char
  BY <1>0, <1>5 DEF Char, Used
<1>6. CASE UNCHANGED vars
  BY <1>0, <1>6 DEF vars, shared, hist
<1> QED
  BY <1>1, <1>2, <1>3, <1>4, <1>5, <1>6 DEF Next, Main

(* At first nothing is typed.                                              *)
LEMMA InputInit == Init => InputInv
<1> SUFFICES ASSUME Init PROVE InputInv
  OBVIOUS
<1> USE DEF Init
<1>1. TypeOK
  <2>1. buffer \in Key /\ lit \in Key /\ reg \in Key /\ last \in Key
    BY DEF Key, Mapped
  <2>2. result \in [0 .. BufLen -> Nat \cup {Nul, Blank}]
    OBVIOUS
  <2>3. text \in Seq(Nat) /\ pressed \in 0 .. MaxKeys /\ num \in 0 .. BufLen
    OBVIOUS
  <2>4. avail \in BOOLEAN /\ overrun \in BOOLEAN /\ peak \in Nat /\ again \in Nat
    OBVIOUS
  <2>5. due \in 0 .. MaxKeys
    OBVIOUS
  <2>6. pc \in {"shell", "wait", "get", "read", "lit", "fetch", "use", "clear"}
    OBVIOUS
  <2> HIDE DEF Init
  <2> QED
    BY <2>1, <2>2, <2>3, <2>4, <2>5, <2>6 DEF TypeOK
<1>2. LineIsText
  <2>1. Len(text) = 0 /\ 1 .. num = {}
    OBVIOUS
  <2> QED
    BY <2>1 DEF LineIsText
<1>3. WrittenBelowPeak
  BY DEF WrittenBelowPeak
<1>4. KeyProof
  BY DEF KeyProof, KeysPressed, NoOlderKey
<1> QED
  BY <1>1, <1>2, <1>3, <1>4, RoomForNul DEF InputInv, LineProof, LineInv

(* A line that fits holds just what was typed and not erased, and a short  *)
(* one is a terminated string, whatever keys are pressed meanwhile.        *)
THEOREM LineIsRight == Spec => []LineInv
<1>1. InputInv => LineInv
  BY DEF InputInv, LineProof
<1> QED
  BY <1>1, InputInit, InputStep, PTL DEF Spec

(* ReadLine never goes back to a key older than one it has acted on.       *)
THEOREM KeysInOrder == Spec => InOrder
<1>1. InputInv /\ [Next]_vars => InputInv' /\ [last'.id >= last.id]_vars
  BY InputStep
<1> QED
  BY <1>1, InputInit, PTL DEF Spec, InOrder

(* A press is acted on once, a newline never more than twice, wherever     *)
(* between the statements of GetBuffer and ClearBuffer the next key comes. *)
THEOREM PressesActOnce == Spec => []PressActsOnce
<1>1. Init => OnceMore /\ PressActsOnce
  BY DEF Init, OnceMore, PressActsOnce
<1>2. InputInv => TypeOK /\ KeysPressed
  BY DEF InputInv, LineProof, LineInv, KeyProof
<1>3. ASSUME InputInv, OnceMore, PressActsOnce, [Next]_vars
      PROVE  (InputInv /\ OnceMore /\ PressActsOnce)'
  <2>1. InputInv'
    BY <1>3, InputStep
  <2>2. TypeOK'
    BY <2>1 DEF InputInv, LineProof, LineInv
  <2> QED
    BY <1>2, <1>3, <2>1, <2>2, OnceStep
<1> QED
  BY <1>1, <1>3, InputInit, PTL DEF Spec

----------------------------------------------------------------------------
(* The screen.                                                             *)
CONSTANTS Width, Height, Glyphs, MaxLine

VARIABLES
    XOffset, YOffset, ink, shown, turn, at, glyph, seen, inside, residue, painted, torn

Scr == INSTANCE Screen WITH line <- shown

Spots == Int \X Int
Positions == [x : Int, y : Nat]
Cursors == [x : Int, y : Nat, ink : SUBSET Spots, painted : Nat, new : BOOLEAN]

(* A screen on which no text is ahead of a row and a column of it.         *)
Bare(px, row, col, res, rows) ==
    \A p \in px :
        \/ p[1] < row \/ p[1] < rows
        \/ p[1] = row /\ (p[2] < col \/ p[2] \in res)

ScreenTypes ==
    /\ XOffset \in Int /\ YOffset \in Nat /\ YOffset % 10 = 0
    /\ ink \subseteq Spots /\ shown \in Seq(Glyphs) /\ Len(shown) <= MaxLine
    /\ turn \in {"prompt", "read", "typed", "echoed", "command"}
    /\ at \in {"still", "drawn", "full", "wrapping", "down", "home", "scrolling", "scrolled",
               "measured", "erased", "entered", "cleared", "cleared, left"}
    /\ glyph \in [width : Nat, ink : BOOLEAN]
    /\ seen \in Positions /\ seen.y % 10 = 0
    /\ inside \in BOOLEAN /\ painted \in Nat /\ torn \in BOOLEAN

Bottom(who, where) ==
    (IF who = "command" THEN Height - 10 ELSE Height - 20)
    + (IF where \in {"down", "home", "scrolling", "scrolled"} THEN 10 ELSE 0)

Lowest == Bottom(turn, at)

(* What the shell has read of the cursor is as far from the end of the     *)
(* screen as the cursor, and it is the cursor unless a handler came at the *)
(* wrong moment.                                                           *)
ScreenPlaces ==
    /\ ~torn /\ ~inside => seen.x = XOffset /\ seen.y = YOffset
    /\ inside => XOffset + 10 <= Width /\ (at \in Scr!Safe \/ torn)
    /\ YOffset <= Lowest /\ seen.y <= Lowest
    /\ seen.y <= Height - 20 => YOffset <= Height - 20
    /\ seen.y > Height - 20 => YOffset >= Height - 20
    /\ at \in {"scrolling", "scrolled"} => YOffset >= Height - 20 /\ seen.y >= Height - 20
    /\ at \notin {"full", "wrapping", "down"} => XOffset + 10 <= Width /\ seen.x + 10 <= Width
    /\ at = "full" => Scr!TooFar(seen.x) \/ XOffset + 10 <= Width
    /\ XOffset < 0 \/ seen.x < 0 => turn \in {"read", "typed", "echoed"} \/ at = "entered"
    /\ at \in {"entered", "cleared", "cleared, left"} => turn = "command"
    /\ at \in {"measured", "erased"} => turn = "read"

(* Where the text goes on once a character has been drawn, or erased.      *)
Edge(x) ==
    CASE at = "drawn" -> x + glyph.width
      [] at = "erased" -> x - glyph.width
      [] OTHER -> x

ScreenBlank ==
    ~torn =>
      /\ Bare(ink, Scr!TextRow, Edge(XOffset), residue, painted)
      /\ at \in {"down", "entered"} => Bare(ink, Scr!TextRow - 1, XOffset, Int, painted)
      /\ at \in {"cleared", "cleared, left"} => ink = {}

ScreenProof == ScreenTypes /\ ScreenPlaces /\ ScreenBlank

(* The screen is empty at first.                                           *)
LEMMA ScreenBegins ==
    ASSUME Scr!ConstantsOK, Scr!Init PROVE ScreenProof
<1>1. /\ XOffset = 0 /\ YOffset = 0 /\ ink = {} /\ shown = <<>>
      /\ turn = "command" /\ at = "still" /\ glyph = [width |-> 0, ink |-> FALSE]
      /\ seen = [x |-> 0, y |-> 0] /\ inside = FALSE
      /\ residue = {} /\ painted = 0 /\ torn = FALSE
  BY DEF Scr!Init, Scr!NoGlyph
<1>2. shown \in Seq(Glyphs) /\ Len(shown) = 0 /\ seen.x = 0 /\ seen.y = 0 /\ 0 % 10 = 0
  BY <1>1
<1>3. ScreenTypes
  <2>1. glyph \in [width : Nat, ink : BOOLEAN] /\ seen \in Positions
    BY <1>1 DEF Positions
  <2>2. /\ XOffset \in Int /\ YOffset \in Nat /\ YOffset % 10 = 0 /\ seen.y % 10 = 0
        /\ Len(shown) <= MaxLine /\ painted \in Nat
    BY <1>1, <1>2 DEF Scr!ConstantsOK
  <2>3. ink \subseteq Spots /\ inside \in BOOLEAN /\ torn \in BOOLEAN
    BY <1>1
  <2> QED
    BY <1>1, <1>2, <2>1, <2>2, <2>3, Zenon DEF ScreenTypes
<1>4. Lowest = Height - 10
  BY <1>1 DEF Lowest, Bottom, Scr!ConstantsOK
<1>5. ScreenPlaces
  BY <1>1, <1>2, <1>4 DEF ScreenPlaces, Scr!ConstantsOK
<1>6. ScreenBlank
  BY <1>1 DEF ScreenBlank, Bare
<1> QED
  BY <1>3, <1>5, <1>6 DEF ScreenProof

(* The bounds of the screen, and the cursor, as numbers.                   *)
LEMMA ScreenNumbers ==
    ASSUME Scr!ConstantsOK, ScreenTypes
    PROVE  /\ Width \in Nat /\ Width > 10 /\ Height \in Nat /\ Height >= 30 /\ MaxLine \in Nat
           /\ Scr!Deepest \in {Height - 10, Height - 20}
                /\ Lowest \in {Scr!Deepest, Scr!Deepest + 10}
           /\ Scr!Deepest \in Int /\ Lowest \in Int
           /\ at \notin Scr!Moving => Lowest = Scr!Deepest
           /\ XOffset \in Int /\ YOffset \in Nat /\ seen.x \in Int /\ seen.y \in Nat
           /\ glyph.width \in Nat
<1>1. Width \in Nat /\ Width > 10 /\ Height \in Nat /\ Height >= 30 /\ MaxLine \in Nat
  BY DEF Scr!ConstantsOK
<1>2. Scr!Deepest \in {Height - 10, Height - 20} /\ Scr!Deepest \in Int
  BY <1>1 DEF Scr!Deepest
<1>3. Lowest \in {Scr!Deepest, Scr!Deepest + 10} /\ Lowest \in Int
        /\ (at \notin Scr!Moving => Lowest = Scr!Deepest)
  BY <1>1 DEF Lowest, Bottom, Scr!Deepest, Scr!Moving
<1>4. XOffset \in Int /\ YOffset \in Nat /\ seen.x \in Int /\ seen.y \in Nat /\ glyph.width \in Nat
  BY DEF ScreenTypes, Positions
<1> QED
  BY <1>1, <1>2, <1>3, <1>4

(* What is to be seen follows.                                             *)
LEMMA ScreenSuffices ==
    ASSUME Scr!ConstantsOK, ScreenProof PROVE Scr!ScreenInv
<1>1. Scr!TypeOK
  BY DEF Scr!TypeOK, ScreenProof, ScreenTypes
<1>2. Scr!OnScreen
  <2>1. ScreenTypes /\ YOffset <= Lowest /\ seen.y <= Lowest
    BY DEF ScreenProof, ScreenPlaces
  <2>2. YOffset <= Height
    BY <2>1, ScreenNumbers
  <2>3. ASSUME at \notin Scr!Moving, NEW pos \in {seen, [x |-> XOffset, y |-> YOffset]}
        PROVE  /\ pos.y \in 0 .. Scr!Deepest /\ pos.x + 10 <= Width
               /\ pos.x < 0 => turn \in {"read", "typed", "echoed"} \/ at = "entered"
    <3>1. pos.x \in {seen.x, XOffset} /\ pos.y \in {seen.y, YOffset}
      BY <2>3
    <3>2. at \notin {"full", "wrapping", "down"}
      BY <2>3 DEF Scr!Moving
    <3>3. /\ XOffset + 10 <= Width /\ seen.x + 10 <= Width
          /\ XOffset < 0 \/ seen.x < 0 => turn \in {"read", "typed", "echoed"} \/ at = "entered"
      BY <3>2 DEF ScreenProof, ScreenPlaces
    <3>4. pos.y \in 0 .. Scr!Deepest
      BY <2>1, <2>3, <3>1, ScreenNumbers
    <3> QED
      BY <3>1, <3>3, <3>4
  <2> QED
    BY <2>2, <2>3 DEF Scr!OnScreen
<1>3. Scr!BlankAhead
  <2> SUFFICES ASSUME ~torn, NEW p \in ink
               PROVE  \/ p[1] < Scr!TextRow \/ p[1] < painted
                      \/ p[1] = Scr!TextRow /\ (p[2] < Scr!TextColumn \/ p[2] \in residue)
    BY DEF Scr!BlankAhead
  <2>1. Edge(XOffset) \in Int /\ Scr!TextColumn \in Int /\ Edge(XOffset) <= Scr!TextColumn
          /\ p[2] \in Int
    <3>1. XOffset \in Int /\ glyph.width \in Nat /\ ink \subseteq Spots
      BY ScreenNumbers DEF ScreenProof, ScreenTypes
    <3>2. p[2] \in Int
      BY <3>1 DEF Spots
    <3>3. Edge(XOffset) \in Int /\ Scr!TextColumn \in Int /\ Edge(XOffset) <= Scr!TextColumn
      BY <3>1 DEF Edge, Scr!TextColumn
    <3> QED
      BY <3>2, <3>3
  <2>2. \/ p[1] < Scr!TextRow \/ p[1] < painted
        \/ p[1] = Scr!TextRow /\ (p[2] < Edge(XOffset) \/ p[2] \in residue)
    BY DEF Bare, ScreenProof, ScreenBlank
  <2> QED
    BY <2>1, <2>2
<1> QED
  BY <1>1, <1>2, <1>3 DEF Scr!ScreenInv

(* The rows of text, ten rows of pixels each.                              *)
LEMMA Rows ==
    ASSUME Scr!ConstantsOK, NEW y \in Nat, y % 10 = 0
    PROVE  /\ Scr!Row(y) \in Nat /\ Scr!Row(y + 10) = Scr!Row(y) + 1 /\ (y + 10) % 10 = 0
           /\ y >= 10 => y - 10 \in Nat /\ (y - 10) % 10 = 0 /\ Scr!Row(y - 10) = Scr!Row(y) - 1
           /\ y > Height - 20 => y >= Height - 10
<1>1. PICK k \in Nat : y = 10 * k
  BY y = 10 * (y \div 10) /\ y \div 10 \in Nat
<1>2. PICK m \in Nat : Height = 10 * m
  <2>1. Height = 10 * (Height \div 10) /\ Height \div 10 \in Nat
    BY DEF Scr!ConstantsOK
  <2> QED
    BY <2>1
<1> QED
  BY <1>1, <1>2 DEF Scr!ConstantsOK, Scr!Row

(* A screen that moves up, or is cut off above the cursor, or on which the *)
(* text goes on in a new row, is as bare as it was.                        *)
LEMMA BareScrolls ==
    ASSUME NEW px \in SUBSET Spots, NEW row \in Int, NEW col, NEW res, NEW rows \in Nat,
           Bare(px, row, col, res, rows)
    PROVE  /\ Scr!ScrollDown(px) \in SUBSET Spots /\ Scr!Fewer(rows) \in Nat
           /\ Bare(Scr!ScrollDown(px), row - 1, col, res, Scr!Fewer(rows))
<1>1. ASSUME NEW p \in Scr!ScrollDown(px)
      PROVE  \E q \in px : p = <<q[1] - 1, q[2]>> /\ q[1] \in Int /\ q[2] \in Int
  BY <1>1 DEF Scr!ScrollDown, Spots
<1>2. Scr!ScrollDown(px) \in SUBSET Spots
  BY <1>1 DEF Spots
<1>3. Scr!Fewer(rows) \in Nat /\ \A r \in Int : r < rows => r - 1 < Scr!Fewer(rows)
  BY DEF Scr!Fewer
<1>4. Bare(Scr!ScrollDown(px), row - 1, col, res, Scr!Fewer(rows))
  <2> SUFFICES ASSUME NEW p \in Scr!ScrollDown(px)
               PROVE  \/ p[1] < row - 1 \/ p[1] < Scr!Fewer(rows)
                      \/ p[1] = row - 1 /\ (p[2] < col \/ p[2] \in res)
    BY DEF Bare
  <2>1. PICK q \in px : p = <<q[1] - 1, q[2]>> /\ q[1] \in Int /\ q[2] \in Int
    BY <1>1
  <2>2. p[1] = q[1] - 1 /\ p[2] = q[2]
    BY <2>1
  <2>3. q[1] < row \/ q[1] < rows \/ (q[1] = row /\ (q[2] < col \/ q[2] \in res))
    BY DEF Bare
  <2>4. CASE q[1] < row
    BY <2>1, <2>2, <2>4
  <2>5. CASE q[1] < rows
    BY <1>3, <2>1, <2>2, <2>5
  <2>6. CASE q[1] = row /\ (q[2] < col \/ q[2] \in res)
    BY <2>2, <2>6
  <2> QED
    BY <2>3, <2>4, <2>5, <2>6
<1> QED
  BY <1>2, <1>3, <1>4

LEMMA BareBelow ==
    ASSUME NEW px \in SUBSET Spots, NEW row \in Int, NEW col, NEW res, NEW rows,
           Bare(px, row, col, res, rows), NEW next, NEW left
    PROVE  Bare(px, row + 1, next, left, rows)
  BY DEF Bare, Spots

LEMMA BareKept ==
    ASSUME NEW px \in SUBSET Spots, NEW row, NEW col, NEW res, NEW rows,
           Bare(px, row, col, res, rows), NEW y
    PROVE  Scr!Kept(px, y) \in SUBSET Spots /\ Bare(Scr!Kept(px, y), row, col, res, rows)
  BY DEF Bare, Scr!Kept

LEMMA BareDraws ==
    ASSUME NEW px \in SUBSET Spots, NEW pos, NEW row \in Int, NEW k \in Nat, NEW res, NEW rows,
           row = Scr!Row(pos.y), pos.x \in Int, NEW g, g \in [width : Nat, ink : BOOLEAN],
           Bare(px, row, pos.x + k, res, rows)
    PROVE  /\ px \cup Scr!Drawn(pos, g) \in SUBSET Spots
           /\ Bare(px \cup Scr!Drawn(pos, g), row, pos.x + g.width + k, res, rows)
<1>1. ASSUME NEW p \in Scr!Drawn(pos, g)
      PROVE  p \in Spots /\ p[1] = row /\ p[2] < pos.x + g.width + k
  <2>1. PICK c \in pos.x .. pos.x + g.width - 1 : p = <<row, c>>
    BY <1>1 DEF Scr!Drawn
  <2>2. c \in Int /\ c < pos.x + g.width + k
    BY <2>1
  <2> QED
    BY <2>1, <2>2 DEF Spots
<1>2. ASSUME NEW p \in px
      PROVE  \/ p[1] < row \/ p[1] < rows
             \/ p[1] = row /\ (p[2] < pos.x + g.width + k \/ p[2] \in res)
  <2>1. p[2] \in Int
    BY DEF Spots
  <2>2. p[1] < row \/ p[1] < rows \/ (p[1] = row /\ (p[2] < pos.x + k \/ p[2] \in res))
    BY DEF Bare
  <2>3. p[2] < pos.x + k => p[2] < pos.x + g.width + k
    BY <2>1
  <2> QED
    BY <2>2, <2>3
<1> QED
  BY <1>1, <1>2 DEF Bare

(* A cursor that a handler has come to with its text.                      *)
Written(cur) ==
    /\ cur \in Cursors /\ cur.y % 10 = 0 /\ cur.y <= Lowest
    /\ YOffset >= Height - 20 => cur.y >= Height - 20
    /\ YOffset <= Height - 20 => cur.y <= Height - 20
    /\ cur.x < 0 => XOffset < 0
    /\ ~torn /\ at \in Scr!Safe =>
           Bare(cur.ink, Scr!Row(cur.y), Edge(cur.x), IF cur.new THEN {} ELSE residue, cur.painted)

LEMMA WrittenYet ==
    ASSUME Scr!ConstantsOK, ScreenProof PROVE Written(Scr!Cursor)
<1>1. ScreenTypes /\ YOffset <= Lowest /\ ScreenBlank
  BY DEF ScreenProof, ScreenPlaces
<1>2. PICK c : c = Scr!Cursor
  OBVIOUS
<1>3. /\ c \in Cursors /\ c.x = XOffset /\ c.y = YOffset /\ c.ink = ink
      /\ c.painted = painted /\ c.new = FALSE
  BY <1>1, <1>2 DEF Scr!Cursor, Cursors, ScreenTypes
<1>4. ASSUME ~torn, at \in Scr!Safe
      PROVE  Bare(ink, Scr!Row(YOffset), Edge(XOffset), residue, painted)
  BY <1>1, <1>4 DEF ScreenBlank, Scr!TextRow, Scr!Safe
<1>5. c.y % 10 = 0
  BY <1>1, <1>3 DEF ScreenTypes
<1> QED
  BY <1>1, <1>2, <1>3, <1>4, <1>5 DEF Written

(* Where a handler may come between the statements, the text goes on as    *)
(* far behind the cursor as before.                                        *)
LEMMA Edges ==
    ASSUME ScreenTypes, at \in Scr!Safe
    PROVE  \E k \in Nat : \A x \in Int : Edge(x) = x + k
<1>1. glyph.width \in Nat
  BY DEF ScreenTypes
<1>2. CASE at = "drawn"
  BY <1>1, <1>2 DEF Edge
<1>3. CASE at # "drawn"
  <2>1. \A x \in Int : Edge(x) = x + 0
    BY <1>3 DEF Edge, Scr!Safe
  <2> QED
    BY <2>1
<1> QED
  BY <1>2, <1>3

LEMMA WrittenScrolled ==
    ASSUME Scr!ConstantsOK, ScreenProof, NEW cur, Written(cur)
    PROVE  Written(Scr!Scrolled(cur)) /\ Scr!Scrolled(cur).x = cur.x
<1>1. /\ cur \in Cursors /\ cur.y \in Nat /\ cur.x \in Int /\ cur.ink \in SUBSET Spots
      /\ cur.painted \in Nat /\ cur.new \in BOOLEAN /\ cur.y % 10 = 0 /\ cur.y <= Lowest
      /\ YOffset >= Height - 20 => cur.y >= Height - 20
      /\ YOffset <= Height - 20 => cur.y <= Height - 20
      /\ cur.x < 0 => XOffset < 0
  BY DEF Written, Cursors
<1>2. /\ Height \in Nat /\ Height >= 30 /\ Lowest \in Int /\ YOffset \in Nat
  BY ScreenNumbers DEF ScreenProof
<1>3. CASE ~Scr!MustScroll(cur.y)
  BY <1>1, <1>2, <1>3 DEF Scr!Scrolled, Scr!MustScroll
<1>4. CASE Scr!MustScroll(cur.y)
  <2>1. /\ cur.y > Height - 20 /\ cur.y - 10 \in Nat /\ (cur.y - 10) % 10 = 0
        /\ Scr!Row(cur.y - 10) = Scr!Row(cur.y) - 1 /\ cur.y >= Height - 10
             /\ Scr!Row(cur.y) \in Nat
    BY <1>1, <1>2, <1>4, Rows DEF Scr!MustScroll
  <2>2. PICK c : c = Scr!Scrolled(cur)
    OBVIOUS
  <2>3. Scr!ScrollDown(cur.ink) \in SUBSET Spots /\ Scr!Fewer(cur.painted) \in Nat
    <3>1. \A p \in Scr!ScrollDown(cur.ink) : p \in Spots
      BY <1>1 DEF Scr!ScrollDown, Spots
    <3> QED
      BY <1>1, <3>1 DEF Scr!Fewer
  <2>4. c = [x |-> cur.x, y |-> cur.y - 10, ink |-> Scr!ScrollDown(cur.ink),
             painted |-> Scr!Fewer(cur.painted), new |-> cur.new]
    BY <1>1, <1>4, <2>2 DEF Scr!Scrolled, Cursors
  <2>5. /\ c \in Cursors /\ c.x = cur.x /\ c.y = cur.y - 10 /\ c.ink = Scr!ScrollDown(cur.ink)
        /\ c.painted = Scr!Fewer(cur.painted) /\ c.new = cur.new
    BY <1>1, <2>1, <2>3, <2>4 DEF Cursors
  <2>6. ASSUME ~torn, at \in Scr!Safe
        PROVE  Bare(c.ink, Scr!Row(c.y), Edge(c.x), IF c.new THEN {} ELSE residue, c.painted)
    <3>1. PICK res : res = IF c.new THEN {} ELSE residue
      OBVIOUS
    <3>2. Bare(cur.ink, Scr!Row(cur.y), Edge(cur.x), res, cur.painted)
      BY <2>5, <2>6, <3>1 DEF Written
    <3> QED
      BY <1>1, <2>1, <2>5, <3>1, <3>2, BareScrolls
  <2>7. c.y % 10 = 0 /\ c.y <= Lowest /\ c.y >= Height - 20
    BY <1>1, <1>2, <2>1, <2>5
  <2>8. YOffset > Height - 20
    BY <1>1, <1>2, <2>1
  <2>9. Written(c)
    BY <1>1, <1>2, <2>5, <2>6, <2>7, <2>8 DEF Written
  <2> QED
    BY <2>2, <2>5, <2>9
<1> QED
  BY <1>3, <1>4

LEMMA WrittenNewLine ==
    ASSUME Scr!ConstantsOK, ScreenProof, NEW cur, Written(cur)
    PROVE  Written(Scr!NewLine(cur)) /\ Scr!NewLine(cur).x = 0
<1>1. /\ cur \in Cursors /\ cur.y \in Nat /\ cur.x \in Int /\ cur.ink \in SUBSET Spots
      /\ cur.painted \in Nat /\ cur.new \in BOOLEAN /\ cur.y % 10 = 0 /\ cur.y <= Lowest
      /\ YOffset >= Height - 20 => cur.y >= Height - 20
      /\ YOffset <= Height - 20 => cur.y <= Height - 20
  BY DEF Written, Cursors
<1>2. /\ Height \in Nat /\ Height >= 30 /\ Lowest \in Int /\ YOffset \in Nat /\ XOffset \in Int
      /\ Lowest >= Height - 20
  BY ScreenNumbers DEF ScreenProof
<1>3. PICK y \in Nat : y = cur.y + 10 /\ y % 10 = 0 /\ Scr!Row(y) = Scr!Row(cur.y) + 1
             /\ Scr!Row(cur.y) \in Nat
  BY <1>1, Rows
<1>4. PICK next : next = [cur EXCEPT !.x = 0, !.y = @ + 10, !.new = TRUE]
  OBVIOUS
<1>5. next = [x |-> 0, y |-> y, ink |-> cur.ink, painted |-> cur.painted, new |-> TRUE]
  BY <1>1, <1>3, <1>4 DEF Cursors
<1>6. /\ next \in Cursors /\ next.x = 0 /\ next.y = y /\ next.ink = cur.ink
      /\ next.painted = cur.painted /\ next.new = TRUE
  BY <1>1, <1>3, <1>5 DEF Cursors
<1>7. Scr!NewLine(cur) = Scr!Scrolled(next)
  BY <1>4 DEF Scr!NewLine
<1>8. ASSUME ~torn, at \in Scr!Safe
      PROVE  Bare(cur.ink, Scr!Row(y), Edge(0), {}, cur.painted)
  <2>1. PICK res : res = IF cur.new THEN {} ELSE residue
    OBVIOUS
  <2>2. Bare(cur.ink, Scr!Row(cur.y), Edge(cur.x), res, cur.painted)
    BY <1>8, <2>1 DEF Written
  <2> QED
    BY <1>1, <1>3, <2>2, BareBelow
<1>9. CASE ~Scr!MustScroll(y)
  <2>1. y <= Height - 20
    BY <1>2, <1>3, <1>9 DEF Scr!MustScroll
  <2>2. YOffset < Height - 20
    BY <1>1, <1>2, <1>3, <2>1
  <2>3. Scr!Scrolled(next) = next
    BY <1>6, <1>9 DEF Scr!Scrolled
  <2>4. Written(next)
    BY <1>2, <1>3, <1>6, <1>8, <2>1, <2>2 DEF Written
  <2> QED
    BY <1>6, <1>7, <2>3, <2>4
<1>10. CASE Scr!MustScroll(y)
  <2>1. y - 10 = cur.y /\ Scr!Row(cur.y) = Scr!Row(y) - 1 /\ cur.y >= Height - 20
    <3>1. y > Height - 20
      BY <1>10 DEF Scr!MustScroll
    <3>2. y >= Height - 10
      BY <1>3, <3>1, Rows
    <3> QED
      BY <1>1, <1>2, <1>3, <3>2
  <2>2. Scr!ScrollDown(cur.ink) \in SUBSET Spots /\ Scr!Fewer(cur.painted) \in Nat
    <3>1. \A p \in Scr!ScrollDown(cur.ink) : p \in Spots
      BY <1>1 DEF Scr!ScrollDown, Spots
    <3> QED
      BY <1>1, <3>1 DEF Scr!Fewer
  <2>3. PICK c : c = Scr!Scrolled(next)
    OBVIOUS
  <2>4. c = [x |-> 0, y |-> cur.y, ink |-> Scr!ScrollDown(cur.ink),
             painted |-> Scr!Fewer(cur.painted), new |-> TRUE]
    BY <1>5, <1>6, <1>10, <2>1, <2>3 DEF Scr!Scrolled
  <2>5. /\ c \in Cursors /\ c.x = 0 /\ c.y = cur.y /\ c.ink = Scr!ScrollDown(cur.ink)
        /\ c.painted = Scr!Fewer(cur.painted) /\ c.new = TRUE
    BY <1>1, <2>2, <2>4 DEF Cursors
  <2>6. ASSUME ~torn, at \in Scr!Safe
        PROVE  Bare(c.ink, Scr!Row(c.y), Edge(c.x), {}, c.painted)
    <3>1. Scr!Row(y) \in Int
      BY <1>3
    <3> QED
      BY <1>1, <1>8, <2>1, <2>5, <2>6, <3>1, BareScrolls
  <2>7. Written(c)
    BY <1>1, <1>2, <2>1, <2>5, <2>6 DEF Written
  <2> QED
    BY <1>7, <2>3, <2>5, <2>7
<1> QED
  BY <1>9, <1>10

LEMMA WrittenCharacter ==
    ASSUME Scr!ConstantsOK, ScreenProof, NEW cur, Written(cur), NEW g \in Glyphs
    PROVE  Written(Scr!Character(cur, g)) /\ Scr!Character(cur, g).x + 10 <= Width
<1>1. /\ cur \in Cursors /\ cur.y \in Nat /\ cur.x \in Int /\ cur.ink \in SUBSET Spots
      /\ cur.painted \in Nat /\ cur.new \in BOOLEAN
  BY DEF Written, Cursors
<1>2. Width \in Nat /\ Width > 10 /\ XOffset \in Int
  BY ScreenNumbers DEF ScreenProof
<1>3. g \in [width : Nat, ink : BOOLEAN] /\ g.width \in Nat
  BY DEF Scr!ConstantsOK
<1>4. PICK px : px = cur.ink \cup Scr!Drawn(cur, g)
  OBVIOUS
<1>5. PICK drawn : drawn = [cur EXCEPT !.ink = @ \cup Scr!Drawn(cur, g), !.x = @ + g.width]
  OBVIOUS
<1>6. px \in SUBSET Spots
  <2>1. ASSUME NEW p \in Scr!Drawn(cur, g) PROVE p \in Spots
    <3>1. PICK c \in cur.x .. cur.x + g.width - 1 : p = <<Scr!Row(cur.y), c>>
      BY <2>1 DEF Scr!Drawn
    <3>2. Scr!Row(cur.y) \in Int
      BY <1>1, Rows DEF Written
    <3> QED
      BY <3>1, <3>2 DEF Spots
  <2> QED
    BY <1>1, <1>4, <2>1
<1>7. drawn = [x |-> cur.x + g.width, y |-> cur.y, ink |-> px, painted |-> cur.painted,
        new |-> cur.new]
  BY <1>1, <1>4, <1>5 DEF Cursors
<1>8. /\ drawn \in Cursors /\ drawn.x = cur.x + g.width /\ drawn.y = cur.y /\ drawn.ink = px
      /\ drawn.painted = cur.painted /\ drawn.new = cur.new
  BY <1>1, <1>3, <1>6, <1>7 DEF Cursors
<1>9. ASSUME ~torn, at \in Scr!Safe
      PROVE  Bare(px, Scr!Row(cur.y), Edge(drawn.x), IF cur.new THEN {} ELSE residue, cur.painted)
  <2>1. PICK k \in Nat : \A x \in Int : Edge(x) = x + k
    BY <1>9, Edges DEF ScreenProof
  <2>2. PICK res : res = IF cur.new THEN {} ELSE residue
    OBVIOUS
  <2>3. Bare(cur.ink, Scr!Row(cur.y), cur.x + k, res, cur.painted)
    BY <1>1, <1>9, <2>1, <2>2 DEF Written
  <2>4. Scr!Row(cur.y) \in Int
    BY <1>1, Rows DEF Written
  <2>5. Bare(px, Scr!Row(cur.y), cur.x + g.width + k, res, cur.painted)
    BY <1>1, <1>3, <1>4, <2>3, <2>4, BareDraws
  <2>6. Edge(drawn.x) = cur.x + g.width + k
    BY <1>1, <1>3, <1>8, <2>1
  <2> QED
    BY <2>2, <2>5, <2>6
<1>10. Written(drawn)
  <2>1. drawn.x < 0 => XOffset < 0
    BY <1>1, <1>3, <1>8 DEF Written
  <2> QED
    BY <1>8, <1>9, <2>1 DEF Written
<1>11. Scr!Character(cur, g) = IF Scr!TooFar(drawn.x) THEN Scr!NewLine(drawn) ELSE drawn
  BY <1>5 DEF Scr!Character
<1>12. CASE Scr!TooFar(drawn.x)
  BY <1>2, <1>10, <1>11, <1>12, WrittenNewLine
<1>13. CASE ~Scr!TooFar(drawn.x)
  BY <1>1, <1>2, <1>3, <1>8, <1>10, <1>11, <1>13 DEF Scr!TooFar
<1> QED
  BY <1>12, <1>13

(* A handler's text keeps the invariant, if the shell goes by nothing that *)
(* it has changed, or the screen counts as torn.                           *)
LEMMA HandlerKeeps ==
    ASSUME Scr!ConstantsOK, ScreenProof, NEW cur, Written(cur), cur.x + 10 <= Width,
             Scr!MoveTo(cur),
           torn' \in BOOLEAN, ~torn' => ~torn /\ at \in Scr!Safe /\ glyph' = glyph,
           inside' \in BOOLEAN, UNCHANGED <<shown, turn, at>>,
           glyph' \in [width : Nat, ink : BOOLEAN],
           seen' = seen \/ seen' = [x |-> cur.x, y |-> cur.y],
           ~torn' /\ ~inside' => seen' = [x |-> cur.x, y |-> cur.y]
    PROVE  ScreenProof'
<1>1. /\ cur \in Cursors /\ cur.y \in Nat /\ cur.x \in Int /\ cur.ink \in SUBSET Spots
      /\ cur.painted \in Nat /\ cur.new \in BOOLEAN /\ cur.y % 10 = 0 /\ cur.y <= Lowest
      /\ YOffset >= Height - 20 => cur.y >= Height - 20
      /\ YOffset <= Height - 20 => cur.y <= Height - 20
      /\ cur.x < 0 => XOffset < 0
  BY DEF Written, Cursors
<1>2. /\ XOffset' = cur.x /\ YOffset' = cur.y
      /\ ink' = IF torn' THEN {} ELSE Scr!Kept(cur.ink, cur.y)
      /\ residue' = IF torn' \/ cur.new THEN {} ELSE residue
      /\ painted' = IF torn' THEN 0 ELSE cur.painted
      /\ shown' = shown /\ turn' = turn /\ at' = at
  BY DEF Scr!MoveTo
<1>3. /\ seen' \in Positions /\ seen'.y % 10 = 0
      /\ (seen'.x = seen.x /\ seen'.y = seen.y) \/ (seen'.x = cur.x /\ seen'.y = cur.y)
      /\ ~torn' /\ ~inside' => seen'.x = cur.x /\ seen'.y = cur.y
  <2>1. seen \in Positions /\ seen.y % 10 = 0
    BY DEF ScreenProof, ScreenTypes
  <2> QED
    BY <1>1, <2>1 DEF Positions
<1>4. ScreenTypes'
  <2>1. ink' \subseteq Spots /\ painted' \in Nat
    BY <1>1, <1>2 DEF Scr!Kept
  <2>2. /\ shown \in Seq(Glyphs) /\ Len(shown) <= MaxLine
        /\ turn \in {"prompt", "read", "typed", "echoed", "command"}
        /\ at \in {"still", "drawn", "full", "wrapping", "down", "home", "scrolling", "scrolled",
                   "measured", "erased", "entered", "cleared", "cleared, left"}
    BY DEF ScreenProof, ScreenTypes
  <2> QED
    BY <1>1, <1>2, <1>3, <2>1, <2>2, Zenon DEF ScreenTypes
<1>5. ScreenPlaces'
  <2>1. ScreenPlaces
    BY DEF ScreenProof
  <2>2. /\ Width \in Nat /\ Height \in Nat /\ Lowest \in Int /\ YOffset \in Nat /\ XOffset \in Int
        /\ seen.x \in Int /\ seen.y \in Nat
    BY ScreenNumbers DEF ScreenProof
  <2>3. Lowest' = Lowest
    BY <1>2 DEF Lowest
  <2>4. seen'.y <= Lowest
    BY <1>1, <1>3, <2>1 DEF ScreenPlaces
  <2>5. /\ seen'.y <= Height - 20 => cur.y <= Height - 20
        /\ seen'.y > Height - 20 => cur.y >= Height - 20
    <3>1. CASE seen'.y = seen.y
      BY <1>1, <2>1, <2>2, <3>1 DEF ScreenPlaces
    <3>2. CASE seen'.y = cur.y
      BY <1>1, <2>2, <3>2
    <3> QED
      BY <1>3, <3>1, <3>2
  <2>6. at \in {"scrolling", "scrolled"} => cur.y >= Height - 20 /\ seen'.y >= Height - 20
    BY <1>1, <1>3, <2>1, <2>2 DEF ScreenPlaces
  <2>7. at \notin {"full", "wrapping", "down"} => seen'.x + 10 <= Width
    BY <1>1, <1>3, <2>1, <2>2 DEF ScreenPlaces
  <2>8. cur.x < 0 \/ seen'.x < 0 => turn \in {"read", "typed", "echoed"} \/ at = "entered"
    BY <1>1, <1>3, <2>1, <2>2 DEF ScreenPlaces
  <2>9. /\ at \in {"entered", "cleared", "cleared, left"} => turn = "command"
        /\ at \in {"measured", "erased"} => turn = "read"
    BY <2>1 DEF ScreenPlaces
  <2> QED
    BY <1>1, <1>2, <1>3, <2>3, <2>4, <2>5, <2>6, <2>7, <2>8, <2>9 DEF ScreenPlaces, Scr!Safe
<1>6. ScreenBlank'
  <2> SUFFICES ASSUME ~torn'
               PROVE  /\ Bare(ink', Scr!TextRow', Edge(XOffset)', residue', painted')
                      /\ at' \notin {"down", "entered", "cleared", "cleared, left"}
    BY DEF ScreenBlank, Bare
  <2>1. ~torn /\ at \in Scr!Safe /\ glyph' = glyph
    OBVIOUS
  <2>2. PICK res : res = IF cur.new THEN {} ELSE residue
    OBVIOUS
  <2>3. Bare(cur.ink, Scr!Row(cur.y), Edge(cur.x), res, cur.painted)
    BY <2>1, <2>2 DEF Written
  <2>4. Scr!TextRow' = Scr!Row(cur.y)
    BY <1>2, <2>1 DEF Scr!TextRow, Scr!Safe, Scr!Row
  <2>5. Edge(XOffset)' = Edge(cur.x)
    BY <1>2, <2>1 DEF Edge
  <2>6. ink' = Scr!Kept(cur.ink, cur.y) /\ residue' = res /\ painted' = cur.painted
    BY <1>2, <2>2
  <2>7. Bare(Scr!Kept(cur.ink, cur.y), Scr!Row(cur.y), Edge(cur.x), res, cur.painted)
    BY <1>1, <2>3, BareKept
  <2> QED
    BY <1>2, <2>1, <2>4, <2>5, <2>6, <2>7 DEF Scr!Safe
<1> QED
  BY <1>4, <1>5, <1>6 DEF ScreenProof

LEMMA Room ==
    ASSUME Scr!ConstantsOK, NEW x \in Int, NEW y \in Nat
    PROVE  /\ Scr!TooFar(x) \/ x + 10 <= Width
           /\ y > Height - 20 => y >= Height - 20
  BY DEF Scr!TooFar, Scr!ConstantsOK

(* A place that is right for the statement the shell comes to, and what it *)
(* keeps there.                                                            *)
RightPlace(to, who, x, y) ==
    /\ x \in Int /\ y \in Nat /\ y % 10 = 0
    /\ to \in {"still", "drawn", "full", "wrapping", "down", "home", "scrolling",
               "scrolled", "measured", "erased", "entered", "cleared", "cleared, left"}
    /\ who \in {"prompt", "read", "typed", "echoed", "command"}
    /\ y <= Bottom(who, to)
    /\ to \in {"scrolling", "scrolled"} => y >= Height - 20
    /\ to \notin {"full", "wrapping", "down"} => x + 10 <= Width
    /\ x < 0 => who \in {"read", "typed", "echoed"} \/ to = "entered"
    /\ to \in {"entered", "cleared", "cleared, left"} => who = "command"
    /\ to \in {"measured", "erased"} => who = "read"

RightData ==
    /\ shown \in Seq(Glyphs) /\ Len(shown) <= MaxLine /\ ink \subseteq Spots
    /\ glyph \in [width : Nat, ink : BOOLEAN] /\ painted \in Nat /\ torn \in BOOLEAN

LEMMA ShellKeeps ==
    ASSUME Scr!ConstantsOK, ScreenProof, NEW from, NEW to, NEW x, NEW y,
           Scr!Shell(from, to, x, y), RightPlace(to, turn', x, y), RightData'
    PROVE  ScreenTypes' /\ ScreenPlaces'
<1> DEFINE who == turn'
<1> USE DEF RightPlace, RightData
<1>1. /\ at' = to /\ XOffset' = x /\ YOffset' = y /\ seen' = [x |-> x, y |-> y]
      /\ inside = FALSE /\ inside' = FALSE
  BY DEF Scr!Shell, ScreenProof, ScreenTypes
<1>2. seen' \in Positions /\ seen'.x = x /\ seen'.y = y
  BY <1>1 DEF Positions
<1>3. ScreenTypes'
  BY <1>1, <1>2, Zenon DEF ScreenTypes
<1>4. Lowest' = Bottom(who, to)
  BY <1>1 DEF Lowest
<1>5. Height \in Nat /\ Width \in Nat
  BY DEF Scr!ConstantsOK
<1>6. Scr!TooFar(x) \/ x + 10 <= Width
  BY Room
<1>7. ScreenPlaces'
  <2>1. Scr!TooFar(seen.x)' = Scr!TooFar(x)
    BY <1>2 DEF Scr!TooFar
  <2>2. y > Height - 20 => y >= Height - 20
    BY Room
  <2>3. YOffset' <= Lowest' /\ seen'.y <= Lowest'
    BY <1>1, <1>2, <1>4
  <2>4. /\ seen'.y <= Height - 20 => YOffset' <= Height - 20
        /\ seen'.y > Height - 20 => YOffset' >= Height - 20
    BY <1>1, <1>2, <2>2, Zenon
  <2>5. /\ at' \notin {"full", "wrapping", "down"} => XOffset' + 10 <= Width
             /\ seen'.x + 10 <= Width
        /\ at' = "full" => Scr!TooFar(seen.x)' \/ XOffset' + 10 <= Width
        /\ XOffset' < 0 \/ seen'.x < 0 => turn' \in {"read", "typed", "echoed"} \/ at' = "entered"
    BY <1>1, <1>2, <1>6, <2>1
  <2>6. at' \in {"scrolling", "scrolled"} => YOffset' >= Height - 20 /\ seen'.y >= Height - 20
    BY <1>1, <1>2
  <2> QED
    BY <1>1, <1>2, <2>3, <2>4, <2>5, <2>6, Zenon DEF ScreenPlaces
<1> QED
  BY <1>3, <1>7

(* The invariant in the shell's own steps.                                 *)
LEMMA ScreenNow ==
    ASSUME Scr!ConstantsOK, ScreenProof
    PROVE  /\ Width \in Nat /\ Width > 10 /\ Height \in Nat /\ Height >= 30
           /\ XOffset \in Int /\ YOffset \in Nat /\ seen.x \in Int /\ seen.y \in Nat
           /\ YOffset % 10 = 0 /\ seen.y % 10 = 0
           /\ ink \subseteq Spots /\ shown \in Seq(Glyphs) /\ Len(shown) <= MaxLine
           /\ glyph \in [width : Nat, ink : BOOLEAN] /\ glyph.width \in Nat
           /\ painted \in Nat /\ torn \in BOOLEAN
           /\ turn \in {"prompt", "read", "typed", "echoed", "command"}
           /\ YOffset <= Bottom(turn, at) /\ seen.y <= Bottom(turn, at)
           /\ seen.y <= Height - 20 => YOffset <= Height - 20
           /\ seen.y > Height - 20 => YOffset >= Height - 20
           /\ Scr!NoGlyph \in [width : Nat, ink : BOOLEAN]
<1>1. ScreenTypes /\ ScreenPlaces
  BY DEF ScreenProof
<1>2. /\ YOffset <= Bottom(turn, at) /\ seen.y <= Bottom(turn, at)
      /\ seen.y <= Height - 20 => YOffset <= Height - 20
      /\ seen.y > Height - 20 => YOffset >= Height - 20
  BY <1>1 DEF ScreenPlaces, Lowest
<1>3. /\ YOffset % 10 = 0 /\ seen.y % 10 = 0
      /\ ink \subseteq Spots /\ shown \in Seq(Glyphs) /\ Len(shown) <= MaxLine
      /\ glyph \in [width : Nat, ink : BOOLEAN]
      /\ painted \in Nat /\ torn \in BOOLEAN
      /\ turn \in {"prompt", "read", "typed", "echoed", "command"}
  BY <1>1 DEF ScreenTypes
<1>4. Scr!NoGlyph \in [width : Nat, ink : BOOLEAN]
  BY DEF Scr!NoGlyph
<1> QED
  BY <1>1, <1>2, <1>3, <1>4, ScreenNumbers

LEMMA RowsNow ==
    ASSUME Scr!ConstantsOK, ScreenProof
    PROVE  /\ Scr!Row(YOffset) \in Int /\ Scr!Row(seen.y) \in Int
           /\ seen.y + 10 \in Nat /\ (seen.y + 10) % 10 = 0
                /\ Scr!Row(seen.y + 10) = Scr!Row(seen.y) + 1
<1>1. YOffset \in Nat /\ seen.y \in Nat /\ YOffset % 10 = 0 /\ seen.y % 10 = 0
  BY ScreenNow
<1>2. Scr!Row(YOffset) \in Int
  <2>1. Scr!Row(YOffset) \in Nat
    BY <1>1, Rows
  <2> QED
    BY <2>1
<1>3. Scr!Row(seen.y) \in Int /\ (seen.y + 10) % 10 = 0
        /\ Scr!Row(seen.y + 10) = Scr!Row(seen.y) + 1
  BY <1>1, Rows
<1> QED
  BY <1>1, <1>2, <1>3

(* How deep the text may come, by whose turn it is and the statement.      *)
LEMMA Bottoms ==
    ASSUME Scr!ConstantsOK, NEW who, NEW where
    PROVE  /\ Bottom(who, where) \in Int
           /\ Bottom(who, where) >= Height - 20 /\ Bottom(who, where) <= Height
           /\ who # "command" => Bottom(who, where) <= Height - 10
           /\ where \in {"down", "home", "scrolling", "scrolled"} =>
                  Bottom(who, where) >= Height - 10
                    /\ Bottom(who, where) = Bottom(who, "still") + 10
           /\ where \notin {"down", "home", "scrolling", "scrolled"} =>
                  Bottom(who, where) <= Height - 10 /\ Bottom(who, where) = Bottom(who, "still")
           /\ Bottom("command", where) >= Height - 10
           /\ who # "command" => Bottom(who, "still") = Height - 20
  BY DEF Bottom, Scr!ConstantsOK

LEMMA ShellLooks ==
    ASSUME Scr!ConstantsOK, ScreenProof, NEW from \in {"still", "home"}, Scr!LookForScroll(from),
           NEW who \in {"prompt", "read", "typed", "echoed", "command"}, turn' = who,
           from = "home" => who = turn,
           turn \in {"read", "typed", "echoed"} => who \in {"read", "typed", "echoed"},
           shown' \in Seq(Glyphs), Len(shown') <= MaxLine
    PROVE  ScreenProof'
<1>1. PICK to : to = IF Scr!MustScroll(seen.y) THEN "scrolling" ELSE "still"
  OBVIOUS
<1>2. /\ Scr!Shell(from, to, XOffset, YOffset)
      /\ UNCHANGED <<ink, glyph, residue, painted, torn>>
  BY <1>1 DEF Scr!LookForScroll
<1>3. at = from /\ at' = to /\ YOffset' = YOffset /\ XOffset' = XOffset
  BY <1>2 DEF Scr!Shell
<1>4. XOffset + 10 <= Width /\ (XOffset < 0 => turn \in {"read", "typed", "echoed"})
  BY <1>3 DEF ScreenProof, ScreenPlaces
<1>5. YOffset <= Bottom(who, to) /\ (to = "scrolling" => YOffset >= Height - 20)
  <2>1. /\ Height \in Nat /\ YOffset \in Nat /\ seen.y \in Nat /\ YOffset <= Bottom(turn, from)
        /\ seen.y <= Height - 20 => YOffset <= Height - 20
        /\ seen.y > Height - 20 => YOffset >= Height - 20
    BY <1>3, ScreenNow
  <2>2. CASE Scr!MustScroll(seen.y)
    <3>1. to = "scrolling" /\ YOffset >= Height - 20
      BY <1>1, <2>1, <2>2 DEF Scr!MustScroll
    <3>2. CASE from = "home"
      <4>1. who = turn
        BY <3>2
      <4>2. Bottom(turn, "home") = Bottom(turn, "scrolling")
        BY Bottoms
      <4> QED
        BY <2>1, <3>1, <3>2, <4>1, <4>2
    <3>3. CASE from = "still"
      <4>1. /\ Bottom(turn, "still") <= Height - 10 /\ Bottom(turn, "still") \in Int
            /\ Bottom(who, "scrolling") >= Height - 10 /\ Bottom(who, "scrolling") \in Int
        BY Bottoms
      <4> QED
        BY <2>1, <3>1, <3>3, <4>1
    <3> QED
      BY <3>1, <3>2, <3>3
  <2>3. CASE ~Scr!MustScroll(seen.y)
    <3>1. to = "still" /\ YOffset <= Height - 20
      BY <1>1, <2>1, <2>3 DEF Scr!MustScroll
    <3>2. Bottom(who, "still") >= Height - 20 /\ Bottom(who, "still") \in Int
      BY Bottoms
    <3> QED
      BY <2>1, <3>1, <3>2
  <2> QED
    BY <2>2, <2>3
<1>6. ScreenTypes' /\ ScreenPlaces'
  <2>1. to \in {"still", "scrolling"}
    BY <1>1
  <2>2. /\ XOffset \in Int /\ YOffset \in Nat /\ YOffset % 10 = 0
        /\ ink' \subseteq Spots /\ glyph' \in [width : Nat, ink : BOOLEAN]
        /\ painted' \in Nat /\ torn' \in BOOLEAN
    BY <1>2, ScreenNow
  <2>3. XOffset < 0 => who \in {"read", "typed", "echoed"} \/ to = "entered"
    BY <1>4
  <2>8. RightPlace(to, turn', XOffset, YOffset)
    BY <1>2, <1>4, <1>5, <2>1, <2>2, <2>3 DEF RightPlace
  <2>9. RightData'
    BY <1>2, <1>4, <1>5, <2>1, <2>2, <2>3 DEF RightData
  <2> QED
    BY <1>2, <2>8, <2>9, ShellKeeps
<1>7. ScreenBlank'
  <2>1. Scr!TextRow' = Scr!TextRow
    BY <1>1, <1>3 DEF Scr!TextRow, Scr!Row
  <2>2. Edge(XOffset)' = Edge(XOffset)
    BY <1>1, <1>2, <1>3 DEF Edge
  <2> QED
    BY <1>1, <1>2, <1>3, <2>1, <2>2 DEF ScreenProof, ScreenBlank
<1> QED
  BY <1>6, <1>7 DEF ScreenProof

LEMMA ShellDraws ==
    ASSUME Scr!ConstantsOK, ScreenProof, NEW g, g \in [width : Nat, ink : BOOLEAN], Scr!Draw(g),
           turn' \in {turn, "echoed"}, turn' # turn => turn = "typed", shown' = shown
    PROVE  ScreenProof'
<1>1. /\ Scr!Shell("still", "drawn", XOffset, YOffset) /\ glyph' = g
      /\ ink' = IF torn THEN {} ELSE ink \cup Scr!Drawn(seen, g)
      /\ UNCHANGED <<residue, painted, torn>>
  BY DEF Scr!Draw
<1>2. at = "still" /\ at' = "drawn" /\ XOffset' = XOffset /\ YOffset' = YOffset /\ inside = FALSE
  BY <1>1 DEF Scr!Shell, ScreenProof, ScreenTypes
<1>3. ASSUME ~torn
      PROVE  /\ ink' \in SUBSET Spots
             /\ Bare(ink', Scr!Row(YOffset), XOffset + g.width + 0, residue, painted)
  <2>1. seen.x = XOffset /\ seen.y = YOffset
    BY <1>2, <1>3 DEF ScreenProof, ScreenPlaces
  <2>2. Scr!TextRow = Scr!Row(YOffset) /\ Edge(XOffset) = XOffset + 0
    BY <1>2, ScreenNow DEF Scr!TextRow, Edge
  <2>3. Bare(ink, Scr!Row(YOffset), XOffset + 0, residue, painted)
    BY <1>3, <2>2 DEF ScreenProof, ScreenBlank
  <2>4. Scr!Row(YOffset) \in Int
    BY RowsNow
  <2>5. ink' = ink \cup Scr!Drawn(seen, g)
    BY <1>1, <1>3
  <2> QED
    BY <2>1, <2>3, <2>4, <2>5, ScreenNow, BareDraws
<1>4. ink' \subseteq Spots
  BY <1>1, <1>3
<1>5. /\ XOffset + 10 <= Width /\ (XOffset < 0 => turn \in {"read", "typed", "echoed"})
      /\ Bottom(turn', "drawn") = Bottom(turn, "still")
  BY <1>2, Bottoms DEF ScreenProof, ScreenPlaces
<1>6. ScreenTypes' /\ ScreenPlaces'
  <2>8. RightPlace("drawn", turn', XOffset, YOffset)
    BY <1>1, <1>2, <1>4, <1>5, ScreenNow DEF RightPlace
  <2>9. RightData'
    BY <1>1, <1>2, <1>4, <1>5, ScreenNow DEF RightData
  <2> QED
    BY <1>1, <2>8, <2>9, ShellKeeps
<1>7. ScreenBlank'
  <2>1. Scr!TextRow' = Scr!Row(YOffset)
    BY <1>2 DEF Scr!TextRow, Scr!Row
  <2>2. Edge(XOffset)' = XOffset + g.width + 0
    BY <1>1, <1>2, ScreenNow DEF Edge
  <2> QED
    BY <1>1, <1>2, <1>3, <2>1, <2>2 DEF ScreenBlank
<1> QED
  BY <1>6, <1>7 DEF ScreenProof

LEMMA ShellGoesDown ==
    ASSUME Scr!ConstantsOK, ScreenProof, NEW from \in {"still", "wrapping"},
             NEW to \in {"down", "entered"},
           Scr!Down(from, to), shown' = shown,
           NEW who \in {"prompt", "read", "typed", "echoed", "command"}, turn' = who,
           to = "down" => who = turn,
           to = "entered" => from = "still" /\ turn = "read" /\ who = "command"
    PROVE  ScreenProof'
<1>1. /\ Scr!Shell(from, to, XOffset, seen.y + 10)
      /\ ink' = Scr!Kept(ink, seen.y + 10) /\ residue' = {}
      /\ UNCHANGED <<glyph, painted, torn>>
  BY DEF Scr!Down
<1>2. /\ at = from /\ at' = to /\ XOffset' = XOffset /\ YOffset' = seen.y + 10 /\ inside = FALSE
  BY <1>1 DEF Scr!Shell, ScreenProof, ScreenTypes
<1>3. seen.y + 10 \in Nat /\ (seen.y + 10) % 10 = 0 /\ Scr!Row(seen.y + 10) = Scr!Row(seen.y) + 1
  BY RowsNow
<1>4. /\ from = "still" => XOffset + 10 <= Width
      /\ XOffset < 0 => turn \in {"read", "typed", "echoed"}
  BY <1>2 DEF ScreenProof, ScreenPlaces
<1>5. seen.y + 10 <= Bottom(who, to)
  <2>1. seen.y <= Bottom(turn, "still")
    <3>1. Bottom(turn, at) = Bottom(turn, "still")
      BY <1>2, Bottoms
    <3> QED
      BY <3>1, ScreenNow
  <2>2. /\ Bottom(turn, "still") \in Int /\ seen.y \in Nat /\ Height \in Nat
        /\ turn = "read" => Bottom(turn, "still") = Height - 20
    BY ScreenNow, Bottoms
  <2>3. CASE to = "down"
    <3>1. who = turn /\ Bottom(who, "down") = Bottom(who, "still") + 10
      BY <2>3, Bottoms
    <3> QED
      BY <2>1, <2>2, <2>3, <3>1
  <2>4. CASE to = "entered"
    <3>1. turn = "read" /\ who = "command" /\ Bottom("command", "entered") >= Height - 10
      BY <2>4, Bottoms
    <3>2. Bottom("command", "entered") \in Int
      BY Bottoms
    <3> QED
      BY <2>1, <2>2, <2>4, <3>1, <3>2
  <2> QED
    BY <2>3, <2>4
<1>6. ink' \subseteq Spots
  BY <1>1, ScreenNow DEF Scr!Kept
<1>7. ScreenTypes' /\ ScreenPlaces'
  <2>1. /\ XOffset \in Int /\ shown' \in Seq(Glyphs) /\ Len(shown') <= MaxLine
        /\ glyph' \in [width : Nat, ink : BOOLEAN] /\ painted' \in Nat /\ torn' \in BOOLEAN
    BY <1>1, ScreenNow
  <2>2. /\ to \notin {"full", "wrapping", "down"} => XOffset + 10 <= Width
        /\ XOffset < 0 => who \in {"read", "typed", "echoed"} \/ to = "entered"
        /\ to \in {"entered", "cleared", "cleared, left"} => who = "command"
    BY <1>4
  <2>8. RightPlace(to, turn', XOffset, seen.y + 10)
    BY <1>1, <1>3, <1>5, <1>6, <2>1, <2>2 DEF RightPlace
  <2>9. RightData'
    BY <1>1, <1>3, <1>5, <1>6, <2>1, <2>2 DEF RightData
  <2> QED
    BY <1>1, <2>8, <2>9, ShellKeeps
<1>8. ScreenBlank'
  <2> SUFFICES ASSUME ~torn
               PROVE  /\ Bare(ink', Scr!TextRow', Edge(XOffset)', {}, painted)
                      /\ Bare(ink', Scr!TextRow' - 1, XOffset', Int, painted)
                      /\ at' \notin {"cleared", "cleared, left"}
    BY <1>1, <1>2 DEF ScreenBlank
  <2>1. seen.y = YOffset
    BY <1>2 DEF ScreenProof, ScreenPlaces
  <2>2. PICK row \in Int : row = Scr!Row(YOffset)
    BY RowsNow
  <2>3. Scr!TextRow = row /\ Scr!TextRow' = row + 1 /\ Scr!TextRow' - 1 = row
    BY <1>2, <1>3, <2>1, <2>2 DEF Scr!TextRow, Scr!Row
  <2>4. Bare(ink, row, Edge(XOffset), residue, painted)
    BY <2>3 DEF ScreenProof, ScreenBlank
  <2>5. Bare(ink', row, Edge(XOffset), residue, painted)
    BY <1>1, <2>4, BareKept, ScreenNow
  <2>6. Bare(ink', row + 1, Edge(XOffset)', {}, painted)
    BY <1>6, <2>2, <2>5, BareBelow
  <2>7. Bare(ink', row, XOffset', Int, painted)
    <3>1. \A p \in ink' : p[2] \in Int
      BY <1>6 DEF Spots
    <3> QED
      BY <2>5, <3>1 DEF Bare
  <2> QED
    BY <1>2, <2>3, <2>6, <2>7
<1> QED
  BY <1>7, <1>8 DEF ScreenProof

LEMMA LeftEdge ==
    ASSUME Scr!ConstantsOK
    PROVE  \E left \in Int : left = 0 /\ left + 10 <= Width /\ ~(left < 0)
<1> WITNESS 0 \in Int
<1> QED
  BY DEF Scr!ConstantsOK

LEMMA Before == \A r \in Int : \E a \in Int : a = r - 1 /\ r = a + 1
<1> TAKE r \in Int
<1> WITNESS r - 1 \in Int
<1> QED
  OBVIOUS

LEMMA ShellGoesHome ==
    ASSUME Scr!ConstantsOK, ScreenProof, NEW from \in {"down", "entered", "cleared"},
           NEW to \in {"home", "still", "cleared, left"},
           from = "down" <=> to = "home", from = "cleared" <=> to = "cleared, left",
           Scr!Home(from, to)
    PROVE  ScreenProof'
<1>1. /\ Scr!Shell(from, to, 0, YOffset)
      /\ UNCHANGED <<ink, shown, turn, glyph, residue, painted, torn>>
  BY DEF Scr!Home
<1>2. /\ at = from /\ at' = to /\ XOffset' = 0 /\ YOffset' = YOffset
      /\ from \in {"down", "entered", "cleared"} /\ to \in {"home", "still", "cleared, left"}
      /\ from = "down" <=> to = "home"
      /\ to = "cleared, left" <=> from = "cleared"
  BY <1>1 DEF Scr!Shell
<1>3. to = "cleared, left" => turn = "command"
  BY <1>2 DEF ScreenProof, ScreenPlaces
<1>4. YOffset <= Bottom(turn, to)
  BY <1>2, ScreenNow, Bottoms
<1>5. ScreenTypes' /\ ScreenPlaces'
  <2>1. /\ YOffset \in Nat /\ YOffset % 10 = 0 /\ shown' \in Seq(Glyphs) /\ Len(shown') <= MaxLine
        /\ glyph' \in [width : Nat, ink : BOOLEAN] /\ painted' \in Nat /\ torn' \in BOOLEAN
        /\ turn \in {"prompt", "read", "typed", "echoed", "command"} /\ turn' = turn
        /\ ink' \subseteq Spots /\ Width > 10 /\ Width \in Nat
    BY <1>1, ScreenNow
  <2>2. to \in {"entered", "cleared", "cleared, left"} => turn = "command"
    BY <1>3
  <2>3. PICK left \in Int : left = 0 /\ left + 10 <= Width /\ ~(left < 0)
    BY LeftEdge
  <2>4. to \in {"still", "drawn", "full", "wrapping", "down", "home", "scrolling",
                  "scrolled", "measured", "erased", "entered", "cleared", "cleared, left"}
    BY <1>2
  <2>5. /\ to \in {"scrolling", "scrolled"} => YOffset >= Height - 20
        /\ to \in {"measured", "erased"} => turn = "read"
    BY <1>2
  <2>6. /\ Scr!Shell(from, to, left, YOffset)
        /\ to \notin {"full", "wrapping", "down"} => left + 10 <= Width
        /\ left < 0 => turn \in {"read", "typed", "echoed"} \/ to = "entered"
    BY <1>1, <2>3
  <2>8. RightPlace(to, turn', left, YOffset)
    BY <1>4, <2>1, <2>2, <2>3, <2>4, <2>5, <2>6 DEF RightPlace
  <2>9. RightData'
    BY <1>4, <2>1, <2>2, <2>3, <2>4, <2>5, <2>6 DEF RightData
  <2> QED
    BY <2>6, <2>8, <2>9, ShellKeeps
<1>6. ScreenBlank'
  <2> SUFFICES ASSUME ~torn
               PROVE  /\ Bare(ink, Scr!TextRow', Edge(XOffset)', residue, painted)
                      /\ to = "cleared, left" => ink = {}
    BY <1>1, <1>2 DEF ScreenBlank
  <2>1. PICK row \in Int : row = Scr!Row(YOffset)
    BY RowsNow
  <2>2. Scr!TextRow' = row /\ Scr!TextRow = row
    BY <1>2, <2>1 DEF Scr!TextRow, Scr!Row
  <2>5. ink \in SUBSET Spots
    BY ScreenNow
  <2>3. CASE from = "cleared"
    <3>1. ink = {}
      BY <1>2, <2>3 DEF ScreenProof, ScreenBlank
    <3> QED
      BY <3>1 DEF Bare
  <2>4. CASE from \in {"down", "entered"}
    <3>1. Bare(ink, row - 1, XOffset, Int, painted)
      BY <1>2, <2>2, <2>4 DEF ScreenProof, ScreenBlank
    <3>2. PICK above \in Int : above = row - 1 /\ row = above + 1
      BY <2>1, Before
    <3>3. Bare(ink, row, Edge(XOffset)', residue, painted)
      BY <3>1, <3>2, <2>5, BareBelow
    <3> QED
      BY <1>2, <2>2, <2>4, <3>3
  <2> QED
    BY <1>2, <2>3, <2>4
<1> QED
  BY <1>5, <1>6 DEF ScreenProof

(* The shell comes to another statement, and the cursor stays.             *)
LEMMA ShellStays ==
    ASSUME Scr!ConstantsOK, ScreenProof,
           NEW from \in {"still", "full", "measured"},
           NEW to \in {"still", "wrapping", "measured", "erased", "cleared"},
           Scr!Shell(from, to, XOffset, YOffset),
           NEW who \in {"prompt", "read", "typed", "echoed", "command"}, turn' = who,
           turn = "command" <=> who = "command",
           turn \in {"read", "typed", "echoed"} => who \in {"read", "typed", "echoed"},
           shown' \in Seq(Glyphs), Len(shown') <= MaxLine, ink' \subseteq Spots,
           glyph' \in [width : Nat, ink : BOOLEAN], painted' \in Nat, torn' \in BOOLEAN,
           to # "wrapping" => XOffset + 10 <= Width,
           to = "cleared" => who = "command", to \in {"measured", "erased"} => who = "read"
    PROVE  /\ ScreenTypes' /\ ScreenPlaces'
           /\ XOffset' = XOffset /\ YOffset' = YOffset /\ at = from /\ at' = to
           /\ Scr!TextRow' = Scr!Row(YOffset) /\ Scr!TextRow = Scr!Row(YOffset)
<1>1. at = from /\ at' = to /\ YOffset' = YOffset /\ XOffset' = XOffset
  BY DEF Scr!Shell
<1>2. XOffset \in Int /\ YOffset \in Nat /\ YOffset % 10 = 0
  BY ScreenNow
<1>3. XOffset < 0 => turn \in {"read", "typed", "echoed"}
  BY <1>1 DEF ScreenProof, ScreenPlaces
<1>4. YOffset <= Bottom(who, to)
  <2>1. Bottom(turn, at) = Bottom(turn, "still") /\ Bottom(who, to) = Bottom(who, "still")
    BY <1>1, Bottoms
  <2>2. Bottom(turn, "still") = Bottom(who, "still")
    BY DEF Bottom
  <2> QED
    BY <2>1, <2>2, ScreenNow
<1>5. ScreenTypes' /\ ScreenPlaces'
  <2>1. /\ to \notin {"full", "wrapping", "down"} => XOffset + 10 <= Width
        /\ XOffset < 0 => who \in {"read", "typed", "echoed"} \/ to = "entered"
        /\ to \in {"entered", "cleared", "cleared, left"} => who = "command"
        /\ to \in {"measured", "erased"} => who = "read"
    BY <1>3
  <2>2. /\ to \in {"still", "drawn", "full", "wrapping", "down", "home", "scrolling",
                  "scrolled", "measured", "erased", "entered", "cleared", "cleared, left"}
        /\ to \in {"scrolling", "scrolled"} => YOffset >= Height - 20
    OBVIOUS
  <2>8. RightPlace(to, turn', XOffset, YOffset)
    BY <1>2, <1>4, <2>1, <2>2 DEF RightPlace
  <2>9. RightData'
    BY <1>2, <1>4, <2>1, <2>2 DEF RightData
  <2> QED
    BY <2>8, <2>9, ShellKeeps
<1>6. Scr!TextRow' = Scr!Row(YOffset) /\ Scr!TextRow = Scr!Row(YOffset)
  BY <1>1 DEF Scr!TextRow, Scr!Row
<1> QED
  BY <1>1, <1>5, <1>6

LEMMA ShellScrolls ==
    ASSUME Scr!ConstantsOK, ScreenProof, Scr!Scroll PROVE ScreenProof'
<1>1. /\ Scr!Shell("scrolling", "scrolled", XOffset, YOffset)
      /\ ink' = Scr!ScrollDown(ink) /\ painted' = Scr!Fewer(painted)
      /\ UNCHANGED <<shown, turn, glyph, residue, torn>>
  BY DEF Scr!Scroll
<1>2. at = "scrolling" /\ at' = "scrolled" /\ YOffset' = YOffset /\ XOffset' = XOffset
  BY <1>1 DEF Scr!Shell
<1>3. /\ XOffset + 10 <= Width /\ YOffset >= Height - 20
      /\ XOffset < 0 => turn \in {"read", "typed", "echoed"}
  BY <1>2 DEF ScreenProof, ScreenPlaces
<1>4. YOffset <= Bottom(turn, "scrolled")
  BY <1>2, ScreenNow DEF Bottom
<1>5. ink' \subseteq Spots /\ painted' \in Nat
  <2>1. \A p \in Scr!ScrollDown(ink) : p \in Spots
    BY ScreenNow DEF Scr!ScrollDown, Spots
  <2> QED
    BY <1>1, <2>1, ScreenNow DEF Scr!Fewer
<1>6. ScreenTypes' /\ ScreenPlaces'
  <2>1. /\ XOffset \in Int /\ YOffset \in Nat /\ YOffset % 10 = 0
        /\ shown' \in Seq(Glyphs) /\ Len(shown') <= MaxLine
        /\ glyph' \in [width : Nat, ink : BOOLEAN] /\ torn' \in BOOLEAN
        /\ turn \in {"prompt", "read", "typed", "echoed", "command"} /\ turn' = turn
    BY <1>1, ScreenNow
  <2>8. RightPlace("scrolled", turn', XOffset, YOffset)
    BY <1>1, <1>3, <1>4, <1>5, <2>1 DEF RightPlace
  <2>9. RightData'
    BY <1>1, <1>3, <1>4, <1>5, <2>1 DEF RightData
  <2> QED
    BY <1>1, <2>8, <2>9, ShellKeeps
<1>7. ScreenBlank'
  <2> SUFFICES ASSUME ~torn
               PROVE  Bare(ink', Scr!TextRow', Edge(XOffset)', residue, painted')
    BY <1>1, <1>2 DEF ScreenBlank
  <2>1. Scr!TextRow = Scr!Row(YOffset) /\ Scr!TextRow' = Scr!Row(YOffset) - 1
          /\ Scr!Row(YOffset) \in Int
    BY <1>2, RowsNow DEF Scr!TextRow, Scr!Row
  <2>2. Edge(XOffset)' = Edge(XOffset)
    BY <1>2 DEF Edge
  <2>3. Bare(ink, Scr!Row(YOffset), Edge(XOffset), residue, painted)
    BY <2>1 DEF ScreenProof, ScreenBlank
  <2> QED
    BY <1>1, <2>1, <2>2, <2>3, ScreenNow, BareScrolls
<1> QED
  BY <1>6, <1>7 DEF ScreenProof

LEMMA ShellHasScrolled ==
    ASSUME Scr!ConstantsOK, ScreenProof, Scr!ScrollEnd PROVE ScreenProof'
<1>1. /\ Scr!Shell("scrolled", "still", XOffset, seen.y - 10)
      /\ UNCHANGED <<ink, shown, turn, glyph, residue, painted, torn>>
  BY DEF Scr!ScrollEnd
<1>2. at = "scrolled" /\ at' = "still" /\ YOffset' = seen.y - 10 /\ XOffset' = XOffset
        /\ inside = FALSE
  BY <1>1 DEF Scr!Shell, ScreenProof, ScreenTypes
<1>3. /\ XOffset + 10 <= Width /\ seen.y >= Height - 20
      /\ XOffset < 0 => turn \in {"read", "typed", "echoed"}
  BY <1>2 DEF ScreenProof, ScreenPlaces
<1>4. seen.y - 10 \in Nat /\ (seen.y - 10) % 10 = 0 /\ Scr!Row(seen.y - 10) = Scr!Row(seen.y) - 1
  <2>1. seen.y >= 10 /\ seen.y \in Nat /\ seen.y % 10 = 0
    BY <1>3, ScreenNow
  <2> QED
    BY <2>1, Rows
<1>5. seen.y - 10 <= Bottom(turn, "still")
  <2>1. /\ seen.y <= Bottom(turn, "scrolled")
             /\ Bottom(turn, "scrolled") = Bottom(turn, "still") + 10
        /\ Bottom(turn, "still") \in Int
    BY <1>2, ScreenNow, Bottoms
  <2> QED
    BY <2>1, ScreenNow
<1>6. ScreenTypes' /\ ScreenPlaces'
  <2>1. /\ XOffset \in Int /\ ink' \subseteq Spots /\ painted' \in Nat
        /\ shown' \in Seq(Glyphs) /\ Len(shown') <= MaxLine
        /\ glyph' \in [width : Nat, ink : BOOLEAN] /\ torn' \in BOOLEAN
        /\ turn \in {"prompt", "read", "typed", "echoed", "command"} /\ turn' = turn
    BY <1>1, ScreenNow
  <2>8. RightPlace("still", turn', XOffset, seen.y - 10)
    BY <1>1, <1>3, <1>4, <1>5, <2>1 DEF RightPlace
  <2>9. RightData'
    BY <1>1, <1>3, <1>4, <1>5, <2>1 DEF RightData
  <2> QED
    BY <1>1, <2>8, <2>9, ShellKeeps
<1>7. ScreenBlank'
  <2> SUFFICES ASSUME ~torn
               PROVE  Bare(ink, Scr!TextRow', Edge(XOffset)', residue, painted)
    BY <1>1, <1>2 DEF ScreenBlank
  <2>1. seen.y = YOffset
    BY <1>2 DEF ScreenProof, ScreenPlaces
  <2>2. Scr!TextRow' = Scr!TextRow
    BY <1>2, <1>4, <2>1 DEF Scr!TextRow, Scr!Row
  <2>3. Edge(XOffset)' = Edge(XOffset)
    BY <1>2 DEF Edge
  <2> QED
    BY <2>2, <2>3 DEF ScreenProof, ScreenBlank
<1> QED
  BY <1>6, <1>7 DEF ScreenProof

LEMMA ShellAdvances ==
    ASSUME Scr!ConstantsOK, ScreenProof, Scr!Advance PROVE ScreenProof'
<1>1. PICK x : x = seen.x + glyph.width
  OBVIOUS
<1>2. PICK to : to = IF Scr!TooFar(x) THEN "full" ELSE "still"
  OBVIOUS
<1>3. /\ Scr!Shell("drawn", to, x, YOffset) /\ glyph' = Scr!NoGlyph
      /\ UNCHANGED <<ink, shown, turn, residue, painted, torn>>
  BY <1>1, <1>2 DEF Scr!Advance
<1>4. at = "drawn" /\ at' = to /\ YOffset' = YOffset /\ XOffset' = x /\ inside = FALSE
  BY <1>3 DEF Scr!Shell, ScreenProof, ScreenTypes
<1>5. x \in Int /\ (x < 0 => seen.x < 0) /\ to \in {"full", "still"}
  <2>1. seen.x \in Int /\ glyph.width \in Nat
    BY ScreenNow
  <2> QED
    BY <1>1, <1>2, <2>1
<1>6. x < 0 => turn \in {"read", "typed", "echoed"}
  BY <1>4, <1>5 DEF ScreenProof, ScreenPlaces
<1>7. to # "full" => x + 10 <= Width
  BY <1>2, <1>5, ScreenNow, Room
<1>8. YOffset <= Bottom(turn, to)
  <2>1. Bottom(turn, at) = Bottom(turn, "still") /\ Bottom(turn, to) = Bottom(turn, "still")
    BY <1>4, <1>5, Bottoms
  <2> QED
    BY <2>1, ScreenNow
<1>9. ScreenTypes' /\ ScreenPlaces'
  <2>1. /\ YOffset \in Nat /\ YOffset % 10 = 0 /\ ink' \subseteq Spots /\ painted' \in Nat
        /\ shown' \in Seq(Glyphs) /\ Len(shown') <= MaxLine
        /\ glyph' \in [width : Nat, ink : BOOLEAN] /\ torn' \in BOOLEAN
        /\ turn \in {"prompt", "read", "typed", "echoed", "command"} /\ turn' = turn
    BY <1>3, ScreenNow
  <2>8. RightPlace(to, turn', x, YOffset)
    BY <1>3, <1>5, <1>6, <1>7, <1>8, <2>1 DEF RightPlace
  <2>9. RightData'
    BY <1>3, <1>5, <1>6, <1>7, <1>8, <2>1 DEF RightData
  <2> QED
    BY <1>3, <2>8, <2>9, ShellKeeps
<1>10. ScreenBlank'
  <2> SUFFICES ASSUME ~torn
               PROVE  Bare(ink, Scr!TextRow', Edge(XOffset)', residue, painted)
    BY <1>3, <1>4, <1>5 DEF ScreenBlank
  <2>1. seen.x = XOffset
    BY <1>4 DEF ScreenProof, ScreenPlaces
  <2>2. Scr!TextRow' = Scr!TextRow
    BY <1>4, <1>5 DEF Scr!TextRow, Scr!Row
  <2>3. Edge(XOffset)' = x /\ Edge(XOffset) = XOffset + glyph.width
    BY <1>4, <1>5 DEF Edge
  <2> QED
    BY <1>1, <2>1, <2>2, <2>3 DEF ScreenProof, ScreenBlank
<1> QED
  BY <1>9, <1>10 DEF ScreenProof

(* Between the statements a handler may write, and end.                    *)
LEMMA HandlerWrites ==
    ASSUME Scr!ConstantsOK, ScreenProof,
           (\E g \in Glyphs : Scr!HandlerPut(g)) \/ Scr!HandlerNewLine \/ Scr!HandlerEnd
    PROVE  ScreenProof'
<1>1. /\ Written(Scr!Cursor) /\ glyph \in [width : Nat, ink : BOOLEAN] /\ torn \in BOOLEAN
      /\ Width > 10 /\ Width \in Nat /\ Scr!Cursor.x = XOffset
  BY WrittenYet, ScreenNow DEF Scr!Cursor
<1>2. CASE \E g \in Glyphs : Scr!HandlerPut(g)
  <2>1. PICK g \in Glyphs : Scr!HandlerPut(g)
    BY <1>2
  <2>2. PICK cur : cur = Scr!Character(Scr!Cursor, g)
    OBVIOUS
  <2>3. Written(cur) /\ cur.x + 10 <= Width
    BY <1>1, <2>2, WrittenCharacter
  <2>4. /\ inside' = TRUE /\ torn' = (torn \/ at \notin Scr!Safe) /\ Scr!MoveTo(cur)
        /\ UNCHANGED <<shown, turn, at>> /\ glyph' = glyph /\ seen' = seen
    BY <2>1, <2>2 DEF Scr!HandlerPut
  <2>5. torn' \in BOOLEAN /\ (~torn' => ~torn /\ at \in Scr!Safe /\ glyph' = glyph)
    BY <1>1, <2>4
  <2> QED
    BY <1>1, <2>3, <2>4, <2>5, HandlerKeeps
<1>3. CASE Scr!HandlerNewLine
  <2>2. PICK cur : cur = Scr!NewLine(Scr!Cursor)
    OBVIOUS
  <2>3. Written(cur) /\ cur.x + 10 <= Width
    <3>1. Written(cur) /\ cur.x = 0
      BY <1>1, <2>2, WrittenNewLine
    <3> QED
      BY <1>1, <3>1
  <2>4. /\ inside' = TRUE /\ torn' = (torn \/ at \notin Scr!Safe) /\ Scr!MoveTo(cur)
        /\ UNCHANGED <<shown, turn, at>> /\ glyph' = glyph /\ seen' = seen
    BY <1>3, <2>2 DEF Scr!HandlerNewLine
  <2>5. torn' \in BOOLEAN /\ (~torn' => ~torn /\ at \in Scr!Safe /\ glyph' = glyph)
    BY <1>1, <2>4
  <2> QED
    BY <1>1, <2>3, <2>4, <2>5, HandlerKeeps
<1>4. CASE Scr!HandlerEnd
  <2>1. XOffset + 10 <= Width /\ (at \in Scr!Safe \/ torn) /\ inside' = FALSE
    BY <1>4 DEF Scr!HandlerEnd, ScreenProof, ScreenPlaces
  <2>2. PICK cur : cur = Scr!Scrolled(Scr!Cursor)
    OBVIOUS
  <2>3. Written(cur) /\ cur.x + 10 <= Width
    BY <1>1, <2>1, <2>2, WrittenScrolled
  <2>4. Scr!MoveTo(cur) /\ UNCHANGED <<shown, turn, at>>
    BY <1>4, <2>2 DEF Scr!HandlerEnd
  <2>5. CASE torn' = torn /\ seen' = [x |-> cur.x, y |-> cur.y] /\ glyph' = glyph
    BY <1>1, <2>1, <2>3, <2>4, <2>5, HandlerKeeps
  <2>6. CASE torn' = TRUE /\ seen' = seen /\ glyph' \in {glyph} \cup Glyphs
    <3>1. glyph' \in [width : Nat, ink : BOOLEAN]
      BY <1>1, <2>6 DEF Scr!ConstantsOK
    <3> QED
      BY <2>1, <2>3, <2>4, <2>6, <3>1, HandlerKeeps
  <2> QED
    BY <1>4, <2>2, <2>5, <2>6 DEF Scr!HandlerEnd
<1> QED
  BY <1>2, <1>3, <1>4

LEMMA ShellWraps ==
    ASSUME Scr!ConstantsOK, ScreenProof, Scr!LookForWrap PROVE ScreenProof'
<1>1. PICK to : to = IF Scr!TooFar(seen.x) THEN "wrapping" ELSE "still"
  OBVIOUS
<1>2. /\ Scr!Shell("full", to, XOffset, YOffset)
      /\ UNCHANGED <<ink, shown, turn, glyph, residue, painted, torn>>
  BY <1>1 DEF Scr!LookForWrap
<1>3. to # "wrapping" => XOffset + 10 <= Width
  <2>1. at = "full"
    BY <1>2 DEF Scr!Shell
  <2> QED
    BY <1>1, <2>1 DEF ScreenProof, ScreenPlaces
<1>4. /\ ScreenTypes' /\ ScreenPlaces'
      /\ XOffset' = XOffset /\ at = "full" /\ at' = to /\ Scr!TextRow' = Scr!TextRow
  <2>1. to \in {"still", "wrapping"} /\ turn' = turn
    BY <1>1, <1>2
  <2>2. /\ shown' \in Seq(Glyphs) /\ Len(shown') <= MaxLine /\ ink' \subseteq Spots
        /\ glyph' \in [width : Nat, ink : BOOLEAN] /\ painted' \in Nat /\ torn' \in BOOLEAN
        /\ turn \in {"prompt", "read", "typed", "echoed", "command"}
    BY <1>2, ScreenNow
  <2> QED
    BY <1>2, <1>3, <2>1, <2>2, ShellStays
<1>5. ScreenBlank'
  <2>1. Edge(XOffset)' = Edge(XOffset)
    BY <1>1, <1>4 DEF Edge
  <2> QED
    BY <1>1, <1>2, <1>4, <2>1 DEF ScreenProof, ScreenBlank
<1> QED
  BY <1>4, <1>5 DEF ScreenProof

LEMMA ShellClears ==
    ASSUME Scr!ConstantsOK, ScreenProof, Scr!Clear \/ Scr!ClearEnd PROVE ScreenProof'
<1>1. CASE Scr!Clear
  <2>1. /\ turn = "command" /\ turn' = turn /\ Scr!Shell("still", "cleared", XOffset, YOffset)
        /\ ink' = {} /\ residue' = {} /\ painted' = 0 /\ torn' = FALSE
        /\ shown' = shown /\ glyph' = glyph
    BY <1>1 DEF Scr!Clear
  <2>2. XOffset + 10 <= Width
    BY <2>1 DEF Scr!Shell, ScreenProof, ScreenPlaces
  <2>3. ScreenTypes' /\ ScreenPlaces' /\ at' = "cleared"
    <3>1. /\ shown' \in Seq(Glyphs) /\ Len(shown') <= MaxLine /\ ink' \subseteq Spots
          /\ glyph' \in [width : Nat, ink : BOOLEAN] /\ painted' \in Nat /\ torn' \in BOOLEAN
      BY <2>1, ScreenNow
    <3> QED
      BY <2>1, <2>2, <3>1, ShellStays
  <2>4. ScreenBlank'
    BY <2>1, <2>3 DEF ScreenBlank, Bare
  <2> QED
    BY <2>3, <2>4 DEF ScreenProof
<1>2. CASE Scr!ClearEnd
  <2>1. /\ Scr!Shell("cleared, left", "still", XOffset, 0)
        /\ UNCHANGED <<ink, shown, turn, glyph, residue, painted, torn>>
    BY <1>2 DEF Scr!ClearEnd
  <2>2. at = "cleared, left" /\ at' = "still"
    BY <2>1 DEF Scr!Shell
  <2>3. XOffset + 10 <= Width /\ turn = "command" /\ ~(XOffset < 0) /\ (~torn => ink = {})
    BY <2>2 DEF ScreenProof, ScreenPlaces, ScreenBlank
  <2>4. 0 <= Bottom(turn, "still") /\ 0 \in Nat /\ 0 % 10 = 0
    <3>1. Bottom(turn, "still") >= Height - 20 /\ Bottom(turn, "still") \in Int
      BY Bottoms
    <3> QED
      BY <3>1, ScreenNow
  <2>5. ScreenTypes' /\ ScreenPlaces'
    <3>1. /\ XOffset \in Int /\ ink' \subseteq Spots /\ painted' \in Nat
          /\ shown' \in Seq(Glyphs) /\ Len(shown') <= MaxLine
          /\ glyph' \in [width : Nat, ink : BOOLEAN] /\ torn' \in BOOLEAN
          /\ turn \in {"prompt", "read", "typed", "echoed", "command"} /\ turn' = turn
      BY <2>1, ScreenNow
    <3>8. RightPlace("still", turn', XOffset, 0)
      BY <2>1, <2>3, <2>4, <3>1 DEF RightPlace
    <3>9. RightData'
      BY <2>1, <2>3, <2>4, <3>1 DEF RightData
    <3> QED
      BY <2>1, <3>8, <3>9, ShellKeeps
  <2>6. ScreenBlank'
    BY <2>1, <2>2, <2>3 DEF ScreenBlank, Bare
  <2> QED
    BY <2>5, <2>6 DEF ScreenProof
<1> QED
  BY <1>1, <1>2

LEMMA ShellPaints ==
    ASSUME Scr!ConstantsOK, ScreenProof, Scr!Paint PROVE ScreenProof'
<1>1. /\ turn = "command" /\ turn' = turn /\ Scr!Shell("still", "still", XOffset, YOffset)
      /\ ink' = IF torn THEN {} ELSE (Scr!Row(YOffset) .. Scr!LastRow) \X (0 .. Width - 1)
      /\ painted' = IF torn THEN 0 ELSE Scr!LastRow + 1
      /\ UNCHANGED <<shown, glyph, residue, torn>>
  BY DEF Scr!Paint
<1>2. PICK rows \in Nat : Scr!LastRow = rows - 1 /\ Scr!LastRow + 1 = rows
  <2>1. PICK rows \in Nat : rows = Scr!Row(Height)
    BY Rows DEF Scr!ConstantsOK
  <2> QED
    BY <2>1 DEF Scr!LastRow
<1>3. Scr!Row(YOffset) \in Int /\ Width \in Nat
  BY RowsNow, ScreenNow
<1>4. \A p \in (Scr!Row(YOffset) .. Scr!LastRow) \X (0 .. Width - 1) : p \in Spots /\ p[1] < rows
  BY <1>2, <1>3 DEF Spots
<1>5. ink' \subseteq Spots /\ painted' \in Nat
  BY <1>1, <1>2, <1>4
<1>6. XOffset + 10 <= Width
  BY <1>1 DEF Scr!Shell, ScreenProof, ScreenPlaces
<1>7. ScreenTypes' /\ ScreenPlaces' /\ at' = "still"
  <2>1. /\ shown' \in Seq(Glyphs) /\ Len(shown') <= MaxLine
        /\ glyph' \in [width : Nat, ink : BOOLEAN] /\ torn' \in BOOLEAN
    BY <1>1, ScreenNow
  <2> QED
    BY <1>1, <1>5, <1>6, <2>1, ShellStays
<1>8. ScreenBlank'
  BY <1>1, <1>2, <1>4, <1>7 DEF ScreenBlank, Bare
<1> QED
  BY <1>7, <1>8 DEF ScreenProof

(* ReadLine takes a character, or looks at the last one.                   *)
LEMMA ShellReads ==
    ASSUME Scr!ConstantsOK, ScreenProof, (\E g \in Glyphs : Scr!Type(g)) \/ Scr!Measure
    PROVE  ScreenProof'
<1>1. PICK to : to = IF Scr!Measure THEN "measured" ELSE "still"
  OBVIOUS
<1>2. PICK who : who = IF Scr!Measure THEN "read" ELSE "typed"
  OBVIOUS
<1>3. /\ turn = "read" /\ Scr!Shell("still", to, XOffset, YOffset) /\ turn' = who
      /\ UNCHANGED <<ink, residue, painted, torn>>
  BY <1>1, <1>2 DEF Scr!Type, Scr!Measure
<1>4. shown' \in Seq(Glyphs) /\ Len(shown') <= MaxLine /\ glyph' \in [width : Nat, ink : BOOLEAN]
  <2>1. /\ shown \in Seq(Glyphs) /\ Len(shown) <= MaxLine /\ MaxLine \in Nat
        /\ \A g \in Glyphs : g \in [width : Nat, ink : BOOLEAN]
    BY ScreenNow DEF Scr!ConstantsOK
  <2>2. CASE Scr!Measure
    <3>1. shown # <<>> /\ shown' = shown /\ glyph' = Scr!Last(shown)
      BY <2>2 DEF Scr!Measure
    <3>2. shown[Len(shown)] \in Glyphs
      BY <2>1, <3>1
    <3> QED
      BY <2>1, <3>1, <3>2 DEF Scr!Last
  <2>3. CASE \E g \in Glyphs : Scr!Type(g)
    <3>1. PICK g \in Glyphs : Len(shown) < MaxLine /\ shown' = Append(shown, g) /\ glyph' = g
      BY <2>3 DEF Scr!Type
    <3> QED
      BY <2>1, <3>1
  <2> QED
    BY <2>2, <2>3
<1>5. XOffset + 10 <= Width
  BY <1>3 DEF Scr!Shell, ScreenProof, ScreenPlaces
<1>6. /\ ScreenTypes' /\ ScreenPlaces' /\ at = "still" /\ at' = to
      /\ Scr!TextRow' = Scr!TextRow /\ XOffset' = XOffset /\ YOffset' = YOffset
  <2>1. /\ ink' \subseteq Spots /\ painted' \in Nat /\ torn' \in BOOLEAN
        /\ who \in {"read", "typed"} /\ to \in {"still", "measured"}
        /\ to = "measured" => who = "read"
    BY <1>1, <1>2, <1>3, ScreenNow
  <2> QED
    BY <1>3, <1>4, <1>5, <2>1, ShellStays
<1>7. ScreenBlank'
  <2>1. Edge(XOffset)' = Edge(XOffset)
    BY <1>1, <1>6 DEF Edge
  <2> QED
    BY <1>1, <1>3, <1>6, <2>1 DEF ScreenProof, ScreenBlank
<1> QED
  BY <1>6, <1>7 DEF ScreenProof

(* The rectangle covers the character but for its last column.             *)
LEMMA BareErased ==
    ASSUME NEW px \in SUBSET Spots, NEW row, NEW x \in Int, NEW w \in Nat, NEW res, NEW rows,
           Bare(px, row, x, res, rows)
    PROVE  Bare(px \ {<<row, c>> : c \in Scr!FilledRect(x - w, w)}, row, x - w,
                res \cup {x - 1}, rows)
<1> SUFFICES ASSUME NEW p \in px, p \notin {<<row, c>> : c \in Scr!FilledRect(x - w, w)}
             PROVE  \/ p[1] < row \/ p[1] < rows
                    \/ p[1] = row /\ (p[2] < x - w \/ p[2] \in res \cup {x - 1})
  BY DEF Bare
<1>1. p = <<p[1], p[2]>> /\ p[2] \in Int
  BY DEF Spots
<1>2. p[1] < row \/ p[1] < rows \/ (p[1] = row /\ (p[2] < x \/ p[2] \in res))
  BY DEF Bare
<1>3. p[1] = row => p[2] \notin Scr!FilledRect(x - w, w)
  BY <1>1
<1>4. p[2] < x /\ p[2] \notin Scr!FilledRect(x - w, w) => p[2] < x - w \/ p[2] = x - 1
  BY <1>1 DEF Scr!FilledRect
<1> QED
  BY <1>2, <1>3, <1>4

(* A sequence without its last element.                                    *)
LEMMA DropLast ==
    ASSUME NEW S, NEW q \in Seq(S), q # <<>>
    PROVE  SubSeq(q, 1, Len(q) - 1) \in Seq(S) /\ Len(SubSeq(q, 1, Len(q) - 1)) = Len(q) - 1
<1>1. PICK n \in Nat : n = Len(q) - 1
  BY EmptySeq
<1>2. PICK m \in Nat : m = Len(q) /\ m = n + 1
  BY <1>1
<1>3. \A k \in 1 .. n : q[k] \in S
  <2> SUFFICES ASSUME NEW k \in 1 .. n PROVE q[k] \in S
    OBVIOUS
  <2>1. k \in 1 .. Len(q)
    BY <1>2
  <2> QED
    BY <2>1, ElementOfSeq
<1>4. SubSeq(q, 1, n) \in Seq(S) /\ Len(SubSeq(q, 1, n)) = n
  BY <1>3, SubSeqProperties
<1> QED
  BY <1>1, <1>4

LEMMA ShellErases ==
    ASSUME Scr!ConstantsOK, ScreenProof, Scr!Erase PROVE ScreenProof'
<1>1. PICK rect : rect =
          {<<Scr!Row(seen.y), c>> : c \in Scr!FilledRect(seen.x - glyph.width, glyph.width)}
  OBVIOUS
<1>2. /\ Scr!Shell("measured", "erased", XOffset, YOffset) /\ ink' = ink \ rect
      /\ residue' = IF torn THEN {} ELSE residue \cup {seen.x - 1}
      /\ shown' = Scr!Front(shown)
      /\ UNCHANGED <<turn, glyph, painted, torn>>
  BY <1>1 DEF Scr!Erase
<1>3. at = "measured" /\ inside = FALSE
  BY <1>2 DEF Scr!Shell, ScreenProof, ScreenTypes
<1>4. turn = "read" /\ XOffset + 10 <= Width
  BY <1>3 DEF ScreenProof, ScreenPlaces
<1>5. shown' \in Seq(Glyphs) /\ Len(shown') <= MaxLine
  <2>1. shown \in Seq(Glyphs) /\ Len(shown) <= MaxLine /\ MaxLine \in Nat
    BY ScreenNow DEF Scr!ConstantsOK
  <2>2. Scr!Front(shown) = SubSeq(shown, 1, Len(shown) - 1)
    BY DEF Scr!Front
  <2>3. CASE Len(shown) = 0
    BY <1>2, <2>1, <2>2, <2>3
  <2>4. CASE Len(shown) # 0
    <3>1. shown # <<>>
      BY <2>4
    <3>2. /\ SubSeq(shown, 1, Len(shown) - 1) \in Seq(Glyphs)
          /\ Len(SubSeq(shown, 1, Len(shown) - 1)) = Len(shown) - 1
      BY <2>1, <3>1, DropLast
    <3> QED
      BY <1>2, <2>1, <2>2, <2>4, <3>2
  <2> QED
    BY <2>3, <2>4
<1>6. /\ ScreenTypes' /\ ScreenPlaces' /\ at' = "erased"
      /\ Scr!TextRow' = Scr!Row(YOffset) /\ Scr!TextRow = Scr!Row(YOffset) /\ XOffset' = XOffset
  <2>1. /\ ink' \subseteq Spots /\ painted' \in Nat /\ torn' \in BOOLEAN
        /\ glyph' \in [width : Nat, ink : BOOLEAN]
    BY <1>2, ScreenNow
  <2> QED
    BY <1>2, <1>4, <1>5, <2>1, ShellStays
<1>7. ScreenBlank'
  <2> SUFFICES ASSUME ~torn
               PROVE  Bare(ink', Scr!TextRow', Edge(XOffset)', residue', painted)
    BY <1>2, <1>6 DEF ScreenBlank
  <2>1. seen.x = XOffset /\ seen.y = YOffset
    BY <1>3 DEF ScreenProof, ScreenPlaces
  <2>2. Edge(XOffset)' = XOffset - glyph.width /\ Edge(XOffset) = XOffset
    BY <1>2, <1>3, <1>6 DEF Edge
  <2>3. Bare(ink, Scr!Row(YOffset), XOffset, residue, painted)
    BY <1>6, <2>2 DEF ScreenProof, ScreenBlank
  <2>4. ink \in SUBSET Spots /\ XOffset \in Int /\ glyph.width \in Nat
    BY ScreenNow
  <2>5. Bare(ink \ rect, Scr!Row(YOffset), XOffset - glyph.width, residue \cup {XOffset - 1},
          painted)
    BY <1>1, <2>1, <2>3, <2>4, BareErased
  <2> QED
    BY <1>2, <1>6, <2>1, <2>2, <2>5
<1> QED
  BY <1>6, <1>7 DEF ScreenProof

LEMMA ShellMovesBack ==
    ASSUME Scr!ConstantsOK, ScreenProof, Scr!MoveBack PROVE ScreenProof'
<1>1. PICK x : x = seen.x - glyph.width
  OBVIOUS
<1>2. /\ Scr!Shell("erased", "still", x, YOffset) /\ glyph' = Scr!NoGlyph
      /\ UNCHANGED <<ink, shown, turn, residue, painted, torn>>
  BY <1>1 DEF Scr!MoveBack
<1>3. at = "erased" /\ at' = "still" /\ XOffset' = x /\ YOffset' = YOffset /\ inside = FALSE
  BY <1>2 DEF Scr!Shell, ScreenProof, ScreenTypes
<1>4. turn = "read" /\ seen.x + 10 <= Width
  BY <1>3 DEF ScreenProof, ScreenPlaces
<1>5. x \in Int /\ x + 10 <= Width
  <2>1. seen.x \in Int /\ glyph.width \in Nat /\ Width \in Nat
    BY ScreenNow
  <2> QED
    BY <1>1, <1>4, <2>1
<1>6. YOffset <= Bottom(turn, "still")
  <2>1. Bottom(turn, at) = Bottom(turn, "still")
    BY <1>3, Bottoms
  <2> QED
    BY <2>1, ScreenNow
<1>7. ScreenTypes' /\ ScreenPlaces'
  <2>1. /\ YOffset \in Nat /\ YOffset % 10 = 0 /\ ink' \subseteq Spots /\ painted' \in Nat
        /\ shown' \in Seq(Glyphs) /\ Len(shown') <= MaxLine
        /\ glyph' \in [width : Nat, ink : BOOLEAN] /\ torn' \in BOOLEAN /\ turn' = turn
    BY <1>2, ScreenNow
  <2>8. RightPlace("still", turn', x, YOffset)
    BY <1>2, <1>4, <1>5, <1>6, <2>1 DEF RightPlace
  <2>9. RightData'
    BY <1>2, <1>4, <1>5, <1>6, <2>1 DEF RightData
  <2> QED
    BY <1>2, <2>8, <2>9, ShellKeeps
<1>8. ScreenBlank'
  <2> SUFFICES ASSUME ~torn
               PROVE  Bare(ink, Scr!TextRow', Edge(XOffset)', residue, painted)
    BY <1>2, <1>3 DEF ScreenBlank
  <2>1. seen.x = XOffset
    BY <1>3 DEF ScreenProof, ScreenPlaces
  <2>2. Scr!TextRow' = Scr!TextRow
    BY <1>3 DEF Scr!TextRow, Scr!Row
  <2>3. Edge(XOffset)' = x /\ Edge(XOffset) = x
    BY <1>1, <1>3, <2>1 DEF Edge
  <2> QED
    BY <2>2, <2>3 DEF ScreenProof, ScreenBlank
<1> QED
  BY <1>7, <1>8 DEF ScreenProof

LEMMA ScreenRests ==
    ASSUME ScreenProof, UNCHANGED (Scr!vars) PROVE ScreenProof'
<1>1. /\ XOffset' = XOffset /\ YOffset' = YOffset /\ ink' = ink /\ shown' = shown
      /\ turn' = turn /\ at' = at /\ glyph' = glyph /\ seen' = seen /\ inside' = inside
      /\ residue' = residue /\ painted' = painted /\ torn' = torn
  BY DEF Scr!vars
<1>2. ScreenTypes'
  BY <1>1, Zenon DEF ScreenProof, ScreenTypes
<1>3. ScreenPlaces'
  BY <1>1 DEF ScreenProof, ScreenPlaces, Lowest, Scr!TooFar
<1>4. ScreenBlank'
  <2>1. Scr!TextRow' = Scr!TextRow /\ Edge(XOffset)' = Edge(XOffset)
    BY <1>1 DEF Scr!TextRow, Scr!Row, Edge
  <2> QED
    BY <1>1, <2>1 DEF ScreenProof, ScreenBlank
<1> QED
  BY <1>2, <1>3, <1>4 DEF ScreenProof

(* Every statement of the shell, and of a handler, keeps the invariant.    *)
LEMMA ScreenStep ==
    ASSUME Scr!ConstantsOK, ScreenProof, [Scr!Next]_(Scr!vars) PROVE ScreenProof'
<1>1. ASSUME NEW g \in Glyphs, Scr!HandlerPut(g) PROVE ScreenProof'
  BY <1>1, HandlerWrites
<1>2. CASE Scr!HandlerNewLine \/ Scr!HandlerEnd
  BY <1>2, HandlerWrites
<1>3. ASSUME NEW g \in Glyphs, Scr!Put(g) PROVE ScreenProof'
  <2>1. Scr!Draw(g) /\ turn' = turn /\ shown' = shown
    BY <1>3 DEF Scr!Put
  <2>2. g \in [width : Nat, ink : BOOLEAN]
    BY DEF Scr!ConstantsOK
  <2> QED
    BY <2>1, <2>2, ShellDraws
<1>4. CASE Scr!Echo
  <2>1. Scr!Draw(glyph) /\ turn = "typed" /\ turn' = "echoed" /\ shown' = shown
    BY <1>4 DEF Scr!Echo
  <2>2. glyph \in [width : Nat, ink : BOOLEAN]
    BY ScreenNow
  <2> QED
    BY <2>1, <2>2, ShellDraws
<1>5. CASE (\E g \in Glyphs : Scr!Type(g)) \/ Scr!Measure
  BY <1>5, ShellReads
<1>6. CASE Scr!Scroll \/ Scr!ScrollEnd \/ Scr!Advance
  BY <1>6, ShellScrolls, ShellHasScrolled, ShellAdvances
<1>7. CASE Scr!LookForWrap \/ Scr!Clear \/ Scr!ClearEnd \/ Scr!Paint \/ Scr!Erase \/ Scr!MoveBack
  BY <1>7, ShellWraps, ShellClears, ShellPaints, ShellErases, ShellMovesBack
<1>8. CASE Scr!WrapDown \/ Scr!PutNewLine \/ Scr!Enter
  <2>1. turn \in {"prompt", "read", "typed", "echoed", "command"}
    BY ScreenNow
  <2>2. CASE Scr!WrapDown
    <3>1. Scr!Down("wrapping", "down") /\ shown' = shown /\ turn' = turn
      BY <2>2 DEF Scr!WrapDown
    <3> QED
      BY <2>1, <3>1, ShellGoesDown
  <2>3. CASE Scr!PutNewLine
    <3>1. Scr!Down("still", "down") /\ shown' = shown /\ turn' = turn
      BY <2>3 DEF Scr!PutNewLine
    <3> QED
      BY <2>1, <3>1, ShellGoesDown
  <2>4. CASE Scr!Enter
    <3>1. Scr!Down("still", "entered") /\ shown' = shown /\ turn = "read" /\ turn' = "command"
      BY <2>4 DEF Scr!Enter
    <3> QED
      BY <3>1, ShellGoesDown
  <2> QED
    BY <1>8, <2>2, <2>3, <2>4
<1>9. CASE Scr!Home("down", "home") \/ Scr!Home("entered", "still")
             \/ Scr!Home("cleared", "cleared, left")
  BY <1>9, ShellGoesHome
<1>10. CASE Scr!ScrollAfterHome \/ Scr!EndOfWrite
  <2>1. /\ turn \in {"prompt", "read", "typed", "echoed", "command"}
        /\ shown \in Seq(Glyphs) /\ Len(shown) <= MaxLine
    BY ScreenNow
  <2>2. CASE Scr!ScrollAfterHome
    <3>1. Scr!LookForScroll("home") /\ shown' = shown /\ turn' = turn
      BY <2>2 DEF Scr!ScrollAfterHome
    <3> QED
      BY <2>1, <3>1, ShellLooks
  <2>3. CASE Scr!EndOfWrite
    <3>1. /\ Scr!LookForScroll("still") /\ shown' = shown
          /\ (turn = "command" /\ turn' = turn) \/ (turn = "echoed" /\ turn' = "read")
      BY <2>3 DEF Scr!EndOfWrite
    <3> QED
      BY <2>1, <3>1, ShellLooks
  <2> QED
    BY <1>10, <2>2, <2>3
<1>11. CASE Scr!PromptDone \/ Scr!CommandDone
  <2>1. <<>> \in Seq(Glyphs) /\ Len(<<>>) <= MaxLine
    BY DEF Scr!ConstantsOK
  <2>2. /\ Scr!LookForScroll("still") /\ shown' = <<>>
        /\ (turn = "prompt" /\ turn' = "read") \/ (turn = "command" /\ turn' = "prompt")
    BY <1>11 DEF Scr!PromptDone, Scr!CommandDone
  <2> QED
    BY <2>1, <2>2, ShellLooks
<1>12. CASE UNCHANGED (Scr!vars)
  BY <1>12, ScreenRests
<1> QED
  BY <1>1, <1>2, <1>3, <1>4, <1>5, <1>6, <1>7, <1>8, <1>9, <1>10, <1>11, <1>12, Zenon DEF Scr!Next

(* The console on the screen (console.cpp), for every size of the screen   *)
(* and every font: the text has its place on the screen, whatever handlers *)
(* write between the shell's statements, while the shell does not move the *)
(* cursor to another row, and where it is still to come the screen is      *)
(* blank, but for the last columns of characters that were erased, unless  *)
(* a handler wrote amid such a move, or between the shell's reading of     *)
(* what it goes by and its use, and but for the rows that videotest or the *)
(* boot painted.                                                           *)
THEOREM TextStaysRight ==
    ASSUME Scr!ConstantsOK PROVE Scr!Spec => []Scr!ScreenInv
<1>1. Scr!Init => ScreenProof
  BY ScreenBegins
<1>2. ScreenProof /\ [Scr!Next]_(Scr!vars) => ScreenProof'
  BY ScreenStep
<1>3. ScreenProof => Scr!ScreenInv
  BY ScreenSuffices
<1> QED
  BY <1>1, <1>2, <1>3, PTL DEF Scr!Spec
=============================================================================
