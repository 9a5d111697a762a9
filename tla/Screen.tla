------------------------------- MODULE Screen -------------------------------
(***************************************************************************)
(* The console on the screen (src/src/gui/console.cpp, with DrawTo of      *)
(* font.cpp and DrawFillRect of canvas.cpp): the cursor, wrapping,         *)
(* scrolling, and the characters that a backspace takes away.  Shell::Next *)
(* writes its prompt, reads a line and lets a command write, statement by  *)
(* statement; between any two an interrupt handler may write as well       *)
(* (keyboard.cpp, the network), whole strings before the shell goes on.    *)
(* What is kept of a line is in ConsoleInput.tla.                          *)
(***************************************************************************)
EXTENDS Integers, Sequences, SequencesExt

CONSTANTS
    Width, Height,  \* of the screen in pixels
    Glyphs,         \* kinds of characters of the font: width, ink
    MaxLine         \* bound on the characters typed

(* What the constants must satisfy.                                        *)
ConstantsOK ==
    /\ Width \in Nat /\ Width > 10 /\ Height \in Nat /\ Height >= 30 /\ Height % 10 = 0
    /\ Glyphs \subseteq [width : Nat, ink : BOOLEAN] /\ MaxLine \in Nat

VARIABLES
    XOffset, YOffset,
    ink,            \* the pixels that may be other than background, as row of
                    \* text and column, from the cursor's row on, unless torn
    line,           \* the characters ReadLine holds
    turn,           \* of Shell::Next: "prompt", "read", "command"; or a key is
                    \* to be written, "typed", or has been, "echoed"
    at,             \* the statement that the shell has come to
    glyph,          \* the character it draws or erases, whose data are static
    seen,           \* the cursor as the shell finds it, or has already read it
    inside,         \* an interrupt handler is writing
    residue,        \* history: last columns of characters erased in this row
    painted,        \* history: the rows from the top that may have been painted
    torn            \* history: a handler wrote amid a move of the cursor, or
                    \* over what the shell had read, since the last clear

vars ==
    <<XOffset, YOffset, ink, line, turn, at, glyph, seen, inside, residue, painted, torn>>

Row(y) == y \div 10
LastRow == Row(Height) - 1
NoGlyph == [width |-> 0, ink |-> FALSE]

(* The boot writes as a command does.                                      *)
Init ==
    /\ XOffset = 0 /\ YOffset = 0 /\ ink = {} /\ line = <<>>
    /\ turn = "command" /\ at = "still" /\ glyph = NoGlyph
    /\ seen = [x |-> 0, y |-> 0] /\ inside = FALSE
    /\ residue = {} /\ painted = 0 /\ torn = FALSE

----------------------------------------------------------------------------
(* A wrong scroll for the mutation runs: the last row is not cleared.       *)
ScrollDownDirty(px) == {<<p[1] - 1, p[2]>> : p \in px} \cup {p \in px : p[1] = LastRow}

(* Every row moves up, and the last is cleared.                            *)
ScrollDown(px) == {<<p[1] - 1, p[2]>> : p \in {q \in px : q[1] <= LastRow}}

Fewer(rows) == IF rows = 0 THEN 0 ELSE rows - 1

(* What lies above the cursor is no longer kept.                           *)
Kept(px, y) == {p \in px : p[1] >= Row(y)}

(* A wrong test for the mutation runs: the last row is written in.          *)
MustScrollLate(y) == y > Height - 10

MustScroll(y) == y > Height - 20

(* There must be room for ten columns.  The comparison is unsigned.        *)
TooFar(x) == x + 10 < 0 \/ x + 10 > Width

Drawn(pos, g) ==
    IF g.ink THEN {<<Row(pos.y), c>> : c \in pos.x .. pos.x + g.width - 1} ELSE {}

----------------------------------------------------------------------------
(* Write in an interrupt handler, which the shell cannot interrupt: the    *)
(* cursor after a character, after a new line, and after CheckForScroll.   *)
Cursor == [x |-> XOffset, y |-> YOffset, ink |-> ink, painted |-> painted, new |-> FALSE]

Scrolled(cur) ==
    IF MustScroll(cur.y)
    THEN [cur EXCEPT !.y = @ - 10, !.ink = ScrollDown(@), !.painted = Fewer(@)]
    ELSE cur

NewLine(cur) == Scrolled([cur EXCEPT !.x = 0, !.y = @ + 10, !.new = TRUE])

Character(cur, g) ==
    LET drawn == [cur EXCEPT !.ink = @ \cup Drawn(cur, g), !.x = @ + g.width]
    IN  IF TooFar(drawn.x) THEN NewLine(drawn) ELSE drawn

(* The shell draws, erases and moves from where the cursor is, before and  *)
(* after a handler's text alike: only here does that harm nothing.         *)
Safe == {"still", "drawn", "measured"}

MoveTo(cur) ==
    /\ XOffset' = cur.x /\ YOffset' = cur.y
    /\ ink' = IF torn' THEN {} ELSE Kept(cur.ink, cur.y)
    /\ residue' = IF torn' \/ cur.new THEN {} ELSE residue
    /\ painted' = IF torn' THEN 0 ELSE cur.painted

HandlerPut(g) ==
    /\ inside' = TRUE
    /\ torn' = (torn \/ at \notin Safe)
    /\ MoveTo(Character(Cursor, g))
    /\ UNCHANGED <<line, turn, at, glyph, seen>>

HandlerNewLine ==
    /\ inside' = TRUE
    /\ torn' = (torn \/ at \notin Safe)
    /\ MoveTo(NewLine(Cursor))
    /\ UNCHANGED <<line, turn, at, glyph, seen>>

(* The shell returns to its statement and finds the cursor where it is     *)
(* now, or it had read it before the handler came; then it may find the    *)
(* handler's character in place of its own, in the arrays of GetCharData   *)
(* and CharToStr.                                                          *)
HandlerEnd ==
    /\ inside /\ inside' = FALSE
    /\ LET cur == Scrolled(Cursor)
       IN  \/ /\ torn' = torn
              /\ seen' = [x |-> cur.x, y |-> cur.y]
              /\ glyph' = glyph
              /\ MoveTo(cur)
           \/ /\ torn' = TRUE
              /\ seen' = seen
              /\ glyph' \in {glyph} \cup
                     (IF at \in {"drawn", "measured"} \/ turn = "typed" THEN Glyphs ELSE {})
              /\ MoveTo(cur)
    /\ UNCHANGED <<line, turn, at>>

----------------------------------------------------------------------------
(* The shell comes from one statement to another, and the cursor to (x, y).*)
Shell(from, to, x, y) ==
    /\ ~inside /\ at = from /\ at' = to
    /\ XOffset' = x /\ YOffset' = y /\ seen' = [x |-> x, y |-> y]
    /\ UNCHANGED inside

(* CheckForScroll looks whether the text has come to the end.              *)
LookForScroll(from) ==
    /\ Shell(from, IF MustScroll(seen.y) THEN "scrolling" ELSE "still", XOffset, YOffset)
    /\ UNCHANGED <<ink, glyph, residue, painted, torn>>

(* ScrollDown.                                                             *)
Scroll ==
    /\ Shell("scrolling", "scrolled", XOffset, YOffset)
    /\ ink' = ScrollDown(ink) /\ painted' = Fewer(painted)
    /\ UNCHANGED <<line, turn, glyph, residue, torn>>

ScrollEnd ==
    /\ Shell("scrolled", "still", XOffset, seen.y - 10)
    /\ UNCHANGED <<ink, line, turn, glyph, residue, painted, torn>>

(* A character of Write: it is drawn where the cursor is, which then moves *)
(* and wraps.                                                              *)
Draw(g) ==
    /\ Shell("still", "drawn", XOffset, YOffset)
    /\ glyph' = g
    /\ ink' = IF torn THEN {} ELSE ink \cup Drawn(seen, g)
    /\ UNCHANGED <<residue, painted, torn>>

Advance ==
    /\ LET x == seen.x + glyph.width
       IN  Shell("drawn", IF TooFar(x) THEN "full" ELSE "still", x, YOffset)
    /\ glyph' = NoGlyph
    /\ UNCHANGED <<ink, line, turn, residue, painted, torn>>

LookForWrap ==
    /\ Shell("full", IF TooFar(seen.x) THEN "wrapping" ELSE "still", XOffset, YOffset)
    /\ UNCHANGED <<ink, line, turn, glyph, residue, painted, torn>>

(* The next row: first down, then to the left.                             *)
Down(from, to) ==
    /\ Shell(from, to, XOffset, seen.y + 10)
    /\ ink' = Kept(ink, seen.y + 10) /\ residue' = {}
    /\ UNCHANGED <<glyph, painted, torn>>

WrapDown == Down("wrapping", "down") /\ UNCHANGED <<line, turn>>

Home(from, to) ==
    /\ Shell(from, to, 0, YOffset)
    /\ UNCHANGED <<ink, line, turn, glyph, residue, painted, torn>>

ScrollAfterHome == LookForScroll("home") /\ UNCHANGED <<line, turn>>

----------------------------------------------------------------------------
(* Write, by the prompt or by a command.                                   *)
Put(g) ==
    /\ turn \in {"prompt", "command"}
    /\ Draw(g)
    /\ UNCHANGED <<line, turn>>

PutNewLine ==
    /\ turn \in {"prompt", "command"}
    /\ Down("still", "down")
    /\ UNCHANGED <<line, turn>>

EndOfWrite ==
    /\ \/ turn = "command" /\ turn' = turn
       \/ turn = "echoed" /\ turn' = "read"
    /\ LookForScroll("still")
    /\ UNCHANGED line

(* The command clear.                                                      *)
Clear ==
    /\ turn = "command"
    /\ Shell("still", "cleared", XOffset, YOffset)
    /\ ink' = {} /\ residue' = {} /\ painted' = 0 /\ torn' = FALSE
    /\ UNCHANGED <<line, turn, glyph>>

ClearEnd ==
    /\ Shell("cleared, left", "still", XOffset, 0)
    /\ UNCHANGED <<ink, line, turn, glyph, residue, painted, torn>>

(* The command videotest paints all the screen and more over it, without   *)
(* the cursor; the boot has painted a corner.                              *)
Paint ==
    /\ turn = "command"
    /\ Shell("still", "still", XOffset, YOffset)
    /\ ink' = IF torn THEN {} ELSE (Row(YOffset) .. LastRow) \X (0 .. Width - 1)
    /\ painted' = IF torn THEN 0 ELSE LastRow + 1
    /\ UNCHANGED <<line, turn, glyph, residue, torn>>

PromptDone ==
    /\ turn = "prompt" /\ turn' = "read"
    /\ LookForScroll("still")
    /\ line' = <<>>

CommandDone ==
    /\ turn = "command" /\ turn' = "prompt"
    /\ LookForScroll("still")
    /\ line' = <<>>

----------------------------------------------------------------------------
(* ReadLine: a character is a string for Write.                            *)
Type(g) ==
    /\ turn = "read" /\ turn' = "typed"
    /\ Len(line) < MaxLine /\ line' = Append(line, g)
    /\ Shell("still", "still", XOffset, YOffset)
    /\ glyph' = g
    /\ UNCHANGED <<ink, residue, painted, torn>>

Echo ==
    /\ turn = "typed" /\ turn' = "echoed"
    /\ Draw(glyph)
    /\ UNCHANGED line

(* A backspace: the width of the last character is taken,                  *)
Measure ==
    /\ turn = "read" /\ line # <<>>
    /\ Shell("still", "measured", XOffset, YOffset)
    /\ glyph' = Last(line)
    /\ UNCHANGED <<ink, line, turn, residue, painted, torn>>

(* DrawFillRect leaves out its last column (see Drawing.tla).              *)
FilledRect(x, width) == x .. x + width - 2

(* a rectangle of that width filled, where the cursor is now,              *)
Erase ==
    /\ Shell("measured", "erased", XOffset, YOffset)
    /\ ink' = ink \ {<<Row(seen.y), c>> : c \in FilledRect(seen.x - glyph.width, glyph.width)}
    /\ residue' = IF torn THEN {} ELSE residue \cup {seen.x - 1}
    /\ line' = Front(line)
    /\ UNCHANGED <<turn, glyph, painted, torn>>

(* and the cursor moved back in its row.                                   *)
MoveBack ==
    /\ Shell("erased", "still", seen.x - glyph.width, YOffset)
    /\ glyph' = NoGlyph
    /\ UNCHANGED <<ink, line, turn, residue, painted, torn>>

(* The end of the line, without CheckForScroll.                            *)
Enter ==
    /\ turn = "read" /\ turn' = "command"
    /\ Down("still", "entered")
    /\ UNCHANGED line

Next ==
    \/ \E g \in Glyphs : HandlerPut(g) \/ Put(g) \/ Type(g)
    \/ HandlerNewLine \/ HandlerEnd
    \/ Scroll \/ ScrollEnd
    \/ Advance \/ LookForWrap \/ WrapDown \/ ScrollAfterHome
    \/ Home("down", "home") \/ Home("entered", "still") \/ Home("cleared", "cleared, left")
    \/ PutNewLine \/ EndOfWrite \/ Clear \/ ClearEnd \/ Paint \/ PromptDone \/ CommandDone
    \/ Echo \/ Measure \/ Erase \/ MoveBack \/ Enter

Spec == Init /\ [][Next]_vars

----------------------------------------------------------------------------
TypeOK ==
    /\ XOffset \in Int /\ YOffset \in Nat /\ YOffset % 10 = 0
    /\ turn \in {"prompt", "read", "typed", "echoed", "command"}
    /\ Len(line) <= MaxLine

(* Where the shell may draw, and a handler that does not write while the   *)
(* cursor moves to another row, the text has its place on the screen: ten  *)
(* columns to the cursor's right, and ten rows down, twenty while a line   *)
(* is read, although Enter moves down without scrolling, a handler's text  *)
(* may scroll in the middle of the shell's own scrolling, and what the     *)
(* shell has read of the cursor may be old.  Only a backspace over a line  *)
(* break takes the cursor to the left of the screen, until Enter.          *)
Moving == {"full", "wrapping", "down", "home", "scrolling", "scrolled"}

Deepest == IF turn = "command" THEN Height - 10 ELSE Height - 20

OnScreen ==
    /\ YOffset <= Height
    /\ at \notin Moving =>
           \A pos \in {seen, [x |-> XOffset, y |-> YOffset]} :
               /\ pos.y \in 0 .. Deepest
               /\ pos.x + 10 <= Width
               /\ pos.x < 0 => turn \in {"read", "typed", "echoed"} \/ at = "entered"

(* Where text is still to come the screen is blank, although handlers      *)
(* write where the shell does: below the cursor, and to its right but for  *)
(* the last column of a character that was erased, which the rectangle     *)
(* that is to cover it leaves out.  That is so unless a handler wrote      *)
(* while the shell moved the cursor, or between the shell's reading of     *)
(* what it goes by and its use, and in the rows that were on the screen    *)
(* when it was painted, until they have been scrolled away.                *)
TextRow == IF at = "scrolled" THEN Row(YOffset) - 1 ELSE Row(YOffset)
TextColumn == IF at = "drawn" THEN XOffset + glyph.width ELSE XOffset

BlankAhead ==
    ~torn => \A p \in ink :
        \/ p[1] < TextRow \/ p[1] < painted
        \/ p[1] = TextRow /\ (p[2] < TextColumn \/ p[2] \in residue)

ScreenInv == TypeOK /\ OnScreen /\ BlankAhead
=============================================================================
