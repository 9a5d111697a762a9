------------------------------ MODULE Pictures ------------------------------
(***************************************************************************)
(* The operations of Canvas on whole pictures (src/src/gui/canvas.cpp) and *)
(* the drawing of a BMP image (bmp.cpp), on a framebuffer of words, one to *)
(* a pixel, whose rows can have words after them that are not shown.       *)
(***************************************************************************)
EXTENDS Integers, Sequences

CONSTANTS
    Width, Height,
    Spares,         \* words after a row, from one to the next a pitch
    Sides           \* widths and heights of BMP images

(* What the constants must satisfy.                                        *)
ConstantsOK ==
    /\ Width \in Nat \ {0} /\ Height \in Nat \ {0} /\ Spares \subseteq 0 .. Width
    /\ Sides \subseteq Nat \ {0}

VARIABLES
    work,           \* the function called, with its arguments
    result          \* what it has made; <<>> before

vars == <<work, result>>

Screen == (0 .. Width - 1) \X (0 .. Height - 1)

(* SetPixel and GetPixel, with x and y in unsigned arithmetic: no check    *)
(* keeps them on the screen.                                               *)
Where(x, y, spare) == y * (Width + spare) + x

GetPixel(memory, a) == IF a \in DOMAIN memory THEN memory[a] ELSE "beside"

(* A pixel is filled and then those to the right, below, to the left and   *)
(* above, each if it has the old colour by then.  calls are the calls of   *)
(* FloodFill that are still to be made, the next one first; each pixel     *)
(* makes no more than four.                                                *)
Made(s, spare) ==
    LET x == Head(s.calls)[1]
        y == Head(s.calls)[2]
    IN  IF GetPixel(s.memory, Where(x, y, spare)) # "old" THEN [s EXCEPT !.calls = Tail(@)]
        ELSE [memory |-> [s.memory EXCEPT ![Where(x, y, spare)] = "new"],
              calls |-> <<<<x + 1, y>>, <<x, y + 1>>, <<x - 1, y>>, <<x, y - 1>>>> \o Tail(s.calls)]

FloodFill(memory, p, spare) ==
    LET after[n \in Nat] ==
            IF n = 0 THEN [memory |-> memory, calls |-> <<p>>]
            ELSE LET s == after[n - 1]
                 IN  IF s.calls = <<>> THEN s ELSE Made(s, spare)
    IN  after[4 * Width * Height + 1].memory

(* What Clear sets, in words from the start of the framebuffer: with a     *)
(* colour it takes the number of bytes for that of words.                  *)
Clear == 0 .. Width * Height - 1
ClearColor == 0 .. 4 * Width * Height - 1

(* A wrong DrawTo for the mutation runs: rows follow without a gap.        *)
DrawToUnpadded(width, height) ==
    [p \in (0 .. width - 1) \X (0 .. height - 1) |->
        (height - p[2] - 1) * width * 3 + p[1] * 3]

(* The bytes of a BMP, from the start of its data, that are the blue, the  *)
(* green and the red of each pixel.                                        *)
DrawTo(width, height) ==
    LET over == (width * 3) % 4
        alignment == IF over # 0 THEN 4 - over ELSE 0
        rowOffset(y) == (height - y - 1) * (width * 3 + alignment)
    IN  [p \in (0 .. width - 1) \X (0 .. height - 1) |-> rowOffset(p[2]) + p[1] * 3]

----------------------------------------------------------------------------
(* A picture to fill has two colours, and another in the words not shown.  *)
Framebuffer(picture, spare) ==
    [a \in 0 .. Height * (Width + spare) - 1 |->
        LET x == a % (Width + spare)
        IN  IF x < Width THEN picture[<<x, a \div (Width + spare)>>] ELSE "beside"]

Works ==
    [f : {"FloodFill"}, picture : [Screen -> {"old", "other"}], at : Screen, spare : Spares]
    \cup [f : {"Clear", "Clear(color)"}, spare : Spares]
    \cup [f : {"DrawTo"}, width : Sides, height : Sides]

Init == work \in Works /\ result = <<>>

Draw ==
    /\ result' = <<
          CASE work.f = "FloodFill" ->
                  FloodFill(Framebuffer(work.picture, work.spare), work.at, work.spare)
            [] work.f = "Clear" -> Clear
            [] work.f = "Clear(color)" -> ClearColor
            [] work.f = "DrawTo" -> DrawTo(work.width, work.height)>>
    /\ UNCHANGED work

Next == Draw
Spec == Init /\ [][Next]_vars

----------------------------------------------------------------------------
(* The pixels of the old colour that hang together with the first.         *)
Beside(p) == {<<p[1] + 1, p[2]>>, <<p[1] - 1, p[2]>>, <<p[1], p[2] + 1>>, <<p[1], p[2] - 1>>}

Region ==
    LET old == {p \in Screen : work.picture[p] = "old"}
        within[n \in 0 .. Width * Height] ==
            IF n = 0 THEN {work.at} \cap old
            ELSE LET w == within[n - 1] IN w \cup {p \in old : Beside(p) \cap w # {}}
    IN  within[Width * Height]

(* All of the region is filled, and no more unless the rows follow one     *)
(* another without a gap and the region reaches the end of a row of which  *)
(* the next starts, outside the region, with the old colour, or the other  *)
(* way about: the filling goes on there.                                   *)
Filled == {p \in Screen : result[1][Where(p[1], p[2], work.spare)] = "new"}

Around ==
    \E p \in Region, q \in Screen \ Region :
        /\ work.picture[q] = "old"
        /\ \/ p[1] = Width - 1 /\ q = <<0, p[2] + 1>>
           \/ p[1] = 0 /\ q = <<Width - 1, p[2] - 1>>

FillRight ==
    /\ Region \subseteq Filled
    /\ \A p \in Filled : work.picture[p] = "old"
    /\ Filled # Region <=> (work.spare = 0 /\ Around)

(* Clear misses the end of the screen if rows have words after them; with  *)
(* a colour it misses none, but goes on far beyond the framebuffer.        *)
OnScreen == {Where(p[1], p[2], work.spare) : p \in Screen}
Buffer == 0 .. Height * (Width + work.spare) - 1

ClearRight ==
    /\ work.f = "Clear" => (OnScreen \subseteq result[1] <=> (work.spare = 0 \/ Height = 1))
                           /\ result[1] \subseteq Buffer
    /\ work.f = "Clear(color)" => OnScreen \subseteq result[1] /\ ~(result[1] \subseteq Buffer)

(* As the format has it: the lowest row comes first, and each row starts   *)
(* at the next multiple of four bytes.                                     *)
ImageRight ==
    \A p \in DOMAIN result[1] :
        /\ p = <<0, work.height - 1>> => result[1][p] = 0
        /\ p[1] > 0 => result[1][p] = result[1][<<p[1] - 1, p[2]>>] + 3
        /\ (p[1] = 0 /\ p[2] < work.height - 1) =>
              LET lastOfRow == result[1][<<work.width - 1, p[2] + 1>>]
              IN  result[1][p] % 4 = 0 /\ result[1][p] - (lastOfRow + 3) \in 0 .. 3

PictureRight ==
    result # <<>> =>
        CASE work.f = "FloodFill" -> FillRight
          [] work.f = "DrawTo" -> ImageRight
          [] OTHER -> ClearRight
=============================================================================
