------------------------------ MODULE Drawing ------------------------------
(***************************************************************************)
(* The shapes of Canvas (src/src/gui/canvas.cpp) as sets of pixels, loop   *)
(* by loop, against what the shapes should be.  The order in which pixels  *)
(* are set, and their colour, make no difference but to the last pixel of  *)
(* a line.                                                                 *)
(***************************************************************************)
EXTENDS Integers, Sequences, FiniteSets

CONSTANTS
    Size,           \* bound on the coordinates and radii tried
    Endless         \* stands for the 2^32 - n turns of a loop to -n

VARIABLES
    shape,          \* what is to be drawn: kind and arguments
    pixels          \* what has been drawn

vars == <<shape, pixels>>

(* math.h.                                                                 *)
Abs(v) == IF v < 0 THEN -v ELSE v

(* The sign of 1 is 0: the test is v > 1.                                  *)
Sign(v) == IF v < 0 THEN -1 ELSE IF v > 1 THEN 1 ELSE 0

----------------------------------------------------------------------------
(* A wrong Turns for the mutation runs: both ends are drawn.               *)
TurnsBothEnds(dx) == IF dx < 0 THEN Endless ELSE dx + 1

(* The counter is unsigned, so that dx < 0 goes on nearly for ever.        *)
Turns(dx) == IF dx < 0 THEN Endless ELSE dx

DrawHorizontalLine(dx, x1, y1) == {<<x1 + i, y1>> : i \in 0 .. Turns(dx) - 1}
DrawVerticalLine(dy, x1, y1) == {<<x1, y1 + i>> : i \in 0 .. Turns(dy) - 1}

(* The pixels of a line that is more horizontal than vertical, a step at a *)
(* time; the other is its mirror image in both loops.                      *)
Steep(dx, dy) == Abs(dx) < Abs(dy)

DiagonalPath(dx, dy) ==
    LET long == IF Steep(dx, dy) THEN dy ELSE dx
        short == IF Steep(dx, dy) THEN dx ELSE dy
        step[i \in 0 .. Abs(long)] ==
            IF i = 0 THEN [acc |-> Abs(long) \div 2, l |-> 0, s |-> 0]
            ELSE LET acc == step[i - 1].acc + Abs(short)
                     over == acc >= Abs(long)
                 IN  [acc |-> IF over THEN acc - Abs(long) ELSE acc,
                      s |-> step[i - 1].s + (IF over THEN Sign(short) ELSE 0),
                      l |-> step[i - 1].l + Sign(long)]
    IN  [i \in 1 .. Abs(long) |->
            IF Steep(dx, dy) THEN <<step[i].s, step[i].l>> ELSE <<step[i].l, step[i].s>>]

DrawDiagonalLine(dx, dy, x1, y1) ==
    LET path == DiagonalPath(dx, dy)
    IN  {<<x1 + path[i][1], y1 + path[i][2]>> : i \in DOMAIN path}

DrawLine(x1, y1, x2, y2) ==
    LET dx == x2 - x1
        dy == y2 - y1
    IN  IF dy = 0 THEN DrawHorizontalLine(dx, x1, y1)
        ELSE IF dx = 0 THEN DrawVerticalLine(dy, x1, y1)
        ELSE DrawDiagonalLine(dx, dy, x1, y1)

DrawRect(x, y, width, height) ==
    DrawLine(x, y, x + width, y) \cup DrawLine(x, y, x, y + height)
    \cup DrawLine(x + width, y, x + width, y + height)
    \cup DrawLine(x, y + height, x + width, y + height)

DrawFillRect(x, y, width, height) ==
    UNION {DrawLine(x, v, x + width - 1, v) : v \in y .. y + height - 1}

----------------------------------------------------------------------------
Octants(x, y) ==
    {<<x, y>>, <<y, x>>, <<-y, x>>, <<-x, y>>, <<-x, -y>>, <<-y, -x>>, <<y, -x>>, <<x, -y>>}

DrawCircle(radius) ==
    LET step[y \in 0 .. radius + 1] ==
            IF y = 0 THEN [x |-> radius, e |-> 0]
            ELSE LET s == step[y - 1]
                     e == IF s.e <= 0 THEN s.e + 2 * y + 1 ELSE s.e
                 IN  IF e > 0 THEN [x |-> s.x - 1, e |-> e - (2 * (s.x - 1) + 1)]
                     ELSE [x |-> s.x, e |-> e]
    IN  UNION {Octants(step[y].x, y) : y \in {v \in 0 .. radius : step[v].x >= v}}

(* % and / of C, which the loop uses on natural numbers only.              *)
DrawFillCircle(radius) ==
    LET rr == 2 * radius
        tx(i) == (i % rr) - radius
        ty(i) == (i \div rr) - radius
    IN  {<<tx(i), ty(i)>> : i \in {k \in 0 .. 4 * radius * radius - 1 :
                                      tx(k) * tx(k) + ty(k) * ty(k) <= radius * radius}}

(* With the turns of the loop counted: it ends after x_radius + y_radius   *)
(* + 1 of them at most, which ShapeRight checks.                           *)
EllipsePath(xr, yr) ==
    LET a == 2 * xr
        b == 2 * yr
        dx0 == 4 * (1 - a) * b * b
        dy0 == 4 * a * a
        step[n \in 0 .. xr + yr + 1] ==
            IF n = 0 THEN [x |-> xr, y |-> 0, dx |-> dx0, dy |-> dy0, err |-> dx0 + dy0]
            ELSE LET s == step[n - 1]
                     up == 2 * s.err <= s.dy
                     dy == IF up THEN s.dy + 8 * a * a ELSE s.dy
                     err == IF up THEN s.err + dy ELSE s.err
                     in == 2 * s.err >= s.dx \/ 2 * err > dy
                     dx == IF in THEN s.dx + 8 * b * b ELSE s.dx
                 IN  IF s.x < 0 THEN s
                     ELSE [x |-> IF in THEN s.x - 1 ELSE s.x,
                           y |-> IF up THEN s.y + 1 ELSE s.y,
                           dx |-> dx, dy |-> dy, err |-> IF in THEN err + dx ELSE err]
    IN  step

DrawEllipse(xr, yr) ==
    LET step == EllipsePath(xr, yr)
        drawn == {n \in DOMAIN step : step[n].x >= 0}
    IN  UNION {{<<step[n].x, step[n].y>>, <<-step[n].x, step[n].y>>,
                <<-step[n].x, -step[n].y>>, <<step[n].x, -step[n].y>>} : n \in drawn}

----------------------------------------------------------------------------
(* Shapes round the origin; lines from it.                                 *)
Shapes ==
    [kind : {"line"}, a : -Size .. Size, b : -Size .. Size]
    \cup [kind : {"rect", "filled rect"}, a : 1 .. Size, b : 1 .. Size]
    \cup [kind : {"circle"}, a : 0 .. Size, b : {0}]
    \cup [kind : {"filled circle"}, a : 1 .. Size, b : {0}]
    \cup [kind : {"ellipse"}, a : 1 .. Size, b : 1 .. Size]

Init == shape \in Shapes /\ pixels = {}

Draw ==
    /\ pixels' = CASE shape.kind = "line" -> DrawLine(0, 0, shape.a, shape.b)
                   [] shape.kind = "rect" -> DrawRect(0, 0, shape.a, shape.b)
                   [] shape.kind = "filled rect" -> DrawFillRect(0, 0, shape.a, shape.b)
                   [] shape.kind = "circle" -> DrawCircle(shape.a)
                   [] shape.kind = "filled circle" -> DrawFillCircle(shape.a)
                   [] shape.kind = "ellipse" -> DrawEllipse(shape.a, shape.b)
    /\ UNCHANGED shape

Next == Draw
Spec == Init /\ [][Next]_vars

----------------------------------------------------------------------------
(* A diagonal line leaves out its first point and ends in its last, and is *)
(* nowhere more than half a pixel off the ideal one, but when dx or dy is  *)
(* 1: then the sign comes out as 0 and the line never takes that step.     *)
Ideal(p, dx, dy) ==
    LET off == 2 * Abs(p[2] * dx - p[1] * dy)
    IN  off <= IF Steep(dx, dy) THEN Abs(dy) ELSE Abs(dx)

LineRight(dx, dy, line) ==
    IF dx = 1 \/ dy = 1
    THEN <<dx, dy>> \notin line /\ line \subseteq {<<x, y>> : x \in -Size .. Size, y \in -Size .. Size}
    ELSE /\ <<0, 0>> \notin line /\ <<dx, dy>> \in line
         /\ Cardinality(line) = IF Steep(dx, dy) THEN Abs(dy) ELSE Abs(dx)
         /\ \A p \in line : Ideal(p, dx, dy)

(* A straight one leaves out its last point; drawn to the left or upwards  *)
(* it does not end before it has overwritten all memory.                   *)
StraightRight(dx, dy, line) ==
    IF dx < 0 \/ dy < 0 THEN Cardinality(line) = Endless
    ELSE line = {<<x, y>> : x \in 0 .. dx, y \in 0 .. dy} \ {<<dx, dy>>}

(* A rectangle lacks the corner D; a filled one its last column.           *)
Border(w, h) ==
    {p \in (0 .. w) \X (0 .. h) : p[1] \in {0, w} \/ p[2] \in {0, h}} \ {<<w, h>>}

(* A circle lies between two of radius r - 2 and r and has its symmetries; *)
(* a filled one is a disc without its rightmost and its lowest pixel.      *)
CircleRight(r, circle) ==
    /\ \A p \in circle :
          LET d == p[1] * p[1] + p[2] * p[2]
          IN  d <= r * r /\ d >= r * r - 2 * r - 2
    /\ \A p \in circle : Octants(p[1], p[2]) \subseteq circle

Disc(r) == {p \in (-r .. r) \X (-r .. r) : p[1] * p[1] + p[2] * p[2] <= r * r}

(* The loop of an ellipse ends, and the ellipse touches the sides of its   *)
(* box but for its top and bottom when it is narrower than half as high.   *)
EllipseRight(xr, yr, ellipse) ==
    /\ EllipsePath(xr, yr)[xr + yr + 1].x < 0
    /\ \A p \in ellipse : Abs(p[1]) <= xr /\ Abs(p[2]) <= yr /\ <<-p[1], -p[2]>> \in ellipse
    /\ {<<xr, 0>>, <<-xr, 0>>} \subseteq ellipse
    /\ 2 * xr >= yr => \E p \in ellipse : p[2] = yr

ShapeRight ==
    pixels # {} =>
        CASE shape.kind = "line" ->
                IF shape.a # 0 /\ shape.b # 0 THEN LineRight(shape.a, shape.b, pixels)
                ELSE StraightRight(shape.a, shape.b, pixels)
          [] shape.kind = "rect" -> pixels = Border(shape.a, shape.b)
          [] shape.kind = "filled rect" -> pixels = (0 .. shape.a - 2) \X (0 .. shape.b - 1)
          [] shape.kind = "circle" -> CircleRight(shape.a, pixels)
          [] shape.kind = "filled circle" -> pixels = Disc(shape.a) \ {<<shape.a, 0>>, <<0, shape.a>>}
          [] shape.kind = "ellipse" -> EllipseRight(shape.a, shape.b, pixels)
=============================================================================
