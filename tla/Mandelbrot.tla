---------------------------- MODULE Mandelbrot ------------------------------
(***************************************************************************)
(* src/mandelbrot: a picture of Width x Height points, each painted by     *)
(* mandelbrot, or by newton, which the file offers instead.  Both repeat a *)
(* step until the point escapes (or converges) and return a shade of grey  *)
(* that tells after how many steps, or black.  The counter and the shade   *)
(* have eight bits.                                                        *)
(*                                                                         *)
(* The complex numbers are left out: a point may escape at any step.       *)
(***************************************************************************)
EXTENDS Naturals

CONSTANTS Width, Height     \* bound: 1024 x 1024 in the source

ConstantsOK == Width \in Nat \ {0} /\ Height \in Nat \ {0}

Painters == {"mandelbrot", "newton"}
Iterations(f) == IF f = "mandelbrot" THEN 200 ELSE 37
Contrast(f) == IF f = "mandelbrot" THEN 15 ELSE 7
Black == 0

VARIABLES
    painter,    \* the function that paints the points
    px, py,     \* the point that main is at
    step,       \* the counter of the painter's loop
    escaped,    \* whether the painter left the loop by its return
    color,      \* {what the painter returned}, or {} while it loops
    img         \* the points of the picture that are set

vars == <<painter, px, py, step, escaped, color, img>>

Byte(x) == x % 256
Points == (0..(Width - 1)) \X (0..(Height - 1))
Encoding == py = Height     \* png.Encode, after both loops

Init ==
    /\ painter = "none"
    /\ px = 0
    /\ py = 0
    /\ step = 0
    /\ escaped = FALSE
    /\ color = {}
    /\ img = {}

-----------------------------------------------------------------------------
(* mandelbrot and newton *)

Use(f) ==
    /\ painter = "none"
    /\ painter' = f
    /\ UNCHANGED <<px, py, step, escaped, color, img>>

\* Mistake: as many iterations as the counter has values.
MoreOfAll == step <= 255

More == step < Iterations(painter)

Painting == painter # "none" /\ color = {} /\ ~Encoding

\* Mistake: the contrast is a power of two, which the shades' width wraps.
ShadeWrapping(f, n) == Byte(256 + 255 - Byte((Contrast(f) + 1) * n))

\* Mistake: the shades begin at black.
ShadeFromBlack(f, n) == Byte(Contrast(f) * n)

\* color.Gray{255 - contrast*n} in uint8
Shade(f, n) == Byte(256 + 255 - Byte(Contrast(f) * n))

Step ==
    /\ Painting
    /\ More
    /\ step' = Byte(step + 1)
    /\ UNCHANGED <<painter, px, py, escaped, color, img>>

Escape ==
    /\ Painting
    /\ More
    /\ escaped' = TRUE
    /\ color' = {Shade(painter, step)}
    /\ UNCHANGED <<painter, px, py, step, img>>

Inside ==
    /\ Painting
    /\ ~More
    /\ color' = {Black}
    /\ UNCHANGED <<painter, px, py, step, escaped, img>>

-----------------------------------------------------------------------------
\* Mistake: a line ends one point early.
AfterShort == IF px + 2 >= Width THEN <<0, py + 1>> ELSE <<px + 1, py>>

\* The loops of main.
After == IF px + 1 = Width THEN <<0, py + 1>> ELSE <<px + 1, py>>

\* img.Set, and on to the next point.
Set ==
    /\ color # {}
    /\ img' = img \cup {<<px, py>>}
    /\ px' = After[1]
    /\ py' = After[2]
    /\ step' = 0
    /\ escaped' = FALSE
    /\ color' = {}
    /\ UNCHANGED painter

Next == (\E f \in Painters : Use(f)) \/ Step \/ Escape \/ Inside \/ Set
Fair == Next
Spec == Init /\ [][Next]_vars /\ WF_vars(Fair)

-----------------------------------------------------------------------------
TypeOK ==
    /\ painter \in Painters \cup {"none"}
    /\ step \in 0..255
    /\ escaped \in BOOLEAN
    /\ color = {} \/ \E shade \in 0..255 : color = {shade}
    /\ img \subseteq Points

\* Though the shades wrap around in eight bits, a shade tells the step at
\* which a point escaped: no other step has it.
ShadesTellSteps ==
    escaped => \A n \in 0..(Iterations(painter) - 1) :
                  {Shade(painter, n)} = color => n = step

\* A black point has not escaped, but for one step: mandelbrot paints the
\* points that escape at step 17 black, too.  newton has no such step.
BlackIsInside ==
    color = {Black} /\ escaped => painter = "mandelbrot" /\ step = 17

\* Every point of the picture is set when it is encoded.
PictureComplete == Encoding => img = Points

\* The picture is finished: the painters' loops come to an end in a counter
\* of eight bits.
PictureEnds == <>Encoding
=============================================================================
