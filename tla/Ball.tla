-------------------------------- MODULE Ball --------------------------------
(***************************************************************************)
(* The two balls, src/ball.sv, instantiated twice (FinalProject.sv:169-170)*)
(* with the sine and cosine tables of src/Sin_Cos.sv.  Ball 0 is blue and  *)
(* starts on the left, ball 1 is red and starts on the right.              *)
(*                                                                         *)
(* A ball keeps its index on the circle (next_index, sixty steps), its     *)
(* position, its Collision line, the obstacles it has painted and the one  *)
(* it hit last.  The tables answer one frame late: their output registers  *)
(* take, at each frame edge, the values of the index before that edge.     *)
(* They have no reset and power up at zero, written 0 here; an address     *)
(* without an entry leaves them as they are.                               *)
(*                                                                         *)
(* Which obstacles a ball touches is an input, Contact what the overlap    *)
(* formulas demand of it.  Module Duet shows that no obstacle is on the    *)
(* screen while a Collision line is high, so no ball touches anything      *)
(* then.                                                                   *)
(*                                                                         *)
(*   Obstacles   the obstacle numbers used, of 0 .. 29 in the code         *)
(*   Keys        the key codes used; all but Left and Right do the same    *)
(***************************************************************************)
EXTENDS Integers, FiniteSets, FiniteSetsExt

CONSTANTS Obstacles, Keys

ASSUME ObstaclesAssumption == Obstacles \subseteq 0 .. 29
ASSUME KeysAssumption == Keys \subseteq 0 .. 255 /\ 0 \in Keys

VARIABLES index,      \* index[b] \in 1 .. 60, where the ball is on the circle
          X, Y,       \* Ball_X_Pos, Ball_Y_Pos
          table,      \* table[b], the entries in the three table registers
          Collision,  \* Collision[b], high for the frame after ball b was hit
          paint,      \* paint[b], the obstacles ball b has painted
          block_hit,  \* block_hit[b], the obstacle ball b hit last
          keycode

vars == <<index, X, Y, table, Collision, paint, block_hit, keycode>>

BallId   == {0, 1}
Other(b) == 1 - b

Left  == 4         \* key codes
Right == 7

CenterX == 320
CenterY == 390
Radius  == 60

StartIndex(b) == IF b = 1 THEN 1 ELSE 31
StartX(b)     == IF b = 1 THEN 380 ELSE 260
StartY        == CenterY

-----------------------------------------------------------------------------
(* The tables: absolute values, times 1000, every six degrees.  Entry 0 is *)
(* the power-up content of a register.                                     *)

Quarter == <<0, 105, 208, 310, 407, 500, 588, 670, 744, 810, 867, 914, 952, 979, 995, 1000>>
CoQuarter == <<1000, 995, 979, 952, 914, 867, 810, 744, 670, 588, 501, 407, 310, 208, 105, 1>>

\* The table is symmetric about each quarter of the circle.
Fold(i) == LET h == (i - 1) % 30 IN IF h <= 15 THEN h + 1 ELSE 31 - h

Sine(i)   == IF i = 0 THEN 0 ELSE Quarter[Fold(i)]
Cosine(i) == IF i = 0 THEN 0 ELSE CoQuarter[Fold(i)]

\* Distances from the centre, truncated as the integer division does.
DX(i) == (Cosine(i) * Radius) \div 1000
DY(i) == (Sine(i) * Radius) \div 1000

\* The registers after a frame edge at index i: addresses i, i + 1 and i - 1,
\* of which 0 has no entry.
Loaded(t, i) == [here |-> i, up |-> i + 1, down |-> IF i = 1 THEN t.down ELSE i - 1]

-----------------------------------------------------------------------------
(* Where a frame edge takes a ball that is neither hit nor held in reset   *)
(* (ball.sv:293-371): a record of its new index and position.              *)

Moved(i, x, y) == [index |-> i, x |-> x, y |-> y]

\* Faulty variant: the sine where the cosine belongs.
StepToBySine(j, i, e) ==
  Moved(j, IF i \in 16 .. 45 THEN CenterX - DY(e) ELSE CenterX + DY(e),
           IF i \in 1 .. 30 THEN CenterY + DY(e) ELSE CenterY - DY(e))

\* A step to index j from i, by the table entry e.
StepTo(j, i, e) ==
  Moved(j, IF i \in 16 .. 45 THEN CenterX - DX(e) ELSE CenterX + DX(e),
           IF i \in 1 .. 30 THEN CenterY + DY(e) ELSE CenterY - DY(e))

\* Faulty variant: the right key does not wrap.
GoRightOn(b) == StepTo(index[b] + 1, index[b], table[b].up)

\* The right key goes up the circle; over its end it uses entry 1.
GoRight(b) == IF index[b] = 60 THEN Moved(1, CenterX + DX(1), CenterY + DY(1))
              ELSE StepTo(index[b] + 1, index[b], table[b].up)

\* The left key goes down; over the beginning it uses entry 60.
GoLeft(b) == IF index[b] = 1 THEN Moved(60, CenterX + DX(60), CenterY + DY(60))
             ELSE StepTo(index[b] - 1, index[b], table[b].down)

\* Without a key the ball stays, on the side of the centre it is on.
Stay(b) == Moved(index[b],
                 IF X[b] <= CenterX THEN CenterX - DX(table[b].here)
                                    ELSE CenterX + DX(table[b].here),
                 IF Y[b] >= CenterY THEN CenterY + DY(table[b].here)
                                    ELSE CenterY - DY(table[b].here))

AtStart(b) == Moved(StartIndex(b), StartX(b), StartY)

\* A ball whose partner's Collision line is high is held in its reset.
AfterFrame(b) == CASE Collision[Other(b)] -> AtStart(b)
                   [] ~Collision[Other(b)] /\ keycode = Right -> GoRight(b)
                   [] ~Collision[Other(b)] /\ keycode = Left  -> GoLeft(b)
                   [] OTHER -> Stay(b)

Place(to) == /\ index' = [b \in BallId |-> to[b].index]
             /\ X' = [b \in BallId |-> to[b].x]
             /\ Y' = [b \in BallId |-> to[b].y]

LoadTables == table' = [b \in BallId |-> Loaded(table[b], index[b])]

-----------------------------------------------------------------------------
(* What a ball touches (ball.sv:99-223).                                   *)

BallSize == 4

\* The places and sizes of obstacles; the widest is 80, the highest 20 (FinalProject.sv:87-117).
Box == [x : 0 .. 639, y : 0 .. 482, w : 20 .. 80, h : 10 .. 20]

\* One of the four ends of the ball lies in the box.
Touches(b, o) ==
  \E d \in {-BallSize, BallSize} :
    \/ X[b] + d \in o.x .. o.x + o.w /\ Y[b] \in o.y .. o.y + o.h
    \/ X[b] \in o.x .. o.x + o.w /\ Y[b] + d \in o.y .. o.y + o.h

\* The obstacles that ball b touches, by their boxes.
Touched(b, box) == {i \in Obstacles : Touches(b, box[i])}

\* Close enough for one box to touch both balls.
Near == /\ X[0] - X[1] \in -(80 + 2 * BallSize) .. 80 + 2 * BallSize
        /\ Y[0] - Y[1] \in -(20 + 2 * BallSize) .. 20 + 2 * BallSize

Together == X[0] = X[1] /\ Y[0] = Y[1]

\* What is used of it: the obstacles T[b] that ball b touches at one frame edge.
Contact(T) == /\ Near \/ T[0] \cap T[1] = {}
              /\ Together => T[0] = T[1]

-----------------------------------------------------------------------------
NoHit == [b \in BallId |-> FALSE]
OnlyHit(b) == [c \in BallId |-> c = b]
AnyCollision == \E b \in BallId : Collision[b]

\* The Reset button has been pressed and a frame has passed, with no key down.
\* Red's third register has not been loaded since power-up.
Init == /\ index = [b \in BallId |-> StartIndex(b)]
        /\ X = [b \in BallId |-> StartX(b)]
        /\ Y = [b \in BallId |-> StartY]
        /\ table = [b \in BallId |->
                      Loaded([here |-> 0, up |-> 0, down |-> 0], StartIndex(b))]
        /\ Collision = NoHit
        /\ paint = [b \in BallId |-> {}]
        /\ block_hit = [b \in BallId |-> 0]
        /\ keycode = 0

\* A frame edge without contact.
Frame == /\ Place([b \in BallId |-> AfterFrame(b)])
         /\ LoadTables
         /\ Collision' = NoHit
         /\ UNCHANGED <<paint, block_hit, keycode>>

\* Faulty variant: the ball that is reset keeps all it has painted.
HitKeepPaint(b, T) ==
  /\ ~AnyCollision
  /\ T # {} /\ Contact([c \in BallId |-> IF c = b THEN T ELSE {}])
  /\ Place([c \in BallId |-> AtStart(c)])
  /\ LoadTables
  /\ Collision' = OnlyHit(b)
  /\ block_hit' = [block_hit EXCEPT ![b] = Max(T)]
  /\ paint' = [paint EXCEPT ![b] = @ \cup T]
  /\ UNCHANGED keycode

\* Faulty variant: only the ball that was hit goes back to its start.
HitResetsOne(b, T) ==
  /\ ~AnyCollision
  /\ T # {} /\ Contact([c \in BallId |-> IF c = b THEN T ELSE {}])
  /\ Place([c \in BallId |-> IF c = b THEN AtStart(c) ELSE AfterFrame(c)])
  /\ LoadTables
  /\ Collision' = OnlyHit(b)
  /\ block_hit' = [block_hit EXCEPT ![b] = Max(T)]
  /\ paint' = [paint EXCEPT ![b] = @ \cup T, ![Other(b)] = @ \ {Max(T)}]
  /\ UNCHANGED keycode

\* Ball b touches the obstacles T: it paints them all and remembers the last.
\* Its Collision line resets the other ball at once and makes it give up that
\* obstacle; block_hit changes together with the line, so the one it named
\* before may be given up as well.
Hit(b, T) ==
  /\ ~AnyCollision
  /\ T # {} /\ Contact([c \in BallId |-> IF c = b THEN T ELSE {}])
  /\ Place([c \in BallId |-> AtStart(c)])
  /\ LoadTables
  /\ Collision' = OnlyHit(b)
  /\ block_hit' = [block_hit EXCEPT ![b] = Max(T)]
  /\ \E glitch \in SUBSET ({block_hit[b]} \cap paint[Other(b)]) :
       paint' = [paint EXCEPT ![b] = @ \cup T,
                              ![Other(b)] = @ \ ({Max(T)} \cup glitch)]
  /\ UNCHANGED keycode

\* Both balls touch obstacles at one frame edge.  Both lines rise and reset the
\* other ball: one of them survives or none does.  A line that falls again may or
\* may not have made the other ball give up its obstacle, and either line may have
\* been seen while block_hit still named the obstacle before.
DoubleHit(T) ==
  /\ ~AnyCollision
  /\ \A b \in BallId : T[b] # {}
  /\ Contact(T)
  /\ Place([c \in BallId |-> AtStart(c)])
  /\ LoadTables
  /\ block_hit' = [b \in BallId |-> Max(T[b])]
  /\ \E lost \in [BallId -> SUBSET Obstacles] :
       /\ \A b \in BallId : lost[b] \subseteq {block_hit[Other(b)], block_hit'[Other(b)]}
                                                \cap (paint[b] \cup T[b])
       /\ paint' = [b \in BallId |-> (paint[b] \cup T[b]) \ lost[b]]
  /\ Collision' \in {OnlyHit(0), OnlyHit(1), NoHit}
  /\ \A b \in BallId : Collision'[b] => block_hit'[b] \notin paint'[Other(b)]
  /\ UNCHANGED keycode

\* The Reset button clears all but the tables and block_hit.
ResetButton == /\ Place([b \in BallId |-> AtStart(b)])
               /\ Collision' = NoHit
               /\ paint' = [b \in BallId |-> {}]
               /\ UNCHANGED <<table, block_hit, keycode>>

KeyChange == /\ keycode' \in Keys \ {keycode}
             /\ UNCHANGED <<index, X, Y, table, Collision, paint, block_hit>>

Next == \/ Frame
        \/ \E b \in BallId, T \in SUBSET Obstacles : Hit(b, T)
        \/ \E T \in [BallId -> SUBSET Obstacles] : DoubleHit(T)
        \/ ResetButton
        \/ KeyChange

Spec == Init /\ [][Next]_vars

-----------------------------------------------------------------------------
(* Properties.                                                             *)

TypeOK == /\ index \in [BallId -> 1 .. 60]
          /\ X \in [BallId -> 0 .. 639] /\ Y \in [BallId -> 0 .. 479]
          /\ table \in [BallId -> [here : 0 .. 60, up : 0 .. 61, down : 0 .. 59]]
          /\ Collision \in [BallId -> BOOLEAN]
          /\ paint \in [BallId -> SUBSET Obstacles]
          /\ block_hit \in [BallId -> 0 .. 29]
          /\ keycode \in Keys

\* The steps from the red index to the blue one, up the circle.
Apart == (index[0] - index[1]) % 60

\* A hit resets both balls, but the ball that was hit is free a frame before the
\* other one: a key held over the hit leaves them one step out of line.  They are
\* never further out, however many hits and keys follow each other.
NearlyOpposite == Apart \in 29 .. 31

\* No sequence of keys, hits, wraps and lagging table answers takes a ball off its
\* circle but one: the step that loads the last register of its table, which for red
\* is still empty when it first moves.  The next frame edge brings it back, and that
\* happens once since power-up, as a register that is loaded stays so.
OnCircle(b) == LET r2 == (X[b] - CenterX) * (X[b] - CenterX) + (Y[b] - CenterY) * (Y[b] - CenterY)
               IN  58 * 58 <= r2 /\ r2 <= 61 * 61
TableLoaded(b) == table[b].here # 0 /\ table[b].up # 0 /\ table[b].down # 0
LeavesCircleOnce == [][\A b \in BallId :
                         /\ TableLoaded(b) => TableLoaded(b)'
                         /\ \/ UNCHANGED <<index, X, Y>> \/ OnCircle(b)'
                            \/ ~TableLoaded(b) /\ TableLoaded(b)']_vars

\* The inputs leave out no contact, wherever the obstacles are.
ContactFits == \A box \in [Obstacles -> Box] : Contact([b \in BallId |-> Touched(b, box)])

\* No obstacle is touched above or below the heights that module Duet allows.
WithinReach == \A b \in BallId, o \in Box : Touches(b, o) => o.y \in 306 .. 454

\* The frame after a hit, the obstacle that was hit has the colour of the ball
\* that hit it and of that ball only, whatever the other ball did at that edge.
ThisColour(b) == block_hit[b] \in paint[b]
ThisOnly(b)   == block_hit[b] \notin paint[Other(b)]

\* The other colour goes in any case and does not come back while the line is high.  A
\* ball loses its own in two cases only: the other ball is so near that one obstacle may
\* touch both, or it hits the very obstacle that the other ball hit before.
Retaken(b)   == block_hit'[b] = block_hit[Other(b)]
OneColour    == \A b \in BallId : Collision[b] => ThisOnly(b)
HitIsPainted == [][\A b \in BallId :
                     Collision'[b] =>
                       /\ ThisOnly(b)'
                       /\ (Collision[b] => ThisColour(b)) => ThisColour(b)' \/ Near \/ Retaken(b)]_vars

\* Nothing would move at another frame edge.
AtRest == /\ keycode = 0 /\ ~AnyCollision
          /\ \A b \in BallId : /\ table[b].here = index[b]
                               /\ Stay(b) = Moved(index[b], X[b], Y[b])

\* "2 balls 180 degrees from each other" (ball.sv:18), asked only of balls at rest, and
\* no more than that they are in two places.
RestApart == AtRest => ~Together

=============================================================================
