----------------------------- MODULE BallProofs -----------------------------
(***************************************************************************)
(* For every set of obstacles and of keys, the two balls are never more    *)
(* than a step out of opposition, and an obstacle just hit has the colour  *)
(* of the ball that hit it alone.                                          *)
(*                                                                         *)
(* The first rests on one fact about hits: while a Collision line is high, *)
(* both balls stand at their starts and only that line is high.  A step    *)
(* then moves the free ball by one at most; at any other time it moves     *)
(* both balls by the same amount.                                          *)
(*                                                                         *)
(* The balls also stay on their circle.  Every entry of the sine tables    *)
(* is as far from the centre as the radius, the empty one excepted; the    *)
(* red ball moves by the empty one only while its table lacks the entry    *)
(* below it, and the same step loads that entry.                           *)
(***************************************************************************)
EXTENDS Ball, WellFoundedInduction, TLAPS

Indices == /\ index \in [BallId -> 1 .. 60]
           /\ Collision \in [BallId -> BOOLEAN]

AtStarts == index[0] = 31 /\ index[1] = 1

HeldAtStart == \A b \in BallId : Collision[b] => AtStarts /\ ~Collision[Other(b)]

Opposed == Indices /\ HeldAtStart /\ NearlyOpposite

-----------------------------------------------------------------------------
\* The two balls and their starts, spelled out for the provers.
LEMMA Balls == /\ BallId = {0, 1} /\ Other(0) = 1 /\ Other(1) = 0
               /\ AtStart(0).index = 31 /\ AtStart(1).index = 1
BY DEF BallId, Other, AtStart, Moved, StartIndex

\* The index a ball has after a frame edge depends on the one before, the key and
\* the other ball's Collision line only.
LEMMA IndexAfterFrame ==
  ASSUME NEW b \in BallId
  PROVE  AfterFrame(b).index =
           IF Collision[Other(b)] THEN StartIndex(b)
           ELSE IF keycode = Right THEN IF index[b] = 60 THEN 1 ELSE index[b] + 1
           ELSE IF keycode = Left THEN IF index[b] = 1 THEN 60 ELSE index[b] - 1
           ELSE index[b]
<1>1. GoRight(b).index = IF index[b] = 60 THEN 1 ELSE index[b] + 1
  BY DEF GoRight, StepTo, Moved
<1>2. GoLeft(b).index = IF index[b] = 1 THEN 60 ELSE index[b] - 1
  BY DEF GoLeft, StepTo, Moved
<1>3. Stay(b).index = index[b] /\ AtStart(b).index = StartIndex(b)
  BY DEF Stay, AtStart, Moved
<1>4. Right # Left
  BY DEF Right, Left
<1>5. CASE Collision[Other(b)]
  BY <1>3, <1>5 DEF AfterFrame
<1>6. CASE ~Collision[Other(b)] /\ keycode = Right
  BY <1>1, <1>4, <1>6 DEF AfterFrame
<1>7. CASE ~Collision[Other(b)] /\ keycode = Left
  BY <1>2, <1>4, <1>7 DEF AfterFrame
<1>8. CASE ~Collision[Other(b)] /\ keycode # Right /\ keycode # Left
  BY <1>3, <1>8 DEF AfterFrame
<1> QED  BY <1>5, <1>6, <1>7, <1>8

\* A step that puts both balls at their starts and raises one line at most.
LEMMA BothAtStart ==
  ASSUME Place([c \in BallId |-> AtStart(c)]),
         Collision' \in {OnlyHit(0), OnlyHit(1), NoHit}
  PROVE  Opposed'
<1>1. index' = [c \in BallId |-> AtStart(c).index]
  BY DEF Place
<1>2. AtStarts' /\ index' \in [BallId -> 1 .. 60]
  BY <1>1, Balls DEF AtStarts
<1>3. Collision' \in [BallId -> BOOLEAN] /\ \A b \in BallId : Collision'[b] => ~Collision'[Other(b)]
  <2>1. CASE Collision' = NoHit
    BY <2>1 DEF NoHit
  <2>2. ASSUME NEW c \in BallId, Collision' = OnlyHit(c)
        PROVE  /\ Collision' \in [BallId -> BOOLEAN]
               /\ \A b \in BallId : Collision'[b] => ~Collision'[Other(b)]
    <3>1. Collision' = [b \in BallId |-> b = c]
      BY <2>2 DEF OnlyHit
    <3>2. \A b \in BallId : Other(b) \in BallId /\ Other(b) # b
      BY Balls
    <3>3. Collision' \in [BallId -> BOOLEAN]
      BY <3>1
    <3>4. ASSUME NEW b \in BallId, Collision'[b] PROVE ~Collision'[Other(b)]
      <4>1. b = c
        BY <3>1, <3>4
      <4> QED  BY <3>1, <3>2, <4>1
    <3> QED  BY <3>3, <3>4
  <2> QED  BY <2>1, <2>2, Balls
<1>4. NearlyOpposite'
  BY <1>2 DEF AtStarts, NearlyOpposite, Apart
<1> QED  BY <1>2, <1>3, <1>4 DEF Opposed, Indices, HeldAtStart

\* A frame edge without contact.
LEMMA FrameOpposed == ASSUME Opposed, Frame PROVE Opposed'
<1> USE DEF Opposed, Indices
<1>1. \A b \in BallId : index'[b] = AfterFrame(b).index
  BY DEF Frame, Place
<1>2. index' \in [BallId -> 1 .. 60]
  <2>1. index' = [b \in BallId |-> AfterFrame(b).index]
    BY DEF Frame, Place
  <2>2. \A b \in BallId : AfterFrame(b).index \in 1 .. 60
    BY IndexAfterFrame, Balls DEF StartIndex
  <2> QED  BY <2>1, <2>2
<1>3. Collision' \in [BallId -> BOOLEAN] /\ HeldAtStart'
  BY DEF Frame, NoHit, HeldAtStart
<1>4. NearlyOpposite'
  <2> DEFINE Next1(i) == IF keycode = Right THEN IF i = 60 THEN 1 ELSE i + 1
                         ELSE IF keycode = Left THEN IF i = 1 THEN 60 ELSE i - 1
                         ELSE i
  <2>1. index[0] \in 1 .. 60 /\ index[1] \in 1 .. 60
    BY Balls
  <2>2. /\ index'[0] = IF Collision[1] THEN 31 ELSE Next1(index[0])
        /\ index'[1] = IF Collision[0] THEN 1 ELSE Next1(index[1])
    BY <1>1, IndexAfterFrame, Balls DEF StartIndex
  <2>3. CASE Collision[0]
    <3>1. index[0] = 31 /\ index[1] = 1 /\ ~Collision[1]
      BY <2>3, Balls DEF HeldAtStart, AtStarts
    <3> QED  BY <2>2, <2>3, <3>1 DEF NearlyOpposite, Apart
  <2>4. CASE Collision[1]
    <3>1. index[0] = 31 /\ index[1] = 1 /\ ~Collision[0]
      BY <2>4, Balls DEF HeldAtStart, AtStarts
    <3> QED  BY <2>2, <2>4, <3>1 DEF NearlyOpposite, Apart
  <2>5. CASE ~Collision[0] /\ ~Collision[1]
    <3>1. index'[0] = Next1(index[0]) /\ index'[1] = Next1(index[1])
      BY <2>2, <2>5
    <3>2. (index[0] - index[1]) % 60 \in 29 .. 31
      BY DEF NearlyOpposite, Apart
    <3>3. (Next1(index[0]) - Next1(index[1])) % 60 = (index[0] - index[1]) % 60
      BY <2>1
    <3> HIDE DEF Next1
    <3> QED  BY <3>1, <3>2, <3>3 DEF NearlyOpposite, Apart
  <2> QED  BY <2>3, <2>4, <2>5, Balls
<1> QED  BY <1>2, <1>3, <1>4

\* Every step keeps the balls opposed.
LEMMA OpposedNext == Opposed /\ [Next]_vars => Opposed'
<1> SUFFICES ASSUME Opposed, [Next]_vars PROVE Opposed'
  OBVIOUS
<1>1. CASE Frame
  BY <1>1, FrameOpposed
<1>2. ASSUME NEW b \in BallId, NEW T \in SUBSET Obstacles, Hit(b, T) PROVE Opposed'
  <2>1. Collision' \in {OnlyHit(0), OnlyHit(1), NoHit}
    BY <1>2, Balls DEF Hit
  <2> QED  BY <1>2, <2>1, BothAtStart DEF Hit
<1>3. ASSUME NEW T \in [BallId -> SUBSET Obstacles], DoubleHit(T) PROVE Opposed'
  BY <1>3, BothAtStart DEF DoubleHit
<1>4. CASE ResetButton
  BY <1>4, BothAtStart DEF ResetButton
<1>5. CASE KeyChange
  BY <1>5 DEF KeyChange, Opposed, Indices, HeldAtStart, AtStarts, NearlyOpposite, Apart
<1>6. CASE UNCHANGED vars
  BY <1>6 DEF vars, Opposed, Indices, HeldAtStart, AtStarts, NearlyOpposite, Apart
<1> QED  BY <1>1, <1>2, <1>3, <1>4, <1>5, <1>6 DEF Next

\* Whatever keys and hits follow each other, the balls are at most one step out
\* of opposition on their circle (ball.sv:225-371).
THEOREM StaysOpposed == Spec => []NearlyOpposite
<1>1. Init => Opposed
  BY Balls DEF Init, Opposed, Indices, HeldAtStart, AtStarts, NoHit, NearlyOpposite,
               Apart, StartIndex
<1>2. Opposed => NearlyOpposite
  BY DEF Opposed
<1> QED  BY <1>1, <1>2, OpposedNext, PTL DEF Spec

-----------------------------------------------------------------------------
(* Paint.                                                                  *)

\* The obstacle a ball remembers is one of those it touched: obstacle numbers are
\* bounded, so a set of them that is not empty has a largest one.
LEMMA LastTouched ==
  ASSUME NEW T \in SUBSET Obstacles, T # {}
  PROVE  Max(T) \in T /\ Max(T) \in 0 .. 29
<1> DEFINE U == {29 - x : x \in T}
<1>1. T \subseteq 0 .. 29
  BY ObstaclesAssumption
<1>2. U \subseteq Nat /\ U # {}
  <2>1. \A x \in T : 29 - x \in Nat
    BY <1>1
  <2>2. PICK x \in T : TRUE
    OBVIOUS
  <2>3. 29 - x \in U
    OBVIOUS
  <2> QED  BY <2>1, <2>3
<1>3. PICK u \in U : \A v \in U : ~(<<v, u>> \in OpToRel(<, Nat))
  <2> HIDE DEF U
  <2> QED  BY <1>2, NatLessThanWellFounded, WFMin
<1>4. \A v \in U : ~(v < u)
  BY <1>2, <1>3 DEF OpToRel
<1>5. 29 - u \in T
  BY <1>1
<1>6. \A y \in T : 29 - u >= y
  <2>1. ASSUME NEW y \in T PROVE 29 - u >= y
    <3>1. 29 - y \in U
      OBVIOUS
    <3>2. ~(29 - y < u) /\ y \in Int /\ u \in Nat
      BY <1>1, <1>2, <1>4, <3>1
    <3> HIDE DEF U
    <3> QED  BY <3>2
  <2> QED  BY <2>1
<1>7. Max(T) \in T
  BY <1>5, <1>6 DEF Max
<1> QED  BY <1>1, <1>7

Painted == /\ paint \in [BallId -> SUBSET Obstacles] /\ block_hit \in [BallId -> 0 .. 29]
           /\ Collision \in [BallId -> BOOLEAN]
           /\ OneColour

\* What HitIsPainted says of a step and a ball.
Paints(b) == Collision'[b] /\ (Collision[b] => ThisColour(b)) => ThisColour(b)' \/ Near \/ Retaken(b)

\* One ball is hit.
LEMMA HitPaints ==
  ASSUME Painted, NEW b \in BallId, NEW T \in SUBSET Obstacles, Hit(b, T)
  PROVE  Painted' /\ \A c \in BallId : Paints(c)
<1>1. PICK glitch \in SUBSET ({block_hit[b]} \cap paint[Other(b)]) :
        paint' = [paint EXCEPT ![b] = @ \cup T, ![Other(b)] = @ \ ({Max(T)} \cup glitch)]
  BY DEF Hit
<1>2. Other(b) \in BallId /\ Other(b) # b /\ \A c \in BallId : c = b \/ c = Other(b)
  BY Balls
<1>3. Max(T) \in T /\ Max(T) \in 0 .. 29
  BY LastTouched DEF Hit
<1>4. /\ paint'[b] = paint[b] \cup T
      /\ paint'[Other(b)] = paint[Other(b)] \ ({Max(T)} \cup glitch)
      /\ paint' \in [BallId -> SUBSET Obstacles]
  BY <1>1, <1>2 DEF Painted
<1>5. block_hit'[b] = Max(T) /\ block_hit' \in [BallId -> 0 .. 29]
  BY <1>3 DEF Hit, Painted
<1>6. Collision' = [c \in BallId |-> c = b]
  BY DEF Hit, OnlyHit
<1>7. ASSUME NEW c \in BallId, Collision'[c] PROVE ThisColour(c)' /\ ThisOnly(c)'
  <2>1. c = b
    BY <1>6, <1>7
  <2> QED  BY <2>1, <1>3, <1>4, <1>5 DEF ThisColour, ThisOnly
<1>8. Painted'
  BY <1>4, <1>5, <1>6, <1>7 DEF Painted, OneColour
<1> QED  BY <1>7, <1>8 DEF Paints

\* Both balls are hit.
LEMMA DoubleHitPaints ==
  ASSUME Painted, NEW T \in [BallId -> SUBSET Obstacles], DoubleHit(T)
  PROVE  Painted' /\ \A b \in BallId : Paints(b)
<1>1. PICK lost \in [BallId -> SUBSET Obstacles] :
        /\ \A b \in BallId : lost[b] \subseteq {block_hit[Other(b)], block_hit'[Other(b)]}
                                                 \cap (paint[b] \cup T[b])
        /\ paint' = [b \in BallId |-> (paint[b] \cup T[b]) \ lost[b]]
  BY DEF DoubleHit
<1>2. \A b \in BallId : Max(T[b]) \in T[b] /\ Max(T[b]) \in 0 .. 29
  BY LastTouched DEF DoubleHit
<1>3. \A b \in BallId : /\ Other(b) \in BallId /\ Other(Other(b)) = b
                        /\ Near \/ T[b] \cap T[Other(b)] = {}
  BY Balls DEF DoubleHit, Contact
<1>4. block_hit' = [b \in BallId |-> Max(T[b])]
  BY DEF DoubleHit
<1>5. block_hit' \in [BallId -> 0 .. 29] /\ paint' \in [BallId -> SUBSET Obstacles]
  BY <1>1, <1>2, <1>4 DEF Painted
<1>6. Collision' \in [BallId -> BOOLEAN]
  BY DEF DoubleHit, OnlyHit, NoHit
<1>7. ASSUME NEW b \in BallId, Collision'[b]
      PROVE  ThisOnly(b)' /\ (ThisColour(b)' \/ Near \/ Retaken(b))
  <2>1. block_hit'[b] = Max(T[b])
    BY <1>4
  <2>2. ThisOnly(b)'
    BY <1>7 DEF DoubleHit, ThisOnly
  <2>3. ASSUME T[b] \cap T[Other(b)] = {}, ~Retaken(b) PROVE ThisColour(b)'
    <3>1. Max(T[b]) # Max(T[Other(b)]) /\ Max(T[b]) # block_hit[Other(b)]
      BY <1>2, <1>3, <2>1, <2>3 DEF Retaken
    <3>2. block_hit'[Other(b)] = Max(T[Other(b)])
      BY <1>3, <1>4
    <3>3. Max(T[b]) \in paint'[b]
      BY <1>1, <1>2, <3>1, <3>2
    <3> QED  BY <2>1, <3>3 DEF ThisColour
  <2> QED  BY <1>3, <2>2, <2>3
<1>8. Painted'
  BY <1>5, <1>6, <1>7 DEF Painted, OneColour
<1> QED  BY <1>7, <1>8 DEF Paints

\* Without a hit nothing is painted and every line that is high stays or drops.
LEMMA PaintedNext == Painted /\ [Next]_vars => Painted' /\ \A b \in BallId : Paints(b)
<1> SUFFICES ASSUME Painted, [Next]_vars PROVE Painted' /\ \A b \in BallId : Paints(b)
  OBVIOUS
<1>1. CASE Frame
  BY <1>1 DEF Frame, Painted, OneColour, NoHit, Paints
<1>2. ASSUME NEW b \in BallId, NEW T \in SUBSET Obstacles, Hit(b, T)
      PROVE  Painted' /\ \A c \in BallId : Paints(c)
  BY <1>2, HitPaints
<1>3. ASSUME NEW T \in [BallId -> SUBSET Obstacles], DoubleHit(T)
      PROVE  Painted' /\ \A b \in BallId : Paints(b)
  BY <1>3, DoubleHitPaints
<1>4. CASE ResetButton
  BY <1>4 DEF ResetButton, Painted, OneColour, NoHit, Paints
<1>5. CASE KeyChange \/ UNCHANGED vars
  BY <1>5 DEF KeyChange, vars, Painted, OneColour, ThisOnly, ThisColour, Paints
<1> QED  BY <1>1, <1>2, <1>3, <1>4, <1>5 DEF Next

\* However the two balls are hit, the obstacle that was hit has lost the colour of the
\* ball whose line is low (ball.sv:225-283).
THEOREM OtherColourGoes == Spec => []OneColour
<1>1. Init => Painted
  BY DEF Init, Painted, OneColour, NoHit
<1>2. Painted => OneColour
  BY DEF Painted
<1> QED  BY <1>1, <1>2, PaintedNext, PTL DEF Spec

\* And at every frame edge the ball whose line rises has painted what it hit (ball.sv:258-271)
\* and the other has given it up, unless one obstacle may have touched both or the other
\* ball hit that obstacle before.
THEOREM HitPaintsIt == Spec => HitIsPainted
<1>1. Init => Painted
  BY DEF Init, Painted, OneColour, NoHit
<1>2. Painted' /\ (\A b \in BallId : Paints(b)) =>
        [\A b \in BallId : Collision'[b] =>
                             /\ ThisOnly(b)'
                             /\ (Collision[b] => ThisColour(b)) => ThisColour(b)' \/ Near \/ Retaken(b)]_vars
  BY DEF Paints, Painted, OneColour
<1> QED  BY <1>1, <1>2, PaintedNext, PTL DEF Spec, HitIsPainted

-----------------------------------------------------------------------------
(* The circle.                                                             *)

\* Every entry of the tables lies in the first quarter of the circle.
LEMMA FoldIs == ASSUME NEW e \in 1 .. 61 PROVE Fold(e) \in 1 .. 16
<1>1. (e - 1) % 30 \in 0 .. 29
  OBVIOUS
<1> DEFINE h == (e - 1) % 30
<1> HIDE DEF h
<1>2. (IF h <= 15 THEN h + 1 ELSE 31 - h) \in 1 .. 16
  BY <1>1 DEF h
<1> QED  BY <1>2 DEF Fold, h

\* The distances of an entry are the sides of a triangle with the radius, but for what
\* the division cuts off.
Fits(x, y) == /\ x \in 0 .. 60 /\ y \in 0 .. 60
              /\ 58 * 58 <= x * x + y * y /\ x * x + y * y <= 61 * 61

LEMMA EntryFits == ASSUME NEW e \in 1 .. 61 PROVE Fits(DX(e), DY(e))
<1>1. \A k \in 1 .. 16 : Fits((CoQuarter[k] * Radius) \div 1000, (Quarter[k] * Radius) \div 1000)
  BY DEF Fits, Quarter, CoQuarter, Radius
<1>2. DX(e) = (CoQuarter[Fold(e)] * Radius) \div 1000 /\ DY(e) = (Quarter[Fold(e)] * Radius) \div 1000
  BY DEF DX, DY, Cosine, Sine
<1> QED  BY <1>1, <1>2, FoldIs

\* The empty entry is the centre.
LEMMA NoEntry == DX(0) = 0 /\ DY(0) = 0
BY DEF DX, DY, Cosine, Sine, Radius

\* A place that takes both its distances from the centre from one entry.
By(to, e) == /\ to.x \in {CenterX - DX(e), CenterX + DX(e)}
             /\ to.y \in {CenterY - DY(e), CenterY + DY(e)}

\* A place as far from the centre as the radius, in whole pixels.
On(x, y) == LET r2 == (x - CenterX) * (x - CenterX) + (y - CenterY) * (y - CenterY)
            IN  58 * 58 <= r2 /\ r2 <= 61 * 61

\* An entry other than the empty one leads to a place on the circle.
LEMMA ByIsOn ==
  ASSUME NEW to, NEW e \in 1 .. 61, By(to, e)
  PROVE  to.x \in 260 .. 380 /\ to.y \in 330 .. 450 /\ On(to.x, to.y)
<1> DEFINE x == DX(e)  y == DY(e)
<1>1. Fits(x, y)
  BY EntryFits
<1>2. /\ to.x \in {CenterX - x, CenterX + x} /\ to.y \in {CenterY - y, CenterY + y}
  BY DEF By
<1> HIDE DEF x, y
<1>3. to.x \in 260 .. 380 /\ to.y \in 330 .. 450
  BY <1>1, <1>2 DEF Fits, CenterX, CenterY
<1>4. (to.x - CenterX) * (to.x - CenterX) = x * x
  BY <1>1, <1>2 DEF Fits, CenterX
<1>5. (to.y - CenterY) * (to.y - CenterY) = y * y
  BY <1>1, <1>2 DEF Fits, CenterY
<1> QED  BY <1>1, <1>3, <1>4, <1>5 DEF Fits, On

\* Both balls start on it.
LEMMA StartOn == ASSUME NEW b \in BallId
                 PROVE  AtStart(b).x \in 260 .. 380 /\ AtStart(b).y \in 330 .. 450
                        /\ On(AtStart(b).x, AtStart(b).y)
BY DEF AtStart, Moved, StartX, StartY, CenterX, CenterY, On, BallId

-----------------------------------------------------------------------------
(* The tables.                                                             *)

\* Two of the registers of a table are loaded from the beginning; a ball off its circle
\* has them all.
Tabled == /\ Indices /\ keycode \in Keys
          /\ X \in [BallId -> 260 .. 380] /\ Y \in [BallId -> 330 .. 450]
          /\ table \in [BallId -> [here : 1 .. 60, up : 2 .. 61, down : 0 .. 59]]
          /\ \A b \in BallId : OnCircle(b) \/ TableLoaded(b)

\* A table is loaded as soon as its last register is.
LEMMA LoadedIs ==
  ASSUME Tabled, NEW b \in BallId PROVE TableLoaded(b) <=> table[b].down # 0
<1>1. table[b] \in [here : 1 .. 60, up : 2 .. 61, down : 0 .. 59]
  BY DEF Tabled
<1> QED  BY <1>1 DEF TableLoaded

\* A frame edge takes a ball to a place by an entry of the tables; by the empty one only
\* if it is the last that the ball has to load.
LEMMA FramePlace ==
  ASSUME Tabled, NEW b \in BallId
  PROVE  /\ AfterFrame(b).x \in 260 .. 380 /\ AfterFrame(b).y \in 330 .. 450
         /\ \/ On(AfterFrame(b).x, AfterFrame(b).y)
            \/ table[b].down = 0 /\ index[b] # 1
<1> DEFINE to == AfterFrame(b)
<1>1. /\ index[b] \in 1 .. 60 /\ table[b].here \in 1 .. 61 /\ table[b].up \in 1 .. 61
      /\ table[b].down \in 0 .. 59
  BY DEF Tabled, Indices
<1>2. ASSUME NEW j, NEW i, NEW e PROVE By(StepTo(j, i, e), e)
  BY DEF By, StepTo, Moved
<1>3. CASE Collision[Other(b)]
  <2>1. to = AtStart(b)
    BY <1>3 DEF AfterFrame
  <2> QED  BY <2>1, StartOn
<1>4. CASE ~Collision[Other(b)] /\ keycode = Right
  <2>1. to = GoRight(b)
    BY <1>4 DEF AfterFrame, Left, Right
  <2>2. By(to, 1) \/ By(to, table[b].up)
    BY <1>2, <2>1 DEF GoRight, By, Moved
  <2> HIDE DEF to
  <2>3. to.x \in 260 .. 380 /\ to.y \in 330 .. 450 /\ On(to.x, to.y)
    BY <1>1, <2>2, ByIsOn
  <2> QED  BY <2>3 DEF to
<1>5. CASE ~Collision[Other(b)] /\ keycode = Left
  <2>1. to = GoLeft(b)
    BY <1>5 DEF AfterFrame, Left, Right
  <2>2. By(to, 60) \/ (By(to, table[b].down) /\ index[b] # 1)
    BY <1>2, <2>1 DEF GoLeft, By, Moved
  <2> HIDE DEF to
  <2>3. CASE By(to, 60)
    <3>1. to.x \in 260 .. 380 /\ to.y \in 330 .. 450 /\ On(to.x, to.y)
      BY <2>3, ByIsOn
    <3> QED  BY <3>1 DEF to
  <2>4. CASE By(to, table[b].down) /\ table[b].down # 0
    <3>1. to.x \in 260 .. 380 /\ to.y \in 330 .. 450 /\ On(to.x, to.y)
      BY <1>1, <2>4, ByIsOn
    <3> QED  BY <3>1 DEF to
  <2>5. CASE By(to, table[b].down) /\ table[b].down = 0 /\ index[b] # 1
    <3>1. to.x = CenterX /\ to.y = CenterY
      BY <2>5, NoEntry DEF By, CenterX, CenterY
    <3> QED  BY <2>5, <3>1 DEF to, CenterX, CenterY
  <2> QED  BY <2>2, <2>3, <2>4, <2>5
<1>6. CASE ~Collision[Other(b)] /\ keycode # Right /\ keycode # Left
  <2>1. to = Stay(b)
    BY <1>6 DEF AfterFrame
  <2>2. By(to, table[b].here)
    BY <2>1 DEF Stay, By, Moved
  <2> HIDE DEF to
  <2>3. to.x \in 260 .. 380 /\ to.y \in 330 .. 450 /\ On(to.x, to.y)
    BY <1>1, <2>2, ByIsOn
  <2> QED  BY <2>3 DEF to
<1> QED  BY <1>3, <1>4, <1>5, <1>6

\* The registers load the neighbours of the index.
LEMMA LoadTabled ==
  ASSUME Tabled, LoadTables
  PROVE  /\ table' \in [BallId -> [here : 1 .. 60, up : 2 .. 61, down : 0 .. 59]]
         /\ \A b \in BallId : table'[b].down = IF index[b] = 1 THEN table[b].down ELSE index[b] - 1
<1>1. table' = [b \in BallId |-> Loaded(table[b], index[b])]
  BY DEF LoadTables
<1>2. ASSUME NEW b \in BallId
      PROVE  /\ Loaded(table[b], index[b]) \in [here : 1 .. 60, up : 2 .. 61, down : 0 .. 59]
             /\ Loaded(table[b], index[b]).down
                  = IF index[b] = 1 THEN table[b].down ELSE index[b] - 1
  <2>1. index[b] \in 1 .. 60 /\ table[b].down \in 0 .. 59
    BY DEF Tabled, Indices
  <2>2. (IF index[b] = 1 THEN table[b].down ELSE index[b] - 1) \in 0 .. 59
    BY <2>1
  <2> QED  BY <2>1, <2>2 DEF Loaded
<1> QED  BY <1>1, <1>2

\* What LeavesCircleOnce says of a step and a ball.
Leaves(b) == /\ TableLoaded(b) => TableLoaded(b)'
             /\ \/ UNCHANGED <<index, X, Y>> \/ OnCircle(b)'
                \/ ~TableLoaded(b) /\ TableLoaded(b)'

\* The table of a ball after a step in which the registers load or stay.
LEMMA TableStep ==
  ASSUME Tabled, LoadTables \/ table' = table
  PROVE  /\ table' \in [BallId -> [here : 1 .. 60, up : 2 .. 61, down : 0 .. 59]]
         /\ \A b \in BallId : /\ TableLoaded(b)' <=> table'[b].down # 0
                              /\ TableLoaded(b) => TableLoaded(b)'
                              /\ LoadTables /\ index[b] # 1 => TableLoaded(b)'
<1>1. table' \in [BallId -> [here : 1 .. 60, up : 2 .. 61, down : 0 .. 59]]
  BY LoadTabled DEF Tabled
<1>2. ASSUME NEW b \in BallId
      PROVE  /\ TableLoaded(b)' <=> table'[b].down # 0
             /\ TableLoaded(b) => TableLoaded(b)'
             /\ LoadTables /\ index[b] # 1 => TableLoaded(b)'
  <2>1. table'[b] \in [here : 1 .. 60, up : 2 .. 61, down : 0 .. 59]
    BY <1>1
  <2>4. TableLoaded(b)' <=> table'[b].down # 0
    BY <2>1 DEF TableLoaded
  <2>5. index[b] \in 1 .. 60 /\ (index[b] # 1 => index[b] - 1 # 0)
    BY DEF Tabled, Indices
  <2>6. table'[b].down = table[b].down \/ (index[b] # 1 /\ table'[b].down = index[b] - 1)
    BY LoadTabled
  <2>7. LoadTables => table'[b].down = IF index[b] = 1 THEN table[b].down ELSE index[b] - 1
    BY LoadTabled
  <2> QED  BY <2>4, <2>5, <2>6, <2>7, LoadedIs
<1> QED  BY <1>1, <1>2

\* A frame edge without contact.
LEMMA FrameTabled ==
  ASSUME Tabled, Indices', Frame
  PROVE  Tabled' /\ \A b \in BallId : Leaves(b)
<1>1. /\ X' = [b \in BallId |-> AfterFrame(b).x] /\ Y' = [b \in BallId |-> AfterFrame(b).y]
      /\ LoadTables /\ keycode' = keycode
  BY DEF Frame, Place
<1>2. \A b \in BallId : /\ X'[b] \in 260 .. 380 /\ Y'[b] \in 330 .. 450
                        /\ On(X'[b], Y'[b]) \/ (table[b].down = 0 /\ index[b] # 1)
  BY <1>1, FramePlace
<1>3. X' \in [BallId -> 260 .. 380] /\ Y' \in [BallId -> 330 .. 450]
  <2>1. \A b \in BallId : AfterFrame(b).x \in 260 .. 380 /\ AfterFrame(b).y \in 330 .. 450
    BY FramePlace
  <2> QED  BY <1>1, <2>1
<1>4. \A b \in BallId : OnCircle(b)' <=> On(X'[b], Y'[b])
  BY DEF OnCircle, On
<1>5. \A b \in BallId : OnCircle(b)' \/ (~TableLoaded(b) /\ TableLoaded(b)')
  BY <1>1, <1>2, <1>4, TableStep, LoadedIs
<1>6. Tabled'
  BY <1>1, <1>3, <1>5, TableStep DEF Tabled
<1>7. ASSUME NEW b \in BallId PROVE Leaves(b)
  BY <1>1, <1>5, TableStep DEF Leaves, Tabled
<1> QED  BY <1>6, <1>7

\* A hit or the Reset button.
LEMMA StartTabled ==
  ASSUME Tabled, Indices', Place([c \in BallId |-> AtStart(c)]),
         LoadTables \/ table' = table, keycode' = keycode
  PROVE  Tabled' /\ \A b \in BallId : Leaves(b)
<1>1. X' = [b \in BallId |-> AtStart(b).x] /\ Y' = [b \in BallId |-> AtStart(b).y]
  BY DEF Place
<1>2. X' \in [BallId -> 260 .. 380] /\ Y' \in [BallId -> 330 .. 450]
  <2>1. \A b \in BallId : AtStart(b).x \in 260 .. 380 /\ AtStart(b).y \in 330 .. 450
    BY StartOn
  <2> QED  BY <1>1, <2>1
<1>3. \A b \in BallId : OnCircle(b)'
  <2>1. \A b \in BallId : On(X'[b], Y'[b])
    BY <1>1, StartOn
  <2> QED  BY <2>1 DEF OnCircle, On
<1>4. Tabled'
  BY <1>2, <1>3, TableStep DEF Tabled
<1>5. ASSUME NEW b \in BallId PROVE Leaves(b)
  BY <1>3, TableStep DEF Leaves
<1> QED  BY <1>4, <1>5

\* Every step keeps the tables so, and leaves the circle only as a first load does.
LEMMA TabledNext ==
  ASSUME Tabled, Indices', [Next]_vars
  PROVE  Tabled' /\ \A b \in BallId : Leaves(b)
<1>1. CASE Frame
  BY <1>1, FrameTabled
<1>2. CASE (\E b \in BallId, T \in SUBSET Obstacles : Hit(b, T))
           \/ (\E T \in [BallId -> SUBSET Obstacles] : DoubleHit(T))
  BY <1>2, StartTabled DEF Hit, DoubleHit
<1>3. CASE ResetButton
  BY <1>3, StartTabled DEF ResetButton
<1>4. CASE KeyChange \/ UNCHANGED vars
  <2>1. UNCHANGED <<index, X, Y, table>> /\ keycode' \in Keys
    BY <1>4 DEF KeyChange, vars, Tabled
  <2>2. \A b \in BallId : OnCircle(b)' = OnCircle(b) /\ TableLoaded(b)' = TableLoaded(b)
    BY <2>1 DEF OnCircle, TableLoaded
  <2> QED  BY <2>1, <2>2 DEF Tabled, Leaves
<1> QED  BY <1>1, <1>2, <1>3, <1>4 DEF Next

\* Everything a ball keeps.
Held == Opposed /\ Painted /\ Tabled

\* It holds at power-up,
LEMMA HeldInit == Init => Held
<1> SUFFICES ASSUME Init PROVE Held
  OBVIOUS
<1>1. Opposed
  BY Balls DEF Init, Opposed, Indices, HeldAtStart, AtStarts, NoHit, NearlyOpposite,
               Apart, StartIndex
<1>2. Painted
  BY DEF Init, Painted, OneColour, NoHit
<1>3. /\ X \in [BallId -> 260 .. 380] /\ Y \in [BallId -> 330 .. 450] /\ keycode \in Keys
      /\ \A b \in BallId : OnCircle(b)
  BY KeysAssumption DEF Init, StartX, StartY, CenterX, CenterY, OnCircle, BallId
<1>4. table \in [BallId -> [here : 1 .. 60, up : 2 .. 61, down : 0 .. 59]]
  BY DEF Init, Loaded, StartIndex, BallId
<1> QED  BY <1>1, <1>2, <1>3, <1>4 DEF Held, Tabled, Opposed

\* and every step keeps it.
LEMMA HeldNext == Held /\ [Next]_vars => Held' /\ \A b \in BallId : Leaves(b)
BY OpposedNext, PaintedNext, TabledNext DEF Held, Opposed

\* The indices stay on the circle, the positions on the screen and the paint within the
\* obstacles (ball.sv).
THEOREM TypeCorrect == Spec => []TypeOK
<1>1. Held => TypeOK
  <2> SUFFICES ASSUME Held PROVE TypeOK
    OBVIOUS
  <2>1. table \in [BallId -> [here : 0 .. 60, up : 0 .. 61, down : 0 .. 59]]
    <3>1. [here : 1 .. 60, up : 2 .. 61, down : 0 .. 59]
            \subseteq [here : 0 .. 60, up : 0 .. 61, down : 0 .. 59]
      OBVIOUS
    <3> QED  BY <3>1 DEF Held, Tabled
  <2>2. X \in [BallId -> 0 .. 639] /\ Y \in [BallId -> 0 .. 479]
    BY DEF Held, Tabled
  <2> QED  BY <2>1, <2>2 DEF Held, Opposed, Indices, Painted, Tabled, TypeOK
<1> QED  BY <1>1, HeldInit, HeldNext, PTL DEF Spec

\* Keys, hits, resets and lagging tables (ball.sv:293-371) take a ball off its circle at
\* most once since power-up, for one frame.
THEOREM LeavesOnce == Spec => LeavesCircleOnce
<1>1. (\A b \in BallId : Leaves(b)) =>
        [\A b \in BallId :
           /\ TableLoaded(b) => TableLoaded(b)'
           /\ \/ UNCHANGED <<index, X, Y>> \/ OnCircle(b)'
              \/ ~TableLoaded(b) /\ TableLoaded(b)']_vars
  BY DEF Leaves
<1> QED  BY <1>1, HeldInit, HeldNext, PTL DEF Spec, LeavesCircleOnce

-----------------------------------------------------------------------------
(* What the balls touch.                                                   *)

\* A ball that touches a box is no further from it than its size.
LEMMA TouchesIs ==
  ASSUME Tabled, NEW b \in BallId, NEW o \in Box, Touches(b, o)
  PROVE  /\ X[b] \in o.x - BallSize .. o.x + o.w + BallSize
         /\ Y[b] \in o.y - BallSize .. o.y + o.h + BallSize
<1>1. X[b] \in Int /\ Y[b] \in Int
  BY DEF Tabled
<1>2. o.x \in Int /\ o.y \in Int /\ o.w \in Int /\ o.h \in Int
  BY DEF Box
<1> QED  BY <1>1, <1>2 DEF Touches, BallSize

\* And a box that both touch brings them near each other.
LEMMA SharedIsNear ==
  ASSUME Tabled, NEW o \in Box, Touches(0, o), Touches(1, o)
  PROVE  Near
<1>1. /\ X[0] \in o.x - BallSize .. o.x + o.w + BallSize
      /\ Y[0] \in o.y - BallSize .. o.y + o.h + BallSize
  BY TouchesIs DEF BallId
<1>2. /\ X[1] \in o.x - BallSize .. o.x + o.w + BallSize
      /\ Y[1] \in o.y - BallSize .. o.y + o.h + BallSize
  BY TouchesIs DEF BallId
<1>3. o.x \in Int /\ o.y \in Int /\ o.w \in 20 .. 80 /\ o.h \in 10 .. 20
  BY DEF Box
<1>4. X[0] \in Int /\ X[1] \in Int /\ Y[0] \in Int /\ Y[1] \in Int
  BY DEF Tabled, BallId
<1>5. /\ X[0] >= o.x - 4 /\ X[0] <= o.x + o.w + 4 /\ X[1] >= o.x - 4 /\ X[1] <= o.x + o.w + 4
      /\ Y[0] >= o.y - 4 /\ Y[0] <= o.y + o.h + 4 /\ Y[1] >= o.y - 4 /\ Y[1] <= o.y + o.h + 4
      /\ o.w <= 80 /\ o.h <= 20 /\ o.w \in Int /\ o.h \in Int
  BY <1>1, <1>2, <1>3 DEF BallSize
<1>6. /\ X[0] - X[1] >= -88 /\ X[0] - X[1] <= 88
  BY <1>3, <1>4, <1>5
<1>7. /\ Y[0] - Y[1] >= -28 /\ Y[0] - Y[1] <= 28
  BY <1>3, <1>4, <1>5
<1> QED  BY <1>4, <1>6, <1>7 DEF Near, BallSize

\* Every contact that the formulas of ball.sv:101-223 can find, wherever the obstacles
\* are, is one of the inputs of the model.
THEOREM NoContactMissed == Spec => []ContactFits
<1>1. Held => ContactFits
  <2> SUFFICES ASSUME Held, NEW box \in [Obstacles -> Box]
               PROVE  Contact([b \in BallId |-> Touched(b, box)])
    BY DEF ContactFits
  <2> DEFINE T == [b \in BallId |-> Touched(b, box)]
  <2>1. T[0] = Touched(0, box) /\ T[1] = Touched(1, box)
    BY DEF BallId
  <2> HIDE DEF T
  <2>2. ASSUME T[0] \cap T[1] # {} PROVE Near
    <3>1. PICK i \in Obstacles : Touches(0, box[i]) /\ Touches(1, box[i])
      BY <2>1, <2>2 DEF Touched
    <3> QED  BY <3>1, SharedIsNear DEF Held
  <2>3. ASSUME Together PROVE T[0] = T[1]
    <3>1. \A o : Touches(0, o) <=> Touches(1, o)
      BY <2>3 DEF Together, Touches
    <3> QED  BY <2>1, <3>1 DEF Touched
  <2>4. Contact(T)
    BY <2>2, <2>3 DEF Contact
  <2> QED  BY <2>4 DEF T
<1> QED  BY <1>1, HeldInit, HeldNext, PTL DEF Spec

\* The circle bounds the heights at which an obstacle can hit a ball (ball.sv:101-223):
\* 306 and 454 are HitTop and HitBottom of module Duet.
THEOREM HitsWithinReach == Spec => []WithinReach
<1>1. Held => WithinReach
  <2> SUFFICES ASSUME Held, NEW b \in BallId, NEW o \in Box, Touches(b, o)
               PROVE  o.y \in 306 .. 454
    BY DEF WithinReach
  <2>1. Y[b] \in o.y - BallSize .. o.y + o.h + BallSize
    BY TouchesIs DEF Held
  <2>2. Y[b] \in 330 .. 450 /\ o.y \in Int /\ o.h \in 10 .. 20
    BY DEF Held, Tabled, Box
  <2> QED  BY <2>1, <2>2 DEF BallSize
<1> QED  BY <1>1, HeldInit, HeldNext, PTL DEF Spec

=============================================================================
