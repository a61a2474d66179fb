----------------------------- MODULE RulesProofs -----------------------------
(***************************************************************************)
(* The running game implements the abstract rules of module LevelGame, for *)
(* every number of obstacles per level: each step of Duet is a step of     *)
(* LevelGame or a stutter under the refinement mapping of module Duet.     *)
(***************************************************************************)
EXTENDS DuetProofs

USE DEF RESET, LEVEL1, LEVEL2, FINAL, WIN, MID1TO2, MID2TOFINAL, BLOCK

\* Obstacles of later levels have not moved yet.
LaterAtTop == \A i \in Obstacle : Level(i) > levelNow => Y[i] = 0

MapInv == TypeOK /\ ObstacleInv /\ RaceInv /\ LaterAtTop

-----------------------------------------------------------------------------
(* The level a state belongs to.                                           *)

LEMMA LevelNowType ==
  ASSUME state \in States
  PROVE  levelNow \in 0 .. 4
  BY DEF levelNow, Level, States

LEMMA PlayedLevel ==
  ASSUME state \in States, Falling(state)
  PROVE  /\ levelNow = Level(Released(state)) /\ levelNow \in 1 .. 3
         /\ Released(state) \in Obstacle
  BY NAssumption DEF levelNow, Level, Released, Falling, Obstacle, States

\* The obstacles of a level are numbered from Before(l) + 1 to Before(l) + N.
LEMMA Numbering ==
  ASSUME NEW l \in 1 .. 3
  PROVE  /\ \A n \in 1 .. N : Before(l) + n \in Obstacle /\ Level(Before(l) + n) = l
         /\ \A i \in Obstacle : Level(i) = l => i - Before(l) \in 1 .. N
         /\ Before(l) \in Nat
  BY NAssumption DEF Before, Level, Obstacle

\* A hit leads to a state of the same level.
LEMMA LoadKeepsLevel ==
  ASSUME TypeOK, Falling(state), Done => ~Closing(state), LoadOnHit
  PROVE  levelNow' = levelNow
<1>1. \/ state' = state
      \/ Done /\ state' = Following(state)
      \/ state' = LevelStart(Level(Released(state)))
  BY DEF LoadOnHit, SMCollide, NextState
<1>2. CASE state' = state
  BY <1>2 DEF levelNow
<1>3. CASE Done /\ state' = Following(state)
  <2>1. state' = state + 1 /\ ~Closing(state)
    BY <1>3 DEF Following, Falling, TypeOK, States
  <2> QED
    BY <2>1, NAssumption DEF levelNow, Falling, Closing, Released, Level, TypeOK, States
<1>4. CASE state' = LevelStart(Level(Released(state)))
  BY <1>4, NAssumption DEF levelNow, LevelStart, Level, Released, Falling, TypeOK, States
<1> QED
  BY <1>1, <1>2, <1>3, <1>4

\* Without a hit the level changes in five ways only.
LEMMA FollowingLevel ==
  ASSUME state \in States, state' = Following(state)
  PROVE  \/ ~Closing(state) /\ state \notin {RESET, WIN} /\ levelNow' = levelNow
         \/ Closing(state) /\ levelNow \in 1 .. 3 /\ levelNow' = levelNow + 1
         \/ state = RESET /\ levelNow = 0 /\ levelNow' = 1
         \/ state = WIN /\ levelNow = 4 /\ levelNow' = 0
<1>1. CASE state \in {RESET, WIN, LEVEL1, MID1TO2, LEVEL2, MID2TOFINAL, FINAL}
  BY <1>1, NAssumption DEF Following, levelNow, Closing, Released, Level
<1>2. CASE Closing(state)
  BY <1>2, NAssumption DEF Following, LevelExit, levelNow, Closing, Released, Level
<1>3. CASE Falling(state) /\ ~Closing(state)
  <2>1. state' = state + 1
    BY <1>3 DEF Following, Falling
  <2> QED
    BY <1>3, <2>1, NAssumption DEF levelNow, Closing, Released, Level, Falling, States
<1> QED
  BY <1>1, <1>2, <1>3 DEF Falling, States

-----------------------------------------------------------------------------
(* The mapped variables.                                                   *)

\* Cleared obstacles have not fallen.
LEMMA NoneFallen ==
  ASSUME levelNow \in 0 .. 4, \A i \in Obstacle : Level(i) = levelNow => Y[i] = 0
  PROVE  fallenNow = {}
  BY Numbering, YMaxAssumption DEF fallenNow, OffScreen

\* When a level is over all its obstacles have fallen.
LEMMA AllFallen ==
  ASSUME TypeOK, ObstacleInv, Done, Closing(state)
  PROVE  fallenNow = 1 .. N
<1>1. /\ Falling(state) /\ levelNow = Level(Released(state)) /\ levelNow \in 1 .. 3
      /\ Released(state) \in Obstacle /\ end_level[Released(state)]
      /\ Released(state) = Before(levelNow) + N
  BY PlayedLevel, NAssumption
  DEF Done, Timed, Closing, Falling, Released, Before, levelNow, Level, TypeOK
<1>2. OffScreen(Y[Released(state)])
  BY <1>1 DEF ObstacleInv, EndLevelIsFresh
<1>3. ASSUME NEW n \in 1 .. N PROVE OffScreen(Y[Before(levelNow) + n])
  <2>1. Before(levelNow) + n \in Obstacle /\ Level(Before(levelNow) + n) = levelNow
    BY <1>1, Numbering
  <2>2. CASE n = N
    BY <1>1, <1>2, <2>2
  <2>3. CASE n < N
    <3>1. Before(levelNow) + n < Released(state)
      BY <1>1, <2>3, Numbering, NAssumption
    <3>2. \/ Y[Before(levelNow) + n] >= Y[Released(state)]
          \/ OffScreen(Y[Before(levelNow) + n])
      BY <1>1, <2>1, <3>1 DEF ObstacleInv, InReleaseOrder
    <3> QED
      BY <1>1, <1>2, <2>1, <3>2, YMaxAssumption DEF OffScreen, TypeOK
  <2> QED
    BY <2>2, <2>3, NAssumption
<1> QED
  BY <1>1, <1>3 DEF fallenNow

\* A level in which a ball can be hit is not over.
LEMMA NotAllFallen ==
  ASSUME TypeOK, ObstacleInv, NEW b \in Ball, CanTouch(b)
  PROVE  levelNow \in 1 .. 3 /\ fallenNow # 1 .. N
<1>1. PICK i \in Obstacle : Y[i] \in HitTop .. HitBottom
  BY DEF CanTouch
<1>2. Y[i] # 0 /\ ~OffScreen(Y[i])
  BY <1>1, ReachAssumption, YMaxAssumption DEF OffScreen
<1>3. Ready(i)
  BY <1>2 DEF ObstacleInv, NoInvisibleObstacle
<1>4. levelNow \in 1 .. 3 /\ Level(i) = levelNow
  BY <1>3, PlayedLevel DEF Ready, TypeOK
<1>5. i - Before(levelNow) \in 1 .. N /\ Before(levelNow) + (i - Before(levelNow)) = i
  BY <1>4, Numbering DEF Obstacle
<1>6. i - Before(levelNow) \notin fallenNow
  BY <1>2, <1>5 DEF fallenNow
<1> QED
  BY <1>4, <1>5, <1>6

-----------------------------------------------------------------------------
(* Each action, mapped.                                                    *)

RuleStep == [Rules!Next]_<<levelNow, fallenNow>>

\* Clearing every obstacle empties the set of those fallen.
LEMMA ClearedMap ==
  ASSUME TypeOK', ClearObstacles
  PROVE  fallenNow' = {} /\ LaterAtTop'
<1>1. \A i \in Obstacle : Y'[i] = 0
  BY DEF ClearObstacles, ClearedY
<1>2. levelNow' \in 0 .. 4
  BY DEF levelNow, Level, TypeOK, States
<1>3. ASSUME NEW l \in 1 .. 3, NEW n \in 1 .. N PROVE ~OffScreen(Y'[Before(l) + n])
  BY <1>1, Numbering, YMaxAssumption DEF OffScreen
<1> QED
  BY <1>1, <1>2, <1>3 DEF fallenNow, LaterAtTop

LEMMA HitMap ==
  ASSUME TypeOK, TypeOK', ObstacleInv, NEW b \in Ball, CanTouch(b), ClearObstacles, LoadOnHit
  PROVE  RuleStep /\ LaterAtTop'
<1>1. levelNow' = levelNow
  BY TouchInLevel, LoadKeepsLevel
<1>2. fallenNow' = {} /\ LaterAtTop'
  BY ClearedMap
<1> QED
  BY <1>1, <1>2, NotAllFallen DEF RuleStep, Rules!Next, Rules!Hit

\* Obstacles move only in their level, and only downwards.
LEMMA FrameMap ==
  ASSUME TypeOK, TypeOK', ObstacleInv, ObstacleInv', LaterAtTop, FrameEdge
  PROVE  RuleStep /\ LaterAtTop'
<1>1. state' = state /\ levelNow' = levelNow
  BY DEF FrameEdge, smVars, levelNow
<1>2. levelNow \in 0 .. 4
  BY LevelNowType DEF TypeOK
<1>3. CASE AnyCollision \/ Restart
  <2>1. fallenNow = {}
    BY <1>2, <1>3, NoneFallen DEF ObstacleInv, HeldClear
  <2> QED
    BY <1>1, <1>3, <2>1, ClearedMap DEF FrameEdge, RuleStep
<1>4. CASE ~(AnyCollision \/ Restart)
  <2>1. \A i \in Obstacle : Y'[i] = FallenTo(Y[i], Ready(i), StepOf(Level(i)))
    BY <1>4 DEF FrameEdge, MoveObstacles
  <2>2. \A i \in Obstacle : OffScreen(Y[i]) => OffScreen(Y'[i])
    BY <2>1 DEF FallenTo
  <2>3. fallenNow \subseteq fallenNow'
    BY <1>1, <2>2, Numbering DEF fallenNow
  <2>4. Rules!InOrder(fallenNow)' /\ fallenNow' \in SUBSET (1 .. N)
    <3>1. ASSUME NEW m \in fallenNow', NEW n \in 1 .. N, n < m PROVE n \in fallenNow'
      <4>1. levelNow \in 1 .. 3 /\ m \in 1 .. N /\ OffScreen(Y'[Before(levelNow) + m])
        BY <1>1 DEF fallenNow
      <4>2. /\ Before(levelNow) + n \in Obstacle /\ Before(levelNow) + m \in Obstacle
            /\ Level(Before(levelNow) + n) = Level(Before(levelNow) + m)
            /\ Before(levelNow) + n < Before(levelNow) + m
        BY <3>1, <4>1, Numbering
      <4>3. \/ Y'[Before(levelNow) + n] >= Y'[Before(levelNow) + m]
            \/ OffScreen(Y'[Before(levelNow) + n])
        BY <4>2 DEF ObstacleInv, InReleaseOrder
      <4>4. OffScreen(Y'[Before(levelNow) + n])
        BY <4>1, <4>2, <4>3, YMaxAssumption DEF OffScreen, TypeOK
      <4> QED
        BY <1>1, <4>1, <4>4 DEF fallenNow
    <3> QED
      BY <3>1 DEF Rules!InOrder, fallenNow
  <2>5. LaterAtTop'
    <3>1. ASSUME NEW i \in Obstacle, Level(i) > levelNow PROVE Y'[i] = 0
      <4>1. ~Ready(i)
        BY <3>1, PlayedLevel, NAssumption DEF Ready, TypeOK, Level
      <4> QED
        BY <2>1, <3>1, <4>1 DEF FallenTo, LaterAtTop
    <3> QED
      BY <1>1, <3>1 DEF LaterAtTop
  <2>6. CASE levelNow \in 1 .. 3
    BY <1>1, <2>3, <2>4, <2>5, <2>6 DEF RuleStep, Rules!Next, Rules!Fall
  <2>7. CASE levelNow \notin 1 .. 3
    BY <1>1, <2>5, <2>7 DEF RuleStep, fallenNow
  <2> QED
    BY <2>6, <2>7
<1> QED
  BY <1>3, <1>4

\* A clock edge under a high Collision line does not change the level.
LEMMA HeldClkMap ==
  ASSUME TypeOK, TypeOK', ObstacleInv, ObstacleInv', RaceInv, LaterAtTop, ClkEdge, AnyCollision
  PROVE  RuleStep /\ LaterAtTop'
<1>1. state' = NextState(TRUE) /\ InLevel /\ seconds = 0
  BY DEF ClkEdge, SMClk, SMCollide, RaceInv, HitRestartsLevel
<1>2. levelNow' = levelNow /\ state' # RESET
  <2>1. CASE Falling(state)
    <3>1. state' = LevelStart(Level(Released(state)))
      BY <1>1, <2>1 DEF NextState
    <3> QED
      BY <2>1, <3>1, NAssumption
      DEF levelNow, LevelStart, Level, Released, Falling, TypeOK, States
  <2>2. CASE ~Falling(state)
    <3>1. state \in {LEVEL2, FINAL} /\ ~Done
      BY <1>1, <2>2, NAssumption DEF InLevel, Done, Expiry, Closing
    <3> QED
      BY <1>1, <2>2, <3>1 DEF NextState, levelNow
  <2> QED
    BY <2>1, <2>2
<1>3. UNCHANGED Y
  BY <1>2 DEF ClkEdge
<1> QED
  BY <1>2, <1>3 DEF RuleStep, fallenNow, LaterAtTop

\* A clock edge without a hit: the level may be over.
LEMMA FreeClkMap ==
  ASSUME TypeOK, TypeOK', ObstacleInv, LaterAtTop, ClkEdge, ~AnyCollision
  PROVE  RuleStep /\ LaterAtTop'
<1>1. state' = NextState(FALSE)
  BY DEF ClkEdge, SMClk, SMCount
<1>2. levelNow \in 0 .. 4
  BY LevelNowType DEF TypeOK
<1>3. CASE ~Done
  <2>1. state' = state /\ levelNow' = levelNow
    BY <1>1, <1>3 DEF NextState, levelNow
  <2>2. CASE state = RESET
    <3>1. ClearObstacles
      BY <2>1, <2>2 DEF ClkEdge
    <3>2. levelNow = 0
      BY <2>2 DEF levelNow
    <3> QED
      BY <2>1, <3>1, <3>2, ClearedMap DEF RuleStep, fallenNow
  <2>3. CASE state # RESET
    BY <2>1, <2>3 DEF ClkEdge, RuleStep, fallenNow, LaterAtTop
  <2> QED
    BY <2>2, <2>3
<1>4. CASE Done
  <2>1. state' = Following(state)
    BY <1>1, <1>4 DEF NextState
  <2>2. CASE ~Closing(state) /\ state \notin {RESET, WIN} /\ levelNow' = levelNow
    <3>1. state' # RESET
      BY <2>1, <2>2, NAssumption DEF Following, TypeOK, States
    <3> QED
      BY <2>2, <3>1 DEF ClkEdge, RuleStep, fallenNow, LaterAtTop
  <2>3. CASE Closing(state) /\ levelNow \in 1 .. 3 /\ levelNow' = levelNow + 1
    <3>1. UNCHANGED Y
      <4>1. state' # RESET
        BY <2>3 DEF levelNow
      <4> QED
        BY <4>1 DEF ClkEdge
    <3>2. fallenNow = 1 .. N
      BY <1>4, <2>3, AllFallen
    <3>3. LaterAtTop'
      BY <2>3, <3>1, NAssumption DEF LaterAtTop, Level
    <3>4. fallenNow' = {}
      <4>1. ASSUME levelNow' \in 1 .. 3, NEW n \in 1 .. N
            PROVE  ~OffScreen(Y'[Before(levelNow') + n])
        <5>1. /\ Before(levelNow') + n \in Obstacle
              /\ Level(Before(levelNow') + n) = levelNow'
          BY <4>1, Numbering
        <5>2. Y[Before(levelNow') + n] = 0
          BY <2>3, <5>1 DEF LaterAtTop
        <5> QED
          BY <3>1, <5>2, YMaxAssumption DEF OffScreen
      <4> QED
        BY <4>1 DEF fallenNow
    <3> QED
      BY <2>3, <3>2, <3>3, <3>4 DEF RuleStep, Rules!Next, Rules!Pass
  <2>4. CASE state = RESET /\ levelNow = 0 /\ levelNow' = 1
    <3>1. UNCHANGED Y
      <4>1. state' = LEVEL1
        BY <2>1, <2>4, NAssumption DEF Following, Closing
      <4> QED
        BY <4>1 DEF ClkEdge
    <3>2. \A i \in Obstacle : Y'[i] = 0
      BY <2>4, <3>1 DEF ObstacleInv, HeldClear, Restart
    <3>3. fallenNow' = {}
      <4>1. ASSUME NEW n \in 1 .. N PROVE ~OffScreen(Y'[Before(1) + n])
        BY <3>2, Numbering, YMaxAssumption DEF OffScreen
      <4> QED
        BY <2>4, <4>1 DEF fallenNow
    <3> QED
      BY <2>4, <3>2, <3>3 DEF RuleStep, Rules!Next, Rules!Start, LaterAtTop
  <2>5. CASE state = WIN /\ levelNow = 4 /\ levelNow' = 0
    <3>1. ClearObstacles
      <4>1. state' = RESET
        BY <2>1, <2>5, NAssumption DEF Following, Closing
      <4> QED
        BY <4>1 DEF ClkEdge
    <3> QED
      BY <2>5, <3>1, ClearedMap DEF RuleStep, Rules!Next, Rules!BackToTitle
  <2> QED
    BY <2>1, <2>2, <2>3, <2>4, <2>5, FollowingLevel DEF TypeOK
<1> QED
  BY <1>3, <1>4

LEMMA StepMap ==
  MapInv /\ (TypeOK /\ ObstacleInv)' /\ [Next]_vars => RuleStep /\ LaterAtTop'
<1> SUFFICES ASSUME MapInv, TypeOK', ObstacleInv', [Next]_vars
             PROVE  RuleStep /\ LaterAtTop'
  OBVIOUS
<1> USE DEF MapInv
<1>1. CASE ClkEdge
  BY <1>1, HeldClkMap, FreeClkMap
<1>2. CASE FrameEdge
  BY <1>2, FrameMap
<1>3. ASSUME NEW b \in Ball, HitEdge(b) PROVE RuleStep /\ LaterAtTop'
  BY <1>3, HitMap DEF HitEdge
<1>4. CASE DoubleHitEdge
  <2>1. CanTouch(0) /\ 0 \in Ball
    BY <1>4 DEF DoubleHitEdge, Ball
  <2> QED
    BY <1>4, <2>1, HitMap DEF DoubleHitEdge
<1>5. CASE ResetButton
  <2>1. levelNow' = 0
    BY <1>5 DEF ResetButton, SMReset, levelNow
  <2> QED
    BY <1>5, <2>1, ClearedMap DEF ResetButton, RuleStep, Rules!Next, Rules!ResetButton
<1>6. CASE KeyChange \/ UNCHANGED vars
  <2>1. UNCHANGED <<state, Y>>
    BY <1>6 DEF KeyChange, vars, smVars
  <2> QED
    BY <2>1 DEF RuleStep, fallenNow, levelNow, LaterAtTop
<1> QED
  BY <1>1, <1>2, <1>3, <1>4, <1>5, <1>6 DEF Next

\* The game plays by the rules: a level is passed only when all its obstacles
\* have fallen since the last hit, no level is skipped, and a hit never costs a
\* level.
THEOREM Implements == Spec => PlaysByTheRules
<1>1. Init => MapInv
  <2>1. Init => RaceInv /\ LaterAtTop
    BY DEF Init, NoHit, AnyCollision, RaceInv, HitRestartsLevel, LaterAtTop, ClearedY
  <2> QED
    BY <2>1, TypeInit, InitInv DEF MapInv
<1>2. MapInv /\ [Next]_vars => MapInv'
  BY TypeStep, InvStep, RaceStep, StepMap DEF MapInv
<1>3. MapInv /\ MapInv' /\ [Next]_vars => [Rules!Next]_<<levelNow, fallenNow>>
  BY StepMap DEF MapInv, RuleStep
<1>4. Init => Rules!Init
  BY DEF Init, SMInit, Rules!Init, levelNow, fallenNow
<1> QED
  BY <1>1, <1>2, <1>3, <1>4, PTL DEF Spec, PlaysByTheRules, Rules!Spec, Rules!vars

=============================================================================
