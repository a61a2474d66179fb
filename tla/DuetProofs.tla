----------------------------- MODULE DuetProofs -----------------------------
(***************************************************************************)
(* Safety of the running game, for every number of obstacles per level,    *)
(* every clock rate and every screen height.                               *)
(*                                                                         *)
(* None of the checked invariants is inductive alone.  A level ends on the *)
(* end_level of its last obstacle: that the others are then off the screen *)
(* too needs the release order and the freshness of end_level; that a hit  *)
(* leaves no obstacle frozen needs HeldClear, that the Collision line and  *)
(* restart keep all of them clear as long as they are high.                *)
(***************************************************************************)
EXTENDS Duet, TLAPS

USE DEF RESET, LEVEL1, LEVEL2, FINAL, WIN, MID1TO2, MID2TOFINAL, BLOCK

\* While a Collision line or restart is high every obstacle is clear.
HeldClear == AnyCollision \/ Restart =>
               \A i \in Obstacle : Y[i] = 0 /\ ~end_level[i]

-----------------------------------------------------------------------------
(* The state machine's functions.                                          *)

LEMMA FollowingType ==
  ASSUME NEW s \in States
  PROVE  Following(s) \in States
  BY NAssumption
  DEF Following, Closing, LevelExit, Level, Released, States

LEMMA LevelStartType ==
  ASSUME NEW l
  PROVE  LevelStart(l) \in States
  BY NAssumption DEF LevelStart, States

\* next_state is a state of the enumeration.
LEMMA NextStateType ==
  ASSUME state \in States, NEW hit
  PROVE  NextState(hit) \in States
  BY FollowingType, LevelStartType DEF NextState

\* A state change other than leaving a closing state keeps what is ready ready.
LEMMA ReadyLost ==
  ASSUME state \in States, state' = NextState(FALSE),
         NEW i \in Obstacle, Ready(i), ~Ready(i)'
  PROVE  /\ Closing(state) /\ end_level[Released(state)]
         /\ i <= Released(state) /\ Level(i) = Level(Released(state))
         /\ Released(state) \in Obstacle
<1>1. Done
  BY DEF NextState, Ready
<1>2. Closing(state)
  BY <1>1, NAssumption
  DEF NextState, Following, Closing, Released, Ready, Falling, Level, States, Obstacle
<1>3. end_level[Released(state)]
  BY <1>1, <1>2, NAssumption DEF Done, Timed, Closing
<1> QED
  BY <1>2, <1>3, NAssumption DEF Ready, Released, Falling, Obstacle, States, Closing

-----------------------------------------------------------------------------
(* Type correctness.                                                       *)

LEMMA ClearedType ==
  ASSUME ClearObstacles
  PROVE  /\ Y' \in [Obstacle -> 0 .. YMax + 3]
         /\ end_level' \in [Obstacle -> BOOLEAN]
  BY YMaxAssumption DEF ClearObstacles, ClearedY, ClearedEnd

LEMMA MovedType ==
  ASSUME TypeOK, MoveObstacles
  PROVE  /\ Y' \in [Obstacle -> 0 .. YMax + 3]
         /\ end_level' \in [Obstacle -> BOOLEAN]
<1>1. ASSUME NEW i \in Obstacle
      PROVE  FallenTo(Y[i], Ready(i), StepOf(Level(i))) \in 0 .. YMax + 3
  BY <1>1, YMaxAssumption DEF TypeOK, FallenTo, OffScreen, StepOf, Level
<1>2. ASSUME NEW i \in Obstacle
      PROVE  EndAfter(Y[i], end_level[i], Ready(i)) \in BOOLEAN
  BY DEF EndAfter, OffScreen
<1> QED
  BY <1>1, <1>2 DEF MoveObstacles

LEMMA CollideType ==
  ASSUME TypeOK, NEW next \in States, SMCollide(next)
  PROVE  /\ state' \in States
         /\ counter' \in 0 .. ClksPerSecond
         /\ seconds' \in Nat
         /\ hidden' \in BOOLEAN /\ hidden_counter' \in 0 .. ClksPerBlink
         /\ pstart' \in BOOLEAN /\ pstart_counter' \in 0 .. ClksPerSecond
  BY ClksAssumption DEF TypeOK, SMCollide

LEMMA CountType ==
  ASSUME TypeOK, SMCount
  PROVE  /\ state' \in States
         /\ counter' \in 0 .. ClksPerSecond
         /\ seconds' \in Nat
         /\ hidden' \in BOOLEAN /\ hidden_counter' \in 0 .. ClksPerBlink
         /\ pstart' \in BOOLEAN /\ pstart_counter' \in 0 .. ClksPerSecond
<1>1. state' \in States
  BY NextStateType DEF TypeOK, SMCount
<1>2. counter' \in 0 .. ClksPerSecond /\ seconds' \in Nat
  BY ClksAssumption DEF TypeOK, SMCount, CountSeconds
<1>3. hidden' \in BOOLEAN
  BY DEF TypeOK, SMCount, Blink
<1>4. hidden_counter' \in 0 .. ClksPerBlink
  BY ClksAssumption DEF TypeOK, SMCount, Blink
<1>5. pstart' \in BOOLEAN
  BY DEF TypeOK, SMCount, BlinkStart
<1>6. pstart_counter' \in 0 .. ClksPerSecond
  BY ClksAssumption DEF TypeOK, SMCount, BlinkStart
<1> QED
  BY <1>1, <1>2, <1>3, <1>4, <1>5, <1>6

LEMMA LoadType ==
  ASSUME TypeOK, LoadOnHit
  PROVE  \E next \in States : SMCollide(next)
  BY NextStateType DEF LoadOnHit, TypeOK

LEMMA LineType ==
  /\ NoHit \in [Ball -> BOOLEAN]
  /\ \A b \in Ball : OnlyHit(b) \in [Ball -> BOOLEAN]
  BY DEF NoHit, OnlyHit, Ball

LEMMA TypeInit == Init => TypeOK
<1> SUFFICES ASSUME Init PROVE TypeOK
  OBVIOUS
<1>1. state \in States /\ counter \in 0 .. ClksPerSecond /\ seconds \in Nat
  BY NAssumption, ClksAssumption DEF Init, SMInit, States
<1>2. hidden \in BOOLEAN /\ pstart \in BOOLEAN
  BY DEF Init, SMInit
<1>3. hidden_counter \in 0 .. ClksPerBlink /\ pstart_counter \in 0 .. ClksPerSecond
  BY ClksAssumption DEF Init, SMInit
<1>4. Y \in [Obstacle -> 0 .. YMax + 3] /\ end_level \in [Obstacle -> BOOLEAN]
  BY YMaxAssumption DEF Init, ClearedY, ClearedEnd
<1>5. Collision \in [Ball -> BOOLEAN] /\ keycode \in Keys /\ clocked \in BOOLEAN
  BY LineType, KeysAssumption DEF Init
<1> QED
  BY <1>1, <1>2, <1>3, <1>4, <1>5 DEF TypeOK

LEMMA TypeStep == TypeOK /\ [Next]_vars => TypeOK'
<1> SUFFICES ASSUME TypeOK, [Next]_vars PROVE TypeOK'
  OBVIOUS
<1>1. CASE ClkEdge
  <2>1. SMClk /\ clocked' \in BOOLEAN /\ Collision' \in [Ball -> BOOLEAN] /\ keycode' \in Keys
    BY <1>1 DEF ClkEdge, TypeOK
  <2>2. Y' \in [Obstacle -> 0 .. YMax + 3] /\ end_level' \in [Obstacle -> BOOLEAN]
    BY <1>1, ClearedType DEF ClkEdge, TypeOK
  <2>3. CASE AnyCollision
    BY <2>1, <2>2, <2>3, CollideType, NextStateType DEF SMClk, TypeOK
  <2>4. CASE ~AnyCollision
    BY <2>1, <2>2, <2>4, CountType DEF SMClk, TypeOK
  <2> QED
    BY <2>3, <2>4
<1>2. CASE FrameEdge
  <2>1. Y' \in [Obstacle -> 0 .. YMax + 3] /\ end_level' \in [Obstacle -> BOOLEAN]
    BY <1>2, ClearedType, MovedType DEF FrameEdge
  <2> QED
    BY <1>2, <2>1, LineType DEF FrameEdge, TypeOK, smVars
<1>3. ASSUME NEW b \in Ball, HitEdge(b) PROVE TypeOK'
  BY <1>3, ClearedType, LoadType, CollideType, LineType DEF HitEdge, TypeOK
<1>4. CASE DoubleHitEdge
  <2>1. Collision' \in [Ball -> BOOLEAN]
    BY <1>4, LineType DEF DoubleHitEdge, Ball
  <2> QED
    BY <1>4, <2>1, ClearedType, LoadType, CollideType DEF DoubleHitEdge, TypeOK
<1>5. CASE ResetButton
  <2>1. state' \in States /\ counter' \in 0 .. ClksPerSecond /\ seconds' \in Nat
    BY <1>5, ClksAssumption, NAssumption DEF ResetButton, SMReset, States
  <2> QED
    BY <1>5, <2>1, ClearedType, LineType DEF ResetButton, SMReset, TypeOK
<1>6. CASE KeyChange
  BY <1>6 DEF KeyChange, TypeOK, smVars
<1>7. CASE UNCHANGED vars
  BY <1>7 DEF vars, smVars, TypeOK
<1> QED
  BY <1>1, <1>2, <1>3, <1>4, <1>5, <1>6, <1>7 DEF Next

\* Every register keeps its type: the state register always holds one of the
\* enumeration's values, the counters stay within their wrap points and no
\* obstacle is ever more than one step below the screen.
THEOREM TypeCorrect == Spec => []TypeOK
<1>1. Init => TypeOK
  BY TypeInit
<1>2. TypeOK /\ [Next]_vars => TypeOK'
  BY TypeStep
<1> QED
  BY <1>1, <1>2, PTL DEF Spec

-----------------------------------------------------------------------------
(* What each action does to the obstacles.                                 *)

\* The part of the invariant that is about obstacles.
ObstacleInv == /\ NoInvisibleObstacle
               /\ InReleaseOrder
               /\ EndLevelIsFresh
               /\ HeldClear

\* Clearing every obstacle establishes everything that is said about them.
LEMMA ClearedInv ==
  ASSUME ClearObstacles
  PROVE  ObstacleInv'
  BY DEF ClearObstacles, ClearedY, ClearedEnd, ObstacleInv, NoInvisibleObstacle,
         InReleaseOrder, EndLevelIsFresh, HeldClear, OffScreen

LEMMA InitInv == Init => ObstacleInv
  BY DEF Init, SMInit, ClearedY, ClearedEnd, ObstacleInv, NoInvisibleObstacle,
         InReleaseOrder, EndLevelIsFresh, HeldClear, OffScreen

\* A clock edge that ends a level finds all its obstacles below the screen: the
\* last one is, and none was overtaken.
LEMMA ClkKeepsInv ==
  ASSUME TypeOK, ObstacleInv, ClkEdge
  PROVE  ObstacleInv'
<1>1. CASE state' = RESET
  BY <1>1, ClearedInv DEF ClkEdge
<1>2. CASE state' # RESET
  <2>1. UNCHANGED <<Y, end_level, Collision>>
    BY <1>2 DEF ClkEdge
  <2>2. InReleaseOrder' /\ EndLevelIsFresh'
    BY <2>1 DEF ObstacleInv, InReleaseOrder, EndLevelIsFresh, OffScreen
  <2>3. HeldClear'
    BY <1>2, <2>1 DEF ObstacleInv, HeldClear, AnyCollision, Restart
  <2>4. ASSUME NEW i \in Obstacle, ~Ready(i)'
        PROVE  Y'[i] = 0 \/ OffScreen(Y'[i])
    <3>1. CASE AnyCollision
      BY <2>1, <3>1 DEF ObstacleInv, HeldClear
    <3>2. CASE ~AnyCollision /\ ~Ready(i)
      BY <2>1, <2>4, <3>2 DEF ObstacleInv, NoInvisibleObstacle
    <3>3. CASE ~AnyCollision /\ Ready(i)
      <4>1. state' = NextState(FALSE)
        BY <3>3 DEF ClkEdge, SMClk, SMCount
      <4>2. /\ end_level[Released(state)] /\ Released(state) \in Obstacle
            /\ i <= Released(state) /\ Level(i) = Level(Released(state))
        BY <2>4, <3>3, <4>1, ReadyLost DEF TypeOK
      <4>3. OffScreen(Y[Released(state)])
        BY <4>2 DEF ObstacleInv, EndLevelIsFresh
      <4>4. OffScreen(Y[i])
        <5>1. CASE i = Released(state)
          BY <4>3, <5>1
        <5>2. CASE i < Released(state)
          <6>1. Y[i] >= Y[Released(state)] \/ OffScreen(Y[i])
            BY <4>2, <5>2 DEF ObstacleInv, InReleaseOrder
          <6> QED
            BY <4>2, <4>3, <6>1, YMaxAssumption DEF OffScreen, TypeOK
        <5> QED
          BY <4>2, <5>1, <5>2, NAssumption DEF Obstacle
      <4> QED
        BY <2>1, <4>4
    <3> QED
      BY <3>1, <3>2, <3>3
  <2> QED
    BY <2>2, <2>3, <2>4 DEF ObstacleInv, NoInvisibleObstacle
<1> QED
  BY <1>1, <1>2

\* Obstacles of a level fall by the same step, and one is released only after
\* those before it.
LEMMA MoveKeepsOrder ==
  ASSUME TypeOK, InReleaseOrder, MoveObstacles,
         NEW i \in Obstacle, NEW j \in Obstacle, i < j, Level(i) = Level(j)
  PROVE  Y'[i] >= Y'[j] \/ OffScreen(Y'[i])
<1>1. Y[i] >= Y[j] \/ OffScreen(Y[i])
  BY DEF InReleaseOrder
<1>2. Ready(j) => Ready(i)
  BY NAssumption DEF Ready, Obstacle, Released, TypeOK, States
<1>3. /\ Y'[i] = FallenTo(Y[i], Ready(i), Level(i))
      /\ Y'[j] = FallenTo(Y[j], Ready(j), Level(j))
  BY DEF MoveObstacles, StepOf
<1>4. Y[i] \in Nat /\ Y[j] \in Nat /\ Level(i) \in Nat
  BY YMaxAssumption DEF TypeOK, Level
<1> QED
  BY <1>1, <1>2, <1>3, <1>4, YMaxAssumption DEF FallenTo, OffScreen

LEMMA FrameKeepsInv ==
  ASSUME TypeOK, ObstacleInv, FrameEdge
  PROVE  ObstacleInv'
<1>1. CASE AnyCollision \/ Restart
  BY <1>1, ClearedInv DEF FrameEdge
<1>2. CASE ~(AnyCollision \/ Restart)
  <2>1. MoveObstacles /\ UNCHANGED state /\ Collision' = NoHit
    BY <1>2 DEF FrameEdge, smVars
  <2>2. InReleaseOrder'
    BY <2>1, MoveKeepsOrder DEF ObstacleInv, InReleaseOrder
  <2>3. HeldClear'
    BY <1>2, <2>1 DEF HeldClear, AnyCollision, Restart, NoHit
  <2>4. ASSUME NEW i \in Obstacle, ~Ready(i)'
        PROVE  Y'[i] = 0 \/ OffScreen(Y'[i])
    <3>1. ~Ready(i)
      BY <2>1, <2>4 DEF Ready
    <3>2. Y'[i] = Y[i]
      BY <2>1, <3>1 DEF MoveObstacles, FallenTo
    <3> QED
      BY <3>1, <3>2 DEF ObstacleInv, NoInvisibleObstacle
  <2>5. ASSUME NEW i \in Obstacle, end_level'[i]
        PROVE  OffScreen(Y'[i])
    <3>1. OffScreen(Y[i])
      BY <2>1, <2>5 DEF MoveObstacles, EndAfter, ObstacleInv, EndLevelIsFresh
    <3> QED
      BY <2>1, <3>1 DEF MoveObstacles, FallenTo
  <2> QED
    BY <2>2, <2>3, <2>4, <2>5 DEF ObstacleInv, NoInvisibleObstacle, EndLevelIsFresh
<1> QED
  BY <1>1, <1>2

LEMMA InvStep == TypeOK /\ ObstacleInv /\ [Next]_vars => ObstacleInv'
<1> SUFFICES ASSUME TypeOK, ObstacleInv, [Next]_vars PROVE ObstacleInv'
  OBVIOUS
<1>1. CASE ClkEdge
  BY <1>1, ClkKeepsInv
<1>2. CASE FrameEdge
  BY <1>2, FrameKeepsInv
<1>3. ASSUME NEW b \in Ball, HitEdge(b) PROVE ObstacleInv'
  BY <1>3, ClearedInv DEF HitEdge
<1>4. CASE DoubleHitEdge
  BY <1>4, ClearedInv DEF DoubleHitEdge
<1>5. CASE ResetButton
  BY <1>5, ClearedInv DEF ResetButton
<1>6. CASE KeyChange \/ UNCHANGED vars
  <2>1. UNCHANGED <<state, Collision, Y, end_level>>
    BY <1>6 DEF KeyChange, vars, smVars
  <2> QED
    BY <2>1 DEF ObstacleInv, NoInvisibleObstacle, InReleaseOrder, EndLevelIsFresh,
                HeldClear, AnyCollision, Restart, Ready, OffScreen
<1> QED
  BY <1>1, <1>2, <1>3, <1>4, <1>5, <1>6 DEF Next

LEMMA InvAlways == Spec => [](TypeOK /\ ObstacleInv)
<1>1. Init => TypeOK /\ ObstacleInv
  BY TypeInit, InitInv
<1>2. (TypeOK /\ ObstacleInv) /\ [Next]_vars => (TypeOK /\ ObstacleInv)'
  BY TypeStep, InvStep
<1> QED
  BY <1>1, <1>2, PTL DEF Spec

\* An obstacle that is not drawn is never where a ball could touch it, although
\* block.sv freezes it wherever it is when its ready line drops.
THEOREM NothingInvisible == Spec => []NoInvisibleObstacle
<1>1. ObstacleInv => NoInvisibleObstacle
  BY DEF ObstacleInv
<1> QED
  BY <1>1, InvAlways, PTL

\* No obstacle overtakes one of its level released before it, so a level that
\* ends on its last obstacle ends after all of them.
THEOREM KeepsOrder == Spec => []InReleaseOrder
<1>1. ObstacleInv => InReleaseOrder
  BY DEF ObstacleInv
<1> QED
  BY <1>1, InvAlways, PTL

\* end_level never survives the attempt in which it was raised.
THEOREM NoStaleEndLevel == Spec => []EndLevelIsFresh
<1>1. ObstacleInv => EndLevelIsFresh
  BY DEF ObstacleInv
<1> QED
  BY <1>1, InvAlways, PTL

-----------------------------------------------------------------------------
(* The seconds timer.                                                      *)

LEMMA ExpiryType ==
  ASSUME NEW s \in States, Timed(s)
  PROVE  Expiry(s) \in Nat
  BY NAssumption DEF Expiry, Timed, Released, Level, States

\* Each timed state that follows another has more seconds to wait for.
LEMMA ExpiryGrows ==
  ASSUME NEW s \in States, Timed(s), Timed(Following(s))
  PROVE  Expiry(s) + 1 <= Expiry(Following(s))
<1>1. CASE s \in {LEVEL1, MID1TO2, LEVEL2, MID2TOFINAL, FINAL, WIN}
  BY <1>1, NAssumption DEF Following, Expiry, Timed, Released, Level, Closing, States
<1>2. CASE Falling(s)
  <2>1. Following(s) = s + 1 /\ Level(Released(s)) = Level(Released(s + 1))
    BY <1>2, NAssumption DEF Following, Timed, Released, Level, Closing, Falling, States
  <2> QED
    BY <1>2, <2>1, NAssumption DEF Expiry, Released, Level, Falling, States
<1> QED
  BY <1>1, <1>2, NAssumption DEF Timed, Falling, States

LEMMA CountKeepsTimer ==
  ASSUME TypeOK, NoOvershoot, SMCount
  PROVE  NoOvershoot'
<1>1. SUFFICES ASSUME Timed(state') PROVE seconds' <= Expiry(state')
  BY DEF NoOvershoot, Timed
<1>2. state \in States /\ state' \in States /\ seconds \in Nat
  BY NextStateType DEF TypeOK, SMCount
<1>3. Expiry(state') \in Nat
  BY <1>1, <1>2, ExpiryType
<1>4. CASE state = RESET \/ Closing(state)
  <2>1. seconds' = 0
    BY <1>4 DEF SMCount, CountSeconds
  <2> QED
    BY <1>3, <2>1
<1>5. CASE Timed(state)
  <2>1. /\ Expiry(state) \in Nat /\ seconds <= Expiry(state)
        /\ seconds' = seconds \/ seconds' = seconds + 1
    BY <1>2, <1>5, ExpiryType DEF NoOvershoot, SMCount, CountSeconds, Timed
  <2>2. CASE Done
    <3>1. state' = Following(state) /\ seconds = Expiry(state)
      BY <1>5, <2>2 DEF SMCount, NextState, Done, Timed
    <3> QED
      BY <1>1, <1>2, <1>3, <1>5, <2>1, <3>1, ExpiryGrows
  <2>3. CASE ~Done
    <3>1. state' = state /\ seconds # Expiry(state)
      BY <1>5, <2>3 DEF SMCount, NextState, Done
    <3> QED
      BY <1>2, <1>3, <2>1, <3>1
  <2> QED
    BY <2>2, <2>3
<1> QED
  BY <1>4, <1>5 DEF Timed

LEMMA CollideKeepsTimer ==
  ASSUME NEW next \in States, SMCollide(next)
  PROVE  NoOvershoot'
  BY ExpiryType DEF SMCollide, NoOvershoot, Timed

LEMMA TimerStep == TypeOK /\ NoOvershoot /\ [Next]_vars => NoOvershoot'
<1> SUFFICES ASSUME TypeOK, NoOvershoot, [Next]_vars PROVE NoOvershoot'
  OBVIOUS
<1>1. CASE ClkEdge
  BY <1>1, CountKeepsTimer, CollideKeepsTimer, NextStateType DEF ClkEdge, SMClk, TypeOK
<1>2. ASSUME NEW b \in Ball, HitEdge(b) PROVE NoOvershoot'
  BY <1>2, LoadType, CollideKeepsTimer DEF HitEdge
<1>3. CASE DoubleHitEdge
  BY <1>3, LoadType, CollideKeepsTimer DEF DoubleHitEdge
<1>4. CASE ResetButton
  BY <1>4 DEF ResetButton, SMReset, NoOvershoot, Timed
<1>5. CASE FrameEdge \/ KeyChange \/ UNCHANGED vars
  BY <1>5 DEF FrameEdge, KeyChange, vars, smVars, NoOvershoot, Timed, Closing
<1> QED
  BY <1>1, <1>2, <1>3, <1>4, <1>5 DEF Next

\* No timed state is ever left waiting for a second that has passed: seconds
\* reaches the value it is compared with and never goes beyond it.
THEOREM TimersExpire == Spec => []NoOvershoot
<1>1. Init => NoOvershoot
  BY DEF Init, SMInit, NoOvershoot, Timed
<1>2. (TypeOK /\ NoOvershoot) /\ [Next]_vars => (TypeOK /\ NoOvershoot)'
  BY TypeStep, TimerStep
<1> QED
  BY <1>1, <1>2, TypeInit, PTL DEF Spec

-----------------------------------------------------------------------------
(* The race between a hit and next_state.                                  *)

\* The machine is still in the level that was hit.
InLevel == Falling(state) \/ state \in {LEVEL2, FINAL}

RaceInv == HitRestartsLevel /\ (AnyCollision => InLevel)

\* Only obstacles of the level being played are within reach of a ball, and
\* while one of them is the level is not over.
LEMMA TouchInLevel ==
  ASSUME TypeOK, ObstacleInv, NEW b \in Ball, CanTouch(b)
  PROVE  Falling(state) /\ (Done => ~Closing(state))
<1>1. PICK i \in Obstacle : Y[i] \in HitTop .. HitBottom
  BY DEF CanTouch
<1>2. Y[i] # 0 /\ ~OffScreen(Y[i])
  BY <1>1, ReachAssumption, YMaxAssumption DEF OffScreen
<1>3. Ready(i)
  BY <1>2 DEF ObstacleInv, NoInvisibleObstacle
<1>4. ASSUME Done, Closing(state) PROVE FALSE
  <2>1. /\ end_level[Released(state)] /\ Released(state) \in Obstacle
        /\ i <= Released(state) /\ Level(i) = Level(Released(state))
    BY <1>3, <1>4, NAssumption
    DEF Done, Timed, Closing, Ready, Released, Falling, Obstacle
  <2>2. OffScreen(Y[Released(state)])
    BY <2>1 DEF ObstacleInv, EndLevelIsFresh
  <2>3. i < Released(state)
    BY <1>2, <2>1, <2>2, NAssumption DEF Obstacle
  <2>4. Y[i] >= Y[Released(state)]
    BY <1>2, <2>1, <2>3 DEF ObstacleInv, InReleaseOrder
  <2> QED
    BY <1>2, <2>1, <2>2, <2>4, YMaxAssumption DEF OffScreen, TypeOK
<1> QED
  BY <1>3, <1>4 DEF Ready

LEMMA LoadInLevel ==
  ASSUME TypeOK, Falling(state), Done => ~Closing(state), LoadOnHit
  PROVE  InLevel' /\ seconds' = 0
<1>1. \/ state' = state
      \/ Done /\ state' = Following(state)
      \/ state' = LevelStart(Level(Released(state)))
  BY DEF LoadOnHit, SMCollide, NextState
<1>2. Done => Following(state) = state + 1
  BY DEF Following, Falling, TypeOK, States
<1> QED
  BY <1>1, <1>2 DEF LoadOnHit, SMCollide, InLevel, Falling, LevelStart, TypeOK, States

LEMMA RaceStep ==
  (TypeOK /\ ObstacleInv) /\ ObstacleInv' /\ RaceInv /\ [Next]_vars => RaceInv'
<1> SUFFICES ASSUME TypeOK, ObstacleInv, ObstacleInv', RaceInv, [Next]_vars
             PROVE  RaceInv'
  OBVIOUS
<1>1. CASE ClkEdge /\ AnyCollision
  <2>1. state' = NextState(TRUE) /\ seconds' = 0
    BY <1>1 DEF ClkEdge, SMClk, SMCollide
  <2>2. InLevel /\ seconds = 0
    BY <1>1 DEF RaceInv, HitRestartsLevel
  <2>3. \E l \in 1 .. 3 : state' = LevelStart(l)
    <3>1. CASE Falling(state)
      <4>1. Level(Released(state)) \in 1 .. 3
        BY DEF Level
      <4> QED
        BY <2>1, <3>1, <4>1 DEF NextState
    <3>2. CASE ~Falling(state)
      <4>1. state \in {LEVEL2, FINAL} /\ ~Done
        BY <2>2, <3>2, NAssumption DEF InLevel, Done, Expiry, Closing
      <4> QED
        BY <2>1, <3>2, <4>1 DEF NextState, LevelStart
    <3> QED
      BY <3>1, <3>2
  <2>4. InLevel'
    BY <2>3 DEF InLevel, LevelStart, Falling
  <2> QED
    BY <2>1, <2>3, <2>4 DEF RaceInv, HitRestartsLevel, ObstacleInv, HeldClear
<1>2. CASE ClkEdge /\ ~AnyCollision
  BY <1>2 DEF ClkEdge, AnyCollision, RaceInv, HitRestartsLevel
<1>3. CASE FrameEdge \/ ResetButton
  BY <1>3 DEF FrameEdge, ResetButton, NoHit, AnyCollision, RaceInv, HitRestartsLevel
<1>4. ASSUME NEW b \in Ball, CanTouch(b), LoadOnHit, clocked' = FALSE PROVE RaceInv'
  BY <1>4, TouchInLevel, LoadInLevel
  DEF RaceInv, HitRestartsLevel, ObstacleInv, HeldClear
<1>5. CASE KeyChange \/ UNCHANGED vars
  BY <1>5 DEF KeyChange, vars, smVars, RaceInv, HitRestartsLevel, AnyCollision, InLevel
<1> QED
  BY <1>1, <1>2, <1>3, <1>4, <1>5 DEF Next, HitEdge, DoubleHitEdge, Ball

\* However the load of the state register races with next_state, one clock edge
\* under a high Collision line brings the machine to the start of a level.
THEOREM RaceSettles == Spec => []HitRestartsLevel
<1>1. Init => RaceInv
  BY DEF Init, NoHit, AnyCollision, RaceInv, HitRestartsLevel
<1>2. (TypeOK /\ ObstacleInv /\ RaceInv) /\ [Next]_vars
        => (TypeOK /\ ObstacleInv /\ RaceInv)'
  BY TypeStep, InvStep, RaceStep
<1>3. RaceInv => HitRestartsLevel
  BY DEF RaceInv
<1> QED
  BY <1>1, <1>2, <1>3, TypeInit, InitInv, PTL DEF Spec

=============================================================================
