------------------------------- MODULE Duet -------------------------------
(***************************************************************************)
(* The running game, src/FinalProject.sv: the state machine (block_SM), the*)
(* thirty obstacles (block) and the hit lines of the two balls (ball).     *)
(*                                                                         *)
(* Two clocks drive it.  Clk drives the state machine; frame_clk, the VGA  *)
(* vertical sync, drives obstacles and balls once per frame.  Their ratio  *)
(* is left open except for what always holds: a frame lasts longer than a  *)
(* clock period (840000 of them), so between two frame edges there is at   *)
(* least one clock edge.                                                   *)
(*                                                                         *)
(* A frame edge is one action with everything it sets off asynchronously:  *)
(* a ball that touches an obstacle raises its Collision line, and the line *)
(* itself clears the other ball and all obstacles and loads the state      *)
(* machine before the next clock edge.                                     *)
(*                                                                         *)
(* Where the balls are is the subject of module Ball.  Here a ball may     *)
(* touch an obstacle, ready or not (ball.sv tests positions only), whose   *)
(* height is within reach of the circle the balls move on:                 *)
(*   HitTop .. HitBottom     306 .. 454 in the code                        *)
(***************************************************************************)
EXTENDS BlockSM, Obstacle

CONSTANTS HitTop, HitBottom,
          Keys               \* the key codes the keyboard may report

ASSUME ReachAssumption == /\ HitTop \in Nat /\ HitBottom \in Nat
                          /\ 0 < HitTop /\ HitTop <= HitBottom /\ HitBottom <= YMax
ASSUME KeysAssumption  == Keys \subseteq Nat /\ 0 \in Keys

VARIABLES Y,          \* Y[i], Block_Y_Pos of obstacle i
          clocked     \* a clock edge has come since the last frame edge

vars == <<smVars, Collision, end_level, keycode, Y, clocked>>

Other(b) == 1 - b
NoHit    == [b \in Ball |-> FALSE]
OnlyHit(b) == [c \in Ball |-> c = b]

-----------------------------------------------------------------------------
\* Faulty variant: the clear forgets end_level.
ClearHeights == Y' = [i \in Obstacle |-> ClearedY] /\ UNCHANGED end_level

ClearObstacles == /\ Y' = [i \in Obstacle |-> ClearedY]
                  /\ end_level' = [i \in Obstacle |-> ClearedEnd]

MoveObstacles ==
  /\ Y' = [i \in Obstacle |-> FallenTo(Y[i], Ready(i), StepOf(Level(i)))]
  /\ end_level' = [i \in Obstacle |-> EndAfter(Y[i], end_level[i], Ready(i))]

Init == /\ SMInit
        /\ Collision = NoHit
        /\ Y = [i \in Obstacle |-> ClearedY]
        /\ end_level = [i \in Obstacle |-> ClearedEnd]
        /\ keycode = 0
        /\ clocked = FALSE

\* A rising edge of Clk.  Entering RESET raises restart, which clears the
\* obstacles at once.
ClkEdge == /\ SMClk
           /\ clocked' = TRUE
           /\ IF state' = RESET THEN ClearObstacles ELSE UNCHANGED <<Y, end_level>>
           /\ UNCHANGED <<Collision, keycode>>

\* Ball b may find itself in contact at a frame edge.  A ball whose partner's
\* Collision line is high is held in its asynchronous reset.
CanTouch(b) == /\ ~Collision[Other(b)]
               /\ \E i \in Obstacle : Y[i] \in HitTop .. HitBottom

\* A frame edge at which no ball is in contact: hit lines drop.  An obstacle
\* that was held clear by a Collision line or by restart misses this edge.
FrameEdge == /\ clocked
             /\ clocked' = FALSE
             /\ Collision' = NoHit
             /\ IF AnyCollision \/ Restart THEN ClearObstacles ELSE MoveObstacles
             /\ UNCHANGED <<smVars, keycode>>

\* The state machine's asynchronous load races with the combinational
\* next_state, which the same Collision line changes: the load may see the value
\* from before the hit, the default `next_state = state', or the value after it.
LoadOnHit == \E next \in {NextState(FALSE), state, NextState(TRUE)} : SMCollide(next)

\* One ball touches an obstacle.
HitEdge(b) == /\ clocked
              /\ CanTouch(b)
              /\ clocked' = FALSE
              /\ Collision' = OnlyHit(b)
              /\ ClearObstacles
              /\ LoadOnHit
              /\ UNCHANGED keycode

\* Both balls touch an obstacle at the same frame edge.  Each Collision line
\* clears the other ball, so one of them survives or both fall again at once;
\* in every case the obstacles and the state machine have seen a rising line.
DoubleHitEdge == /\ clocked
                 /\ \A b \in Ball : CanTouch(b)
                 /\ clocked' = FALSE
                 /\ Collision' \in {OnlyHit(0), OnlyHit(1), NoHit}
                 /\ ClearObstacles
                 /\ LoadOnHit
                 /\ UNCHANGED keycode

\* The Reset button clears everything but the blinking registers, at any time.
ResetButton == /\ SMReset
               /\ Collision' = NoHit
               /\ ClearObstacles
               /\ clocked' = FALSE
               /\ UNCHANGED keycode

\* The USB host software writes the key code register.
KeyChange == /\ keycode' \in Keys \ {keycode}
             /\ UNCHANGED <<smVars, Collision, end_level, Y, clocked>>

Next == \/ ClkEdge
        \/ FrameEdge
        \/ \E b \in Ball : HitEdge(b)
        \/ DoubleHitEdge
        \/ ResetButton
        \/ KeyChange

Spec == Init /\ [][Next]_vars

\* Both clocks keep running: every frame edge that can come does come, as a hit
\* or not, and so does every clock edge.
AnyFrameEdge == FrameEdge \/ DoubleHitEdge \/ \E b \in Ball : HitEdge(b)
Fairness == WF_vars(ClkEdge) /\ WF_vars(AnyFrameEdge)
FairSpec == Spec /\ Fairness

-----------------------------------------------------------------------------
(* Safety.                                                                 *)

\* Every register holds a value of its type: state an enumeration literal,
\* heights at most one step below the screen.
TypeOK == /\ state \in States
          /\ counter \in 0 .. ClksPerSecond
          /\ seconds \in Nat
          /\ hidden \in BOOLEAN /\ hidden_counter \in 0 .. ClksPerBlink
          /\ pstart \in BOOLEAN /\ pstart_counter \in 0 .. ClksPerSecond
          /\ Collision \in [Ball -> BOOLEAN]
          /\ Y \in [Obstacle -> 0 .. YMax + 3]
          /\ end_level \in [Obstacle -> BOOLEAN]
          /\ keycode \in Keys
          /\ clocked \in BOOLEAN

\* An obstacle that is not ready is not drawn (Color_Mapper.sv:408, 450), but the
\* balls would still hit it: it must be parked at the top or be below the screen.
\* block.sv:49 freezes an obstacle wherever it is when its ready line drops.
NoInvisibleObstacle ==
  \A i \in Obstacle : ~Ready(i) => Y[i] = 0 \/ OffScreen(Y[i])

\* Within a level no obstacle overtakes one released before it, so the last one
\* is the last to leave: the state machine waits for that one alone
\* (block_SM.sv:142, 202, 276).
InReleaseOrder ==
  \A i, j \in Obstacle : i < j /\ Level(i) = Level(j) => Y[i] >= Y[j] \/ OffScreen(Y[i])

\* A timed state leaves on seconds = Expiry, an equality: were seconds ever
\* beyond it, the game would hang there until Reset (block_SM.sv:80-285).
NoOvershoot == Timed(state) => seconds <= Expiry(state)

\* However the race between a hit and the combinational next_state ends, the
\* first clock edge under a high Collision line puts the machine at the start of
\* a level with its timer at zero, while the obstacles are still held clear.
HitRestartsLevel ==
  AnyCollision => /\ seconds = 0
                  /\ \A i \in Obstacle : Y[i] = 0
                  /\ clocked => \E l \in 1 .. 3 : state = LevelStart(l)

\* The last obstacle's end_level is never left over from an earlier attempt or
\* an earlier game: whenever it is up, the obstacle really is off the screen.
EndLevelIsFresh == \A i \in Obstacle : end_level[i] => OffScreen(Y[i])

-----------------------------------------------------------------------------
(* The game implements its abstract rules.                                 *)

levelNow == IF state = RESET THEN 0
            ELSE IF state = WIN THEN 4
            ELSE IF state = LEVEL1 THEN 1
            ELSE IF state \in {MID1TO2, LEVEL2} THEN 2
            ELSE IF state \in {MID2TOFINAL, FINAL} THEN 3
            ELSE Level(Released(state))

\* The obstacles before a level's first one.
Before(l) == IF l = 1 THEN 0 ELSE IF l = 2 THEN N ELSE 2 * N

\* The obstacles of the level that are off the screen, numbered from 1 to N.
fallenNow == IF levelNow \in 1 .. 3
             THEN {n \in 1 .. N : OffScreen(Y[Before(levelNow) + n])}
             ELSE {}

Rules == INSTANCE LevelGame WITH level <- levelNow, fallen <- fallenNow

\* Levels are passed in order and only after all their obstacles have fallen in
\* one attempt; a hit costs the attempt and never the level.
PlaysByTheRules == Rules!Spec

-----------------------------------------------------------------------------
(* Liveness, under FairSpec.                                               *)

\* The winning screen does not stay: it returns to the title.
WinEnds == state = WIN ~> state = RESET

\* A player who is no longer hit and leaves the Reset button alone wins: no
\* timer, pause or closing state can hold the game for ever.
Untouched == <>[][~\E b \in Ball : HitEdge(b)]_vars /\ <>[][~DoubleHitEdge]_vars
             /\ <>[][~ResetButton]_vars
SurvivorWins == Untouched => (state # RESET ~> state = WIN)

=============================================================================
