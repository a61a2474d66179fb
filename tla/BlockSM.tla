------------------------------ MODULE BlockSM ------------------------------
(***************************************************************************)
(* The game state machine, src/block_SM.sv.                                *)
(*                                                                         *)
(* The register `state' holds the position of its enumeration literal      *)
(* (block_SM.sv:10-11): seven named states, then one BLOCKk state for each *)
(* of the obstacles, N per level.  The code has N = 10.  Three events      *)
(* change the registers: the 50 MHz clock edge, the Reset button and the   *)
(* asynchronous set of a Collision line; each is an operator here, and     *)
(* module Duet makes actions of them.                                      *)
(*                                                                         *)
(* Constants that scale the code's literals:                               *)
(*   N              10         obstacles per level                         *)
(*   ClksPerSecond  50000000   the value at which counter wraps            *)
(*   ClksPerBlink   25000000   the value at which hidden_counter wraps     *)
(***************************************************************************)
EXTENDS Integers

CONSTANTS N, ClksPerSecond, ClksPerBlink

ASSUME NAssumption == N \in Nat /\ N >= 2
ASSUME ClksAssumption == ClksPerSecond \in Nat /\ ClksPerBlink \in Nat

VARIABLES
  state,            \* the enumerated state
  counter,          \* clock edges in the current second
  seconds,          \* seconds spent towards the next transition
  hidden,           \* blanks part of the last level's obstacles
  hidden_counter,
  pstart,           \* blinks the "press start" text
  pstart_counter,
  Collision,        \* input: Collision[b], the hit line of ball b
  end_level,        \* input: end_level[i], obstacle i has left the screen
  keycode           \* input: the key the USB host last reported

smVars == <<state, counter, seconds, hidden, hidden_counter, pstart, pstart_counter>>

-----------------------------------------------------------------------------
(* The states.                                                             *)

RESET       == 0
LEVEL1      == 1
LEVEL2      == 2
FINAL       == 3
WIN         == 4
MID1TO2     == 5
MID2TOFINAL == 6
BLOCK(k)    == 6 + k

Ball      == {0, 1}
Obstacle  == 1 .. 3 * N
States    == 0 .. BLOCK(3 * N)

\* The level an obstacle belongs to: N for each of the three.
Level(i) == IF i <= N THEN 1 ELSE IF i <= 2 * N THEN 2 ELSE 3

\* The states in which obstacles fall, and the obstacle released last in one.
Falling(s)  == s > MID2TOFINAL
Released(s) == s - MID2TOFINAL

\* The BLOCKk states that wait for their last obstacle instead of the clock:
\* BLOCK10, BLOCK20 and BLOCK30.
Closing(s)  == s \in {BLOCK(N), BLOCK(2 * N), BLOCK(3 * N)}

\* Faulty variant: the last level copies the restart of the second.
LevelStartCopied(l) == IF l = 1 THEN BLOCK(1) ELSE LEVEL2

\* Where a hit sends a level: its first obstacle in level 1, the pause that
\* precedes the first obstacle in the other two.
LevelStart(l) == IF l = 1 THEN BLOCK(1) ELSE IF l = 2 THEN LEVEL2 ELSE FINAL

\* Where a level leads when it is over.
LevelExit(l) == IF l = 1 THEN MID1TO2 ELSE IF l = 2 THEN MID2TOFINAL ELSE WIN

\* The state that follows, when its condition comes true.
Following(s) ==
  CASE s = RESET       -> LEVEL1
    [] s = LEVEL1      -> BLOCK(1)
    [] s = MID1TO2     -> LEVEL2
    [] s = LEVEL2      -> BLOCK(N + 1)
    [] s = MID2TOFINAL -> FINAL
    [] s = FINAL       -> BLOCK(2 * N + 1)
    [] s = WIN         -> RESET
    [] Closing(s)      -> LevelExit(Level(Released(s)))
    [] OTHER           -> s + 1

\* The value of seconds that ends a timed state.
Expiry(s) ==
  CASE s = LEVEL1                    -> 1
    [] s \in {MID1TO2, MID2TOFINAL}  -> 3
    [] s \in {LEVEL2, FINAL, WIN}    -> 5
    [] OTHER -> LET k == Released(s)
                IN  CASE Level(k) = 1 -> 2 * k + 1
                      [] Level(k) = 2 -> 5 + (k - N)
                      [] Level(k) = 3 -> 5 + (k - 2 * N)

Timed(s) == s # RESET /\ ~Closing(s)

-----------------------------------------------------------------------------
(* The combinational outputs (block_SM.sv:73-285 and 287-543).             *)

AnyCollision == \E b \in Ball : Collision[b]

StartKey == 40

\* Faulty variant: a level is over when its first obstacle has left the screen.
DoneWithFirst == \/ state = RESET /\ keycode = StartKey
                 \/ Timed(state) /\ seconds = Expiry(state)
                 \/ Closing(state) /\ end_level[Released(state) - N + 1]

\* What ends the present state when no Collision line is high.
Done == \/ state = RESET /\ keycode = StartKey
        \/ Timed(state) /\ seconds = Expiry(state)
        \/ Closing(state) /\ end_level[Released(state)]

\* next_state, when the Collision lines read `hit'.
NextState(hit) == IF hit /\ Falling(state) THEN LevelStart(Level(Released(state)))
                  ELSE IF Done THEN Following(state)
                  ELSE state

\* Faulty variant: only the newest obstacle is ready.
ReadyNewest(i) == Falling(state) /\ i = Released(state)

\* block_ready and rect_ready: the obstacles of the current level released so far.
Ready(i) == /\ Falling(state)
            /\ i <= Released(state)
            /\ Level(i) = Level(Released(state))

\* restart: high in RESET, it keeps every obstacle cleared.
Restart == state = RESET

-----------------------------------------------------------------------------
(* The clocked registers (block_SM.sv:18-71).                              *)

SMInit == /\ state = RESET
          /\ counter = 0 /\ seconds = 0
          /\ hidden = FALSE /\ hidden_counter = 0
          /\ pstart = FALSE /\ pstart_counter = 0

\* The second branch of the always_ff: a Collision line is high.  `next' is the
\* value next_state has when the branch runs.
SMCollide(next) ==
  /\ state' = next
  /\ counter' = 0
  /\ seconds' = 0
  /\ UNCHANGED <<hidden, hidden_counter, pstart, pstart_counter>>

\* hidden_counter is cleared in FINAL and then overwritten by the assignment
\* that follows; hidden is cleared in FINAL except at the wrap.
Blink ==
  IF hidden_counter = ClksPerBlink
  THEN hidden' = ~hidden /\ hidden_counter' = 0
  ELSE /\ hidden' = (hidden /\ state # FINAL)
       /\ hidden_counter' = hidden_counter + 1

\* Faulty variant: the timer runs on in the closing states.
CountSecondsAlways ==
  IF state = RESET
  THEN counter' = 0 /\ seconds' = 0
  ELSE IF counter = ClksPerSecond
       THEN counter' = 0 /\ seconds' = seconds + 1
       ELSE counter' = counter + 1 /\ UNCHANGED seconds

\* Faulty variant: the timer is held in the winning state too.
CountSecondsNotInWin ==
  IF Closing(state) \/ state \in {RESET, WIN}
  THEN counter' = 0 /\ seconds' = 0
  ELSE IF counter = ClksPerSecond
       THEN counter' = 0 /\ seconds' = seconds + 1
       ELSE counter' = counter + 1 /\ UNCHANGED seconds

\* The seconds timer.  It is held at zero in RESET and in the closing states.
CountSeconds ==
  IF Closing(state) \/ state = RESET
  THEN counter' = 0 /\ seconds' = 0
  ELSE IF counter = ClksPerSecond
       THEN counter' = 0 /\ seconds' = seconds + 1
       ELSE counter' = counter + 1 /\ UNCHANGED seconds

\* The title screen's blinking text runs in RESET only.
BlinkStart ==
  IF state # RESET
  THEN UNCHANGED <<pstart, pstart_counter>>
  ELSE IF pstart_counter = ClksPerSecond
       THEN pstart' = ~pstart /\ pstart_counter' = 0
       ELSE pstart_counter' = pstart_counter + 1 /\ UNCHANGED pstart

\* The third branch: an ordinary clock edge.
SMCount == /\ state' = NextState(FALSE)
           /\ Blink
           /\ CountSeconds
           /\ BlinkStart

\* Faulty variant: the clock edge ignores the Collision lines.
SMClkDeaf == SMCount

\* A rising edge of Clk.
SMClk == IF AnyCollision THEN SMCollide(NextState(TRUE)) ELSE SMCount

\* The first branch: the Reset button.
SMReset == /\ state' = RESET
           /\ counter' = 0
           /\ seconds' = 0
           /\ UNCHANGED <<hidden, hidden_counter, pstart, pstart_counter>>

=============================================================================
