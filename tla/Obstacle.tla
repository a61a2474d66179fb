------------------------------ MODULE Obstacle ------------------------------
(***************************************************************************)
(* One falling obstacle, src/block.sv.  It keeps two registers the rest of *)
(* the game reads: its height Y (Block_Y_Pos, 0 at the top of the screen)  *)
(* and end_level, set once it has been seen below the screen.  The code    *)
(* instantiates it thirty times; module Duet holds them as functions.      *)
(*                                                                         *)
(*   YMax   Block_Y_Max, 479 in the code                                   *)
(*                                                                         *)
(* Block_Y_Pos has ten bits; it stops at the first multiple of its step    *)
(* above YMax, 480 for each step the code uses, so it never wraps.         *)
(***************************************************************************)
EXTENDS Integers

CONSTANT YMax

ASSUME YMaxAssumption == YMax \in Nat /\ YMax > 0

\* Below the screen (block.sv:49 and 51).
OffScreen(y) == y > YMax

\* Block_Y_Step is 1, 2 and 3 for the obstacles of levels 1, 2 and 3
\* (FinalProject.sv:174-205).
StepOf(level) == level

\* Faulty variant: an obstacle does not stop below the screen.
FallenToForever(y, ready, step) == IF ready THEN y + step ELSE y

\* The height after a rising edge of frame_clk.
FallenTo(y, ready, step) == IF OffScreen(y) \/ ~ready THEN y ELSE y + step

\* Faulty variant: only an obstacle that is not ready reports that it is gone.
EndAfterParked(y, ended, ready) == ~ready /\ (OffScreen(y) \/ ended)

\* end_level after the same edge: kept by an obstacle that waits on the screen.
EndAfter(y, ended, ready) == OffScreen(y) \/ (~ready /\ ended)

\* The asynchronous clear by Reset, restart or a Collision line.
ClearedY   == 0
ClearedEnd == FALSE

=============================================================================
