------------------------------ MODULE LevelGame ------------------------------
(***************************************************************************)
(* What the game promises, without clocks, timers or heights: three levels *)
(* are played in order; a level is passed only when every one of its       *)
(* obstacles has fallen off the screen in the same attempt, in the order   *)
(* of their release; a hit makes the attempt start again in the same       *)
(* level, and only the Reset button or the end of the winning screen goes  *)
(* back to the title.                                                      *)
(***************************************************************************)
EXTENDS Integers

CONSTANT N                  \* obstacles per level

VARIABLES level,            \* 0 the title, 1 to 3 the levels, 4 the winning screen
          fallen            \* the obstacles of the level that have fallen, 1 .. N

vars == <<level, fallen>>

\* The obstacles of a level fall in the order of their release, perhaps several
\* at once: those fallen are the first few.
InOrder(f) == \A m \in f, n \in 1 .. N : n < m => n \in f

Init == level = 0 /\ fallen = {}

Start == level = 0 /\ level' = 1 /\ fallen' = {}

Fall == /\ level \in 1 .. 3
        /\ fallen' \in SUBSET (1 .. N)
        /\ fallen \subseteq fallen' /\ InOrder(fallen')
        /\ UNCHANGED level

\* Only a level that still has obstacles to come can be lost.
Hit == /\ level \in 1 .. 3
       /\ fallen # 1 .. N
       /\ fallen' = {}
       /\ UNCHANGED level

Pass == /\ level \in 1 .. 3
        /\ fallen = 1 .. N
        /\ level' = level + 1
        /\ fallen' = {}

BackToTitle == level = 4 /\ level' = 0 /\ fallen' = {}

ResetButton == level' = 0 /\ fallen' = {}

Next == Start \/ Fall \/ Hit \/ Pass \/ BackToTitle \/ ResetButton

Spec == Init /\ [][Next]_vars

=============================================================================
