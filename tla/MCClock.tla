------------------------------ MODULE MCClock ------------------------------
(* The system clock with a counter of a few ticks, for TLC.                *)
EXTENDS SysClock

CONSTANTS a, b, c

AllDelays  == 0 .. Word - 2
AllPeriods == 0 .. Word - 1

\* One that the clock can already have passed, and one it has not.
SomeTimes == {[sec |-> 0, usec |-> 1], [sec |-> 2, usec |-> 4]}
=============================================================================
