----------------------------- MODULE Countdown -----------------------------
(***************************************************************************)
(* What the alarms of the HAL promise: an alarm goes off exactly the       *)
(* number of ticks after it was set that was asked for, and no tick comes  *)
(* while one is still to go off.                                           *)
(*                                                                         *)
(* SysClock implements it with a list of alarms and a counter that rolls   *)
(* over.                                                                   *)
(***************************************************************************)
EXTENDS Naturals

CONSTANTS Alarm, Off, Longest

VARIABLE left  \* the ticks until each alarm goes off, or Off

Init == left = [a \in Alarm |-> Off]

Set(a) == /\ left[a] = Off
          /\ \E n \in 1 .. Longest : left' = [left EXCEPT ![a] = n]

Cancel(a) == left' = [left EXCEPT ![a] = Off]

\* It goes off, and is set again or not.
GoOff(a) == /\ left[a] = 0
            /\ \E n \in 1 .. Longest \cup {Off} : left' = [left EXCEPT ![a] = n]

Tick == /\ \A a \in Alarm : left[a] # 0
        /\ left' = [a \in Alarm |-> IF left[a] = Off THEN Off ELSE left[a] - 1]

Next == Tick \/ \E a \in Alarm : Set(a) \/ Cancel(a) \/ GoOff(a)

Spec == Init /\ [][Next]_left

=============================================================================
