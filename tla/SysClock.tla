------------------------------ MODULE SysClock ------------------------------
(***************************************************************************)
(* The system clock of the HAL: the alarms (HAL/src/alt_tick.c,            *)
(* alt_alarm_start.c, HAL/inc/sys/alt_llist.h) and the time of day         *)
(* (HAL/src/alt_gettod.c, alt_settod.c).                                   *)
(*                                                                         *)
(* The driver of a timer calls alt_tick from its interrupt routine.  It    *)
(* counts, walks the list of alarms and calls those back that are due; a   *)
(* callback may start and stop alarms.  The program does so with           *)
(* interrupts off, so each of its calls is one step between two ticks.     *)
(* (This board has no timer: alt_ticks_per_second() is 0 there and both    *)
(* alt_alarm_start and the time of day fail.  The module is the code on a  *)
(* board that has one.)                                                    *)
(*                                                                         *)
(*   Word     2^32                                                         *)
(*   Delays   what alt_alarm_start is given.  With Word - 1 the time wraps *)
(*            to the present one and the alarm goes off at the next tick   *)
(*   Periods  what callbacks return, 0 for no further call                 *)
(*   Rate     alt_ticks_per_second(); it need not divide US                *)
(*   US       ALT_US, 1000000                                              *)
(*   Times    bound: the times of day that are set                         *)
(***************************************************************************)
EXTENDS Integers

CONSTANTS Alarm, Head, Null, Off, Word, Delays, Periods, Rate, US, Times

ASSUME NodeAssumption == Head \notin Alarm /\ Null \notin Alarm \cup {Head}
ASSUME WordAssumption == Word \in Nat /\ Word >= 2
ASSUME DelayAssumption == Delays \subseteq 0 .. Word - 2 /\ Periods \subseteq 0 .. Word - 1
ASSUME OffAssumption == Off \notin Nat
ASSUME RateAssumption == Rate \in Nat \ {0} /\ US \in Nat \ {0}
ASSUME TimesAssumption == \A t \in Times : t.sec \in Nat /\ t.usec \in 0 .. US - 1

VARIABLES
  nticks,          \* _alt_nticks
  next, previous,  \* the links of each alarm and of alt_alarm_list, which is Head
  time, rollover,  \* of each alarm
  alarm,           \* where alt_tick is, Head when it is not running
  succ,            \* the next alarm, kept while a callback runs, or else Null
  resettime        \* alt_resettime

links == <<next, previous>>
vars  == <<nticks, links, time, rollover, alarm, succ, resettime>>

Node == Alarm \cup {Head}

-----------------------------------------------------------------------------
(* The list.                                                               *)

\* Faulty variant: the first entry is not told of the new one before it.
InsertOneWay(e) == /\ next' = [next EXCEPT ![e] = next[Head], ![Head] = e]
                   /\ previous' = [previous EXCEPT ![e] = Head]

\* alt_llist_insert, always behind the head.
Insert(e) == /\ next' = [next EXCEPT ![e] = next[Head], ![Head] = e]
             /\ previous' = [previous EXCEPT ![e] = Head, ![next[Head]] = e]

\* alt_llist_remove; an entry that is not in the list points to itself.
Remove(e) == /\ next' = [next EXCEPT ![previous[e]] = next[e], ![e] = e]
             /\ previous' = [previous EXCEPT ![next[e]] = previous[e], ![e] = e]

Started(a) == next[a] # Null
Listed(a)  == next[a] \notin {a, Null}

-----------------------------------------------------------------------------
(* Starting and stopping, by the program or by a callback.                 *)

\* Faulty variant: the flag is left out.
SetAlarmNoWrap(a, t) == /\ time' = [time EXCEPT ![a] = t % Word]
                        /\ rollover' = [rollover EXCEPT ![a] = FALSE]

\* The time, and whether the counter has to roll over before.
SetAlarm(a, t) == /\ time' = [time EXCEPT ![a] = t % Word]
                  /\ rollover' = [rollover EXCEPT ![a] = t % Word < nticks]

\* alt_alarm_start, of an alarm that is not running.
Start(a) == /\ ~Listed(a)
            /\ \E n \in Delays : SetAlarm(a, n + nticks + 1)
            /\ Insert(a)
            /\ UNCHANGED <<nticks, alarm, succ, resettime>>

\* alt_alarm_stop, of an alarm that was started before.
Stop(a) == /\ Started(a)
           /\ Remove(a)
           /\ UNCHANGED <<nticks, time, rollover, alarm, succ, resettime>>

-----------------------------------------------------------------------------
(* alt_tick.                                                               *)

Tick == /\ alarm = Head
        /\ nticks' = (nticks + 1) % Word
        /\ alarm' = next[Head]
        /\ UNCHANGED <<links, time, rollover, succ, resettime>>

\* One round of the loop, as far as the callback.
Visit == /\ alarm # Head /\ succ = Null
         /\ rollover' = [rollover EXCEPT ![alarm] = @ /\ nticks # 0]
         /\ IF time[alarm] <= nticks /\ ~rollover'[alarm]
            THEN succ' = next[alarm] /\ UNCHANGED alarm
            ELSE alarm' = next[alarm] /\ UNCHANGED succ
         /\ UNCHANGED <<nticks, links, time, resettime>>

\* The callback starts and stops other alarms; it may stop its own.
Callback == /\ succ # Null
            /\ \/ \E a \in Alarm \ {alarm} : Start(a)
               \/ \E a \in Alarm : Stop(a)

\* Faulty variant: the next alarm is taken from the one that was called back.
ReturnFromList ==
  /\ succ # Null /\ succ' = Null /\ alarm' = next[alarm]
  /\ \E p \in Periods :
       IF p = 0
       THEN Remove(alarm) /\ UNCHANGED <<time, rollover>>
       ELSE /\ time' = [time EXCEPT ![alarm] = (@ + p) % Word]
            /\ rollover' = [rollover EXCEPT ![alarm] = @ \/ (time[alarm] + p) % Word < nticks]
            /\ UNCHANGED links
  /\ UNCHANGED <<nticks, resettime>>

\* It returns, and the loop goes on.
Return == /\ succ # Null /\ succ' = Null /\ alarm' = succ
          /\ \E p \in Periods :
               IF p = 0
               THEN Remove(alarm) /\ UNCHANGED <<time, rollover>>
               ELSE /\ time' = [time EXCEPT ![alarm] = (@ + p) % Word]
                    /\ rollover' = [rollover EXCEPT ![alarm] =
                                      @ \/ (time[alarm] + p) % Word < nticks]
                    /\ UNCHANGED links
          /\ UNCHANGED <<nticks, resettime>>

-----------------------------------------------------------------------------
(* The time of day.                                                        *)

\* The part of a second since the last whole one, of a product in 64 bits.
Fraction == (nticks * (US \div Rate)) % US

\* Faulty variant: a full second of microseconds is taken off but not carried.
TimeOfDayNoCarry ==
  LET sec  == resettime.sec + nticks \div Rate
      usec == resettime.usec + Fraction
  IN  IF usec >= US THEN [sec |-> sec, usec |-> usec - US]
      ELSE IF usec >= 0 THEN [sec |-> sec, usec |-> usec]
      ELSE IF sec > 0 THEN [sec |-> sec - 1, usec |-> usec + US]
      ELSE [sec |-> 0, usec |-> 0]

\* gettimeofday.
TimeOfDay ==
  LET sec  == resettime.sec + nticks \div Rate
      usec == resettime.usec + Fraction
  IN  IF usec >= US THEN [sec |-> sec + 1, usec |-> usec - US]
      ELSE IF usec >= 0 THEN [sec |-> sec, usec |-> usec]
      ELSE IF sec > 0 THEN [sec |-> sec - 1, usec |-> usec + US]
      ELSE [sec |-> 0, usec |-> 0]

\* settimeofday; its product has 32 bits.
SetTimeOfDay(t) ==
  /\ resettime' = [sec  |-> t.sec - nticks \div Rate,
                   usec |-> t.usec - (((nticks * (US \div Rate)) % Word) % US)]
  /\ UNCHANGED <<nticks, links, time, rollover, alarm, succ>>

Program == /\ alarm = Head
           /\ \/ \E a \in Alarm : Start(a) \/ Stop(a)
              \/ \E t \in Times : SetTimeOfDay(t)

-----------------------------------------------------------------------------
Init == /\ nticks = 0
        /\ next = [n \in Node |-> IF n = Head THEN Head ELSE Null]
        /\ previous = [n \in Node |-> IF n = Head THEN Head ELSE Null]
        /\ time = [a \in Alarm |-> 0] /\ rollover = [a \in Alarm |-> FALSE]
        /\ alarm = Head /\ succ = Null
        /\ resettime = [sec |-> 0, usec |-> 0]

Next == Program \/ Tick \/ Visit \/ Callback \/ Return

Spec == Init /\ [][Next]_vars

\* The processor runs, and callbacks return.
FairSpec == Spec /\ WF_vars(Visit) /\ WF_vars(Return)

-----------------------------------------------------------------------------
\* The types.
TypeOK == /\ nticks \in 0 .. Word - 1
          /\ next \in [Node -> Node \cup {Null}] /\ previous \in [Node -> Node \cup {Null}]
          /\ time \in [Alarm -> 0 .. Word - 1] /\ rollover \in [Alarm -> BOOLEAN]
          /\ alarm \in Node /\ succ \in Node \cup {Null}
          /\ resettime \in [sec : Int, usec : Int]

\* Whatever callbacks start and stop while the list is walked, its links agree in both
\* directions.
WellLinked == \A n \in Node : Started(n) => /\ next[n] \in Node /\ previous[n] \in Node
                                            /\ previous[next[n]] = n /\ next[previous[n]] = n

\* And it is one list: whatever set of nodes the links of a listed one stay in, the head
\* is in it, so every walk that begins in the list comes back to the head.
HeadReached == \A S \in SUBSET Node :
                 (\E n \in S : n = Head \/ Listed(n)) /\ (\A n \in S : next[n] \in S)
                 => Head \in S

\* The alarm list is one ring of its entries, linked the same way in both directions.
OneList == WellLinked /\ HeadReached

\* The callback of an alarm has stopped the one that is up next.  That one points to
\* itself now, and alt_tick will not get past it.
NextStopped == succ \notin {Null, Head} /\ ~Listed(succ)

\* If no callback ever does that, every run of alt_tick comes to an end, whatever else
\* callbacks start and stop.
TickEnds == []~NextStopped => (alarm # Head ~> alarm = Head)

\* The ticks an alarm has left.  Its flag is cleared only when the walk comes to it.
Left(a) == IF ~Listed(a) THEN Off
           ELSE IF rollover[a] /\ nticks # 0 THEN time[a] + Word - nticks
           ELSE time[a] - nticks

\* Every alarm goes off after the ticks it was set to, across the roll-over of the
\* counter, and no walk misses one.
Promise == INSTANCE Countdown WITH Longest <- Word - 1, left <- [a \in Alarm |-> Left(a)]
ImplementsCountdown == Promise!Spec

\* A tick at which the microseconds, counted by the truncated US \div Rate, pass a whole
\* second while the seconds, counted by the ticks, do not.  There is none if the rate
\* divides US; at 1024 ticks a second the time goes from 1.999424 to 1.000400.
Slips == /\ nticks' \div Rate = nticks \div Rate
         /\ (nticks' * (US \div Rate)) \div US # (nticks * (US \div Rate)) \div US

\* From one tick to the next the time of day does not go back, whatever it was set to,
\* until the counter rolls over and the seconds come out negative; only at a tick that
\* slips does it, by no more than a second.
Earlier(s, t) == s.sec < t.sec \/ (s.sec = t.sec /\ s.usec <= t.usec)
GoesForward == [][nticks' = nticks + 1 /\ resettime.sec + nticks \div Rate >= 0
                  => \/ Earlier(TimeOfDay, TimeOfDay')
                     \/ Slips /\ Earlier(TimeOfDay, [TimeOfDay' EXCEPT !.sec = @ + 1])]_vars

\* "so that an immediate call to gettimeofday() would return the value specified by t"
\* (alt_settod.c).
SetThenGet == [][\A t \in Times : SetTimeOfDay(t) => TimeOfDay' = t]_vars

=============================================================================
