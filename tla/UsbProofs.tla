----------------------------- MODULE UsbProofs -----------------------------
(***************************************************************************)
(* The program is never more than one request ahead of the keyboard, for   *)
(* any number of requests.                                                 *)
(*                                                                         *)
(* The invariant says why: the controller is at the present request or, as *)
(* long as the control byte has not been marked clean, still at the one    *)
(* before, and what marks it clean is the carrying out of one of the two.  *)
(* A step that passes the check leaves at most its own request running.    *)
(*                                                                         *)
(* The wait in UsbGetRetryCnt, once reached, never ends.                   *)
(***************************************************************************)
EXTENDS UsbHost, TLAPS

USE RequestsAssumption, UsbKeysAssumption

Gone == dev \in {Absent, Powered}

\* The program has written its present request.
UnderWay == pc \in {"start", "wait", "read", "clear", "check", "retry", "retryclear",
                    "retrywait", "decode", "look", "look2", "unplugged"}

CleanMeansDone == UnderWay /\ control = Clean
                  => /\ running \in {0, step}
                     /\ step # Poll => Gone \/ dev >= step - 1

\* What the controller is still at is the present request or the one before.
RunningOrLate == running \in {0, step - 1, step}

\* The control byte is checked in the enumeration only, not in the polls.
NoCheckOfPolls == pc \in {"check", "retry", "retryclear", "retrywait"} => step # Poll

Sequential == TypeOK /\ OneAhead /\ CleanMeansDone /\ RunningOrLate /\ NoCheckOfPolls

\* The abbreviations of the model that every step needs.
LEMMA Marks == /\ Absent = -2 /\ Powered = -1 /\ Poll = Requests + 1
               /\ Active = 19 /\ Clean = 3 /\ Retried = 2 /\ Done = 1
BY DEF Absent, Powered, Poll, Active, Clean, Retried, Done

\* Before the first reset nothing has been sent.
LEMMA SequentialInit == Init => Sequential
<1> SUFFICES ASSUME Init PROVE Sequential
  OBVIOUS
<1>1. TypeOK
  <2>1. step \in 1 .. Poll /\ running \in 0 .. Poll
    BY Marks DEF Init
  <2>2. pc \in Labels
    BY DEF Init, Labels
  <2>3. dev \in {Absent, Powered}
    BY DEF Init
  <2> QED  BY <2>1, <2>2, <2>3 DEF Init, TypeOK
<1>2. OneAhead /\ CleanMeansDone /\ NoCheckOfPolls /\ RunningOrLate
  BY DEF Init, OneAhead, CleanMeansDone, UnderWay, NoCheckOfPolls, RunningOrLate
<1> QED  BY <1>1, <1>2 DEF Sequential

-----------------------------------------------------------------------------
\* The initialisation forgets the request and the keyboard starts anew.
LEMMA HotPlugSequential == ASSUME Sequential, HotPlug \/ HotPlugAgain PROVE Sequential'
<1>1. /\ pc' \in {"hotplug", "present"} /\ (pc' = "present" => step' = 1)
      /\ step' \in {step, 1} /\ running' = 0 /\ dev' \in {dev, 0}
  BY DEF HotPlug, HotPlugAgain, host
<1>2. TypeOK'
  <2>1. pc' \in Labels /\ step' \in 1 .. Poll /\ dev' \in {Absent, Powered} \cup 0 .. Requests
    BY <1>1, Marks DEF Sequential, TypeOK, Labels
  <2>2. /\ got' = got /\ keycode' = keycode /\ running' = 0 /\ msg' = 0 /\ flag' = FALSE
        /\ UNCHANGED <<control, buffer, pressed, report>>
    BY DEF HotPlug, HotPlugAgain, host
  <2>3. TypeOK
    BY DEF Sequential
  <2>4. 0 \in 0 .. Poll
    BY Marks
  <2> QED  BY <2>1, <2>2, <2>3, <2>4, Zenon DEF TypeOK
<1>3. OneAhead'
  <2>1. dev' \in {Absent, Powered} \/ dev' \in 0 .. Requests
    BY <1>2 DEF TypeOK
  <2>2. CASE pc' = "hotplug"
    BY <2>2 DEF OneAhead
  <2>3. CASE pc' = "present"
    BY <1>1, <2>1, <2>3 DEF OneAhead
  <2> QED  BY <1>1, <2>2, <2>3
<1>4. CleanMeansDone' /\ NoCheckOfPolls' /\ RunningOrLate'
  BY <1>1 DEF CleanMeansDone, UnderWay, NoCheckOfPolls, RunningOrLate
<1> QED  BY <1>2, <1>3, <1>4 DEF Sequential

\* Writing the present request makes the control byte unclean; what is still running
\* goes on or becomes the present request.
LEMMA SendSequential == ASSUME Sequential, Send \/ Start PROVE Sequential'
<1> USE Marks DEF Sequential, TypeOK, Labels, OneAhead, CleanMeansDone, UnderWay, Gone,
                  NoCheckOfPolls, RunningOrLate, Goto, keyboard
<1>1. CASE Send
  BY <1>1 DEF Send
<1>2. CASE Start
  BY <1>2 DEF Start
<1> QED  BY <1>1, <1>2

\* The check alone moves to the next request, and only past a clean control byte.
LEMMA CheckSequential == ASSUME Sequential, Check PROVE Sequential'
<1> USE Marks DEF Sequential, TypeOK, Labels, OneAhead, CleanMeansDone, UnderWay, Gone,
                  NoCheckOfPolls, RunningOrLate, Check, Goto, chip, keyboard
<1>1. CASE control = Clean
  <2>1. step # Poll /\ (Gone \/ dev >= step - 1) /\ running \in {0, step}
    BY <1>1
  <2> QED  BY <1>1, <2>1
<1>2. CASE control # Clean
  BY <1>2
<1> QED  BY <1>1, <1>2

\* The program's other steps only move it on.
LEMMA MoveSequential ==
  ASSUME Sequential, Present \/ Wait \/ ReadMsg \/ ClearMsg \/ Retry \/ Decode \/ Look
  PROVE  Sequential'
<1> USE Marks DEF Sequential, TypeOK, Labels, OneAhead, CleanMeansDone, UnderWay, Gone,
                  NoCheckOfPolls, RunningOrLate, Goto, chip, keyboard
<1>1. CASE Present
  BY <1>1 DEF Present
<1>2. CASE Wait
  BY <1>2 DEF Wait
<1>3. CASE ReadMsg
  BY <1>3 DEF ReadMsg
<1>4. CASE ClearMsg
  BY <1>4 DEF ClearMsg
<1>5. CASE Retry
  <2>1. /\ pc \in {"retry", "retryclear"}
        /\ pc' \in {"retryclear", "retrywait", "hotplug", "check"}
        /\ UNCHANGED <<step, got, keycode, control, running, buffer, keyboard>>
        /\ msg' \in {msg, 0} /\ flag' \in {flag, FALSE}
    BY <1>5 DEF Retry, AfterRetry
  <2>2. TypeOK'
    <3>1. pc' \in Labels /\ msg' \in {0, Done} /\ flag' \in BOOLEAN
      BY <2>1
    <3>2. TypeOK /\ UNCHANGED <<dev, pressed, report>>
      BY <2>1
    <3> QED  BY <2>1, <3>1, <3>2, Zenon
  <2>3. OneAhead' /\ RunningOrLate'
    BY <2>1
  <2>4. CleanMeansDone' /\ NoCheckOfPolls'
    BY <2>1
  <2> QED  BY <2>2, <2>3, <2>4
<1>6. CASE Decode
  BY <1>6 DEF Decode
<1>7. CASE Look
  BY <1>7 DEF Look
<1> QED  BY <1>1, <1>2, <1>3, <1>4, <1>5, <1>6, <1>7

\* What a step of the controller or of the keyboard must respect: it leaves the
\* program alone, and a clean answer is that of a request carried out.
LEMMA OutsideSequential ==
  ASSUME Sequential, UNCHANGED host, TypeOK', running' \in {0, running},
         Gone' \/ dev' >= dev, Gone => Gone',
         control' # control /\ control' = Clean
           => running' = 0 /\ (step = Poll \/ Gone' \/ dev' >= step - 1)
  PROVE  Sequential'
<1>1. pc' = pc /\ step' = step
  BY DEF host
<1>2. OneAhead'
  BY <1>1, Marks DEF Sequential, TypeOK, OneAhead, Gone
<1>3. UnderWay' = UnderWay
  BY <1>1 DEF UnderWay
<1>4. CleanMeansDone'
  BY <1>1, <1>3, Marks DEF Sequential, TypeOK, CleanMeansDone, Gone
<1>5. NoCheckOfPolls'
  BY <1>1 DEF Sequential, NoCheckOfPolls, Poll
<1>6. RunningOrLate'
  BY <1>1 DEF Sequential, RunningOrLate
<1> QED  BY <1>2, <1>4, <1>5, <1>6 DEF Sequential

LEMMA AnsweredTypes == Answered => /\ running' \in 0 .. Poll /\ msg' \in {0, Done}
                                   /\ flag' \in BOOLEAN
BY Marks DEF Answered

\* The controller answers the present request or the one before.
LEMMA AnswerSequential == ASSUME Sequential, Accept \/ Report \/ Fail PROVE Sequential'
<1>0. /\ running \in {0, step - 1, step} /\ running \in 0 .. Poll /\ step \in 1 .. Poll
      /\ dev \in {-2, -1} \cup 0 .. Requests
  BY Marks DEF Sequential, TypeOK, RunningOrLate
<1>1. CASE Accept
  <2>1. /\ running \in 1 .. Requests /\ dev \in 0 .. Requests
        /\ dev' = IF dev > running THEN dev ELSE running
        /\ UNCHANGED host /\ running' = 0
    BY <1>0, <1>1 DEF Accept, Answered, Later
  <2>2. dev' \in 0 .. Requests /\ dev' >= dev /\ dev' >= step - 1
    BY <1>0, <2>1
  <2>3. TypeOK'
    BY <1>1, <2>1, <2>2, AnsweredTypes DEF Accept, Sequential, TypeOK, host
  <2>4. ~Gone
    BY <2>1, Marks DEF Gone
  <2> QED  BY <2>1, <2>2, <2>3, <2>4, OutsideSequential
<1>2. CASE Report
  <2>1. TypeOK'
    BY <1>2, AnsweredTypes DEF Report, Sequential, TypeOK, host
  <2>2. dev' = dev /\ dev' >= dev /\ UNCHANGED host /\ running' = 0 /\ running = Poll
    BY <1>0, <1>2 DEF Report, Answered
  <2>3. step = Poll
    BY <1>0, <2>2, Marks
  <2> QED  BY <2>1, <2>2, <2>3, OutsideSequential DEF Gone
<1>3. CASE Fail
  <2>1. TypeOK'
    BY <1>3, AnsweredTypes DEF Fail, Sequential, TypeOK, host, keyboard
  <2>2. dev' = dev /\ dev' >= dev /\ control' # Clean /\ UNCHANGED host /\ running' = 0
    BY <1>0, <1>3, Marks DEF Fail, Answered, keyboard
  <2> QED  BY <2>1, <2>2, OutsideSequential DEF Gone
<1> QED  BY <1>1, <1>2, <1>3

\* A keyboard may be pulled out, plugged in or used at any time.
LEMMA PlugSequential == ASSUME Sequential, Unplug \/ Plug \/ Press PROVE Sequential'
<1>1. CASE Unplug
  <2>1. TypeOK'
    BY <1>1, Marks DEF Unplug, Sequential, TypeOK, host, chip
  <2>2. Gone' /\ UNCHANGED <<host, control, running>>
    BY <1>1 DEF Unplug, Gone, chip
  <2> QED  BY <2>1, <2>2, OutsideSequential
<1>2. CASE Plug
  <2>1. TypeOK'
    BY <1>2, Marks DEF Plug, Sequential, TypeOK, host, chip
  <2>2. Gone' /\ UNCHANGED <<host, control, running>>
    BY <1>2 DEF Plug, Gone, chip
  <2> QED  BY <2>1, <2>2, OutsideSequential
<1>3. CASE Press
  <2>1. TypeOK'
    BY <1>3, Marks DEF Press, Sequential, TypeOK, host, chip
  <2>2. dev' = dev /\ dev' >= dev /\ UNCHANGED <<host, control, running>>
    BY <1>3, Marks DEF Press, chip, Sequential, TypeOK
  <2> QED  BY <2>1, <2>2, OutsideSequential DEF Gone
<1> QED  BY <1>1, <1>2, <1>3

-----------------------------------------------------------------------------
\* The invariant is inductive.
LEMMA SequentialNext == Sequential /\ [Next]_vars => Sequential'
<1> SUFFICES ASSUME Sequential, [Next]_vars PROVE Sequential'
  OBVIOUS
<1>1. CASE Program
  BY <1>1, HotPlugSequential, SendSequential, CheckSequential, MoveSequential DEF Program
<1>2. CASE HotPlugAgain
  BY <1>2, HotPlugSequential
<1>3. CASE Accept \/ Report \/ Fail
  BY <1>3, AnswerSequential
<1>4. CASE Unplug \/ Plug \/ Press
  BY <1>4, PlugSequential
<1>5. CASE UNCHANGED vars
  BY <1>5 DEF vars, host, chip, keyboard, Sequential, TypeOK, OneAhead,
              CleanMeansDone, UnderWay, Gone, NoCheckOfPolls, RunningOrLate
<1> QED  BY <1>1, <1>2, <1>3, <1>4, <1>5 DEF Next

\* However requests, their repetitions, late answers, removals and insertions follow
\* each other, the program is at most one request ahead of the keyboard: a request may
\* be passed over, the one after it is not (main.c:164-437, usb.c:533-574).
THEOREM OnlyOneAhead == Spec => [](TypeOK /\ OneAhead)
<1>1. Sequential => TypeOK /\ OneAhead
  BY DEF Sequential
<1> QED  BY <1>1, SequentialInit, SequentialNext, PTL DEF Spec

-----------------------------------------------------------------------------
(* The wait in UsbGetRetryCnt.                                             *)

\* From the clearing of a message to the next sending, a message that is there is
\* the last one; the reading in UsbGetRetryCnt then lowers its flag for good.
LastMessage == /\ pc \in {"check", "retry"} /\ msg = Done => running = 0
               /\ pc \in {"retryclear", "retrywait"} => running = 0 /\ ~flag

\* The program's own steps keep it.
LEMMA ProgramLastMessage == ASSUME LastMessage, Program \/ HotPlugAgain PROVE LastMessage'
<1> USE DEF LastMessage, Goto, host, chip
<1>1. CASE HotPlug \/ HotPlugAgain
  BY <1>1 DEF HotPlug, HotPlugAgain
<1>2. CASE Present \/ Decode \/ Look
  BY <1>2 DEF Present, Decode, Look
<1>3. CASE Send \/ Start \/ Wait \/ ReadMsg
  BY <1>3 DEF Send, Start, Wait, ReadMsg
<1>4. CASE ClearMsg
  BY <1>4, Marks DEF ClearMsg
<1>5. CASE Check
  BY <1>5 DEF Check
<1>6. CASE Retry
  <2>1. CASE pc = "retry"
    BY <1>6, <2>1 DEF Retry, AfterRetry
  <2>2. CASE pc = "retryclear"
    BY <1>6, <2>2 DEF Retry
  <2> QED  BY <1>6, <2>1, <2>2 DEF Retry
<1> QED  BY <1>1, <1>2, <1>3, <1>4, <1>5, <1>6 DEF Program

\* A controller that is idle does not answer, and an answer makes it so.
LEMMA LastMessageNext == LastMessage /\ [Next]_vars => LastMessage'
<1> SUFFICES ASSUME LastMessage, [Next]_vars PROVE LastMessage'
  OBVIOUS
<1>1. CASE Program \/ HotPlugAgain
  BY <1>1, ProgramLastMessage
<1>2. CASE Accept \/ Report \/ Fail
  <2>1. running # 0 /\ running' = 0 /\ pc' = pc
    BY <1>2, Marks DEF Accept, Report, Fail, Answered, host
  <2>2. pc \notin {"retryclear", "retrywait"}
    BY <2>1 DEF LastMessage
  <2> QED  BY <2>1, <2>2 DEF LastMessage
<1>3. CASE Unplug \/ Plug \/ Press \/ UNCHANGED vars
  BY <1>3 DEF LastMessage, Unplug, Plug, Press, vars, host, chip
<1> QED  BY <1>1, <1>2, <1>3 DEF Next

\* Once the program waits for a second message (usb.c:565), the controller is idle
\* and the flag is down: the wait is for ever.
THEOREM RetryHangs == Spec => []NoSecondAnswer
<1>1. Init => LastMessage
  BY DEF Init, LastMessage
<1>2. LastMessage => NoSecondAnswer
  BY DEF LastMessage, NoSecondAnswer
<1> QED  BY <1>1, <1>2, LastMessageNext, PTL DEF Spec

=============================================================================
