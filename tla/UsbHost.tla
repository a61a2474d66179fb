------------------------------ MODULE UsbHost ------------------------------
(***************************************************************************)
(* The keyboard software, src/software/usb_kb/main.c and usb.c, with the   *)
(* USB controller and the keyboard it talks to.                            *)
(*                                                                         *)
(* The program writes one request at a time, a list of transfer            *)
(* descriptors at address 0x500, starts the controller on it, looks for    *)
(* the controller's message, writes and starts the request again until     *)
(* there is one, and reads the control byte of the first descriptor.       *)
(* After a fixed sequence of requests (steps 3 to 9 of main.c) it polls    *)
(* the keyboard for ever and copies the key of each report to the key code *)
(* register.                                                               *)
(*                                                                         *)
(* The controller (a CY7C67200) and the keyboard are not part of the       *)
(* repository; they are modelled from how the program uses them.  A        *)
(* transfer always ends and the control byte speaks for all of it, as the  *)
(* program takes them to.  The controller has one pointer to descriptors   *)
(* and answers once when it is through with them.  The data toggle of the  *)
(* polls is left out.                                                      *)
(*                                                                         *)
(*   Requests   the requests before the polls, 9 in the code               *)
(*   Keys       the key codes of the keyboard, 0 for none                  *)
(***************************************************************************)
EXTENDS Integers

CONSTANTS Requests, Keys

ASSUME RequestsAssumption == Requests \in Nat /\ Requests >= 2
ASSUME UsbKeysAssumption  == Keys \subseteq 0 .. 255 /\ 0 \in Keys

VARIABLES
  pc,        \* what the program does next
  step,      \* the request it is at; Poll for the polls
  got,       \* the message it has read in UsbWaitTDListDone
  keycode,   \* the key code register
  control,   \* the control byte of the first descriptor, at 0x508
  running,   \* the request the controller has not answered yet, 0 for none
  msg,       \* the message register
  flag,      \* its flag in the status register
  buffer,    \* the key of the last report received, at 0x51E
  dev,       \* the keyboard, see Attached
  pressed,   \* the key it holds down
  report     \* it has a report to send

host == <<pc, step, got, keycode>>
chip == <<control, running, msg, flag, buffer>>
keyboard == <<dev, pressed, report>>
vars == <<host, chip, keyboard>>

Poll == Requests + 1

\* The control byte: 0x13 as written, 0x03 after a clean transfer, something
\* else after one that was retried or failed.
Active  == 19
Clean   == 3
Retried == 2

Done == 1            \* HUSB_TDListDone; 0 is no message

\* The keyboard: unplugged; plugged in but not reset yet; or the latest of the
\* requests it has carried out since the last bus reset.
Absent   == -2
Powered  == -1
Attached == dev # Absent

-----------------------------------------------------------------------------
(* The program.                                                            *)

Goto(l) == pc' = l /\ UNCHANGED <<step, got, keycode>>

\* main.c:44-121: the controller is reset and forgets what it was doing, and so
\* does whatever is plugged in.
HotPlug ==
  /\ pc = "hotplug"
  /\ pc' = "present" /\ step' = 1 /\ UNCHANGED <<got, keycode>>
  /\ running' = 0 /\ msg' = 0 /\ flag' = FALSE /\ UNCHANGED <<control, buffer>>
  /\ dev' = IF Attached THEN 0 ELSE dev
  /\ UNCHANGED <<pressed, report>>

\* The mailbox does not hold the acknowledgement, of the initialisation or of the
\* bus reset: all over again.
HotPlugAgain ==
  /\ pc = "hotplug"
  /\ UNCHANGED host
  /\ running' = 0 /\ msg' = 0 /\ flag' = FALSE /\ UNCHANGED <<control, buffer>>
  /\ dev' \in {dev, IF Attached THEN 0 ELSE dev}
  /\ UNCHANGED <<pressed, report>>

\* main.c:127-162: is something plugged in?  Of the readings between the first and
\* the last one, any that says so has the effect of the last.
Present == /\ \/ pc = "present"  /\ Goto(IF Attached THEN "send" ELSE "present2")
              \/ pc = "present2" /\ Goto(IF Attached THEN "send" ELSE "absent")
              \/ pc = "absent"   /\ Attached /\ Goto("hotplug")
           /\ UNCHANGED <<chip, keyboard>>

\* UsbSetAddress and the like, and the body of the poll: write the descriptors,
\* whatever the controller is doing.  What it is still at may turn into the request
\* written over it.
Send == /\ pc = "send"
        /\ Goto("start")
        /\ control' = Active
        /\ running' \in IF running = 0 THEN {0} ELSE {running, step}
        /\ UNCHANGED <<msg, flag, buffer, keyboard>>

\* Their last access: the pointer to the descriptors.  A controller that is still at
\* something goes on with it or begins anew.
Start == /\ pc = "start"
         /\ Goto("wait")
         /\ running' \in IF running = 0 THEN {step} ELSE {running, step}
         /\ UNCHANGED <<control, msg, flag, buffer, keyboard>>

\* Until the message flag is up, write and start again.
Wait == /\ pc = "wait"
        /\ Goto(IF flag THEN "read" ELSE "send")
        /\ UNCHANGED <<chip, keyboard>>

\* UsbWaitTDListDone reads the message, which lowers its flag, and clears it.
ReadMsg == /\ pc = "read"
           /\ got' = msg /\ flag' = FALSE
           /\ pc' = "clear"
           /\ UNCHANGED <<step, keycode, control, running, msg, buffer, keyboard>>

ClearMsg == /\ pc = "clear"
            /\ msg' = 0
            /\ Goto(IF got # Done THEN "read" ELSE IF step = Poll THEN "decode" ELSE "check")
            /\ UNCHANGED <<control, running, flag, buffer, keyboard>>

\* Faulty variant: a control byte that was changed at all ends the step.
CheckAnswered ==
  /\ pc = "check"
  /\ IF control # Active
     THEN step' = step + 1 /\ pc' = "send" /\ UNCHANGED <<got, keycode>>
     ELSE Goto("retry")
  /\ UNCHANGED <<chip, keyboard>>

\* A clean control byte ends the step.
Check == /\ pc = "check"
         /\ IF control = Clean
            THEN step' = step + 1 /\ pc' = "send" /\ UNCHANGED <<got, keycode>>
            ELSE Goto("retry")
         /\ UNCHANGED <<chip, keyboard>>

AfterRetry == IF step = 1 THEN "hotplug" ELSE "check"

\* Faulty variant: another message is awaited whether there is one or not.
RetryWaitsAlways == \/ /\ pc = "retry"
                       /\ flag' = FALSE
                       /\ Goto("retryclear")
                       /\ UNCHANGED <<control, running, msg, buffer, keyboard>>
                    \/ /\ pc = "retryclear"
                       /\ msg' = 0
                       /\ Goto("retrywait")
                       /\ UNCHANGED <<control, running, flag, buffer, keyboard>>

\* UsbGetRetryCnt.  Without a message the control byte is read again; the first
\* step starts all over.  A message that is there is cleared, and then another one
\* is awaited, in "retrywait".  None ever comes (NoSecondAnswer below), so the
\* program has no step that leaves it.
Retry == \/ /\ pc = "retry"
            /\ flag' = FALSE
            /\ Goto(IF msg = Done THEN "retryclear" ELSE AfterRetry)
            /\ UNCHANGED <<control, running, msg, buffer, keyboard>>
         \/ /\ pc = "retryclear"
            /\ msg' = 0
            /\ Goto("retrywait")
            /\ UNCHANGED <<control, running, flag, buffer, keyboard>>

\* Faulty variant: a key that is let go is not reported.
DecodeKeysOnly == /\ pc = "decode"
                  /\ keycode' = IF buffer = 0 THEN keycode ELSE buffer
                  /\ pc' = "look" /\ UNCHANGED <<step, got>>
                  /\ UNCHANGED <<chip, keyboard>>

\* main.c:492-495.
Decode == /\ pc = "decode"
          /\ keycode' = buffer
          /\ pc' = "look" /\ UNCHANGED <<step, got>>
          /\ UNCHANGED <<chip, keyboard>>

\* Faulty variant: the last reading is not tested.
LookAway == /\ \/ pc \in {"look", "look2"} /\ Goto("send")
               \/ pc = "unplugged" /\ Attached /\ Goto("hotplug")
            /\ UNCHANGED <<chip, keyboard>>

\* main.c:499-532: is it still plugged in?  Again the first and the last reading
\* stand for all.
Look == /\ \/ pc = "look"      /\ Goto(IF Attached THEN "send" ELSE "look2")
           \/ pc = "look2"     /\ Goto(IF Attached THEN "send" ELSE "unplugged")
           \/ pc = "unplugged" /\ Attached /\ Goto("hotplug")
        /\ UNCHANGED <<chip, keyboard>>

Program == \/ HotPlug \/ Present \/ Send \/ Start \/ Wait \/ ReadMsg \/ ClearMsg
           \/ Check \/ Retry \/ Decode \/ Look

-----------------------------------------------------------------------------
(* The controller and the keyboard.                                        *)

Answered == running' = 0 /\ msg' = Done /\ flag' = TRUE

Later(a, b) == IF a > b THEN a ELSE b

\* A keyboard takes the request that sets its address after a reset, and any other
\* once it has one.
Accept == /\ running \in 1 .. Requests /\ dev >= IF running = 1 THEN 0 ELSE 1
          /\ dev' = Later(dev, running)
          /\ control' \in {Clean, Retried}
          /\ Answered
          /\ UNCHANGED <<host, buffer, pressed, report>>

\* A poll of a configured keyboard that has something to say; without, it waits.
Report == /\ running = Poll /\ dev = Requests /\ report
          /\ buffer' = pressed /\ report' = FALSE
          /\ control' = Clean
          /\ Answered
          /\ UNCHANGED <<host, dev, pressed>>

\* A request nobody can answer fails, and so may one that comes too early.
Fail == /\ running # 0 /\ dev < running - 1
        /\ control' = Retried
        /\ Answered
        /\ UNCHANGED <<host, buffer, keyboard>>

Unplug == /\ Attached
          /\ dev' = Absent /\ pressed' = 0 /\ report' = FALSE
          /\ UNCHANGED <<host, chip>>

Plug == /\ ~Attached
        /\ dev' = Powered
        /\ UNCHANGED <<host, chip, pressed, report>>

Press == /\ Attached
         /\ pressed' \in Keys \ {pressed}
         /\ report' = TRUE
         /\ UNCHANGED <<host, chip, dev>>

-----------------------------------------------------------------------------
Init == /\ pc = "hotplug" /\ step = 1 /\ got = 0 /\ keycode = 0
        /\ control = 0 /\ running = 0
        /\ msg = 0 /\ flag = FALSE /\ buffer = 0
        /\ dev \in {Absent, Powered} /\ pressed = 0 /\ report = FALSE

Next == \/ Program \/ HotPlugAgain
        \/ Accept \/ Report \/ Fail
        \/ Unplug \/ Plug \/ Press

Spec == Init /\ [][Next]_vars

\* The processor keeps running, the controller acknowledges its initialisation
\* sooner or later, and a transfer that can end does end.
Fairness == /\ WF_vars(Program) /\ SF_vars(HotPlug)
            /\ WF_vars(Accept \/ Report \/ Fail)

FairSpec == Spec /\ Fairness

-----------------------------------------------------------------------------
(* Properties.                                                             *)

Labels == {"hotplug", "present", "present2", "absent", "send", "start", "wait", "read", "clear",
           "check", "retry", "retryclear", "retrywait", "decode", "look", "look2",
           "unplugged"}

TypeOK == /\ pc \in Labels /\ step \in 1 .. Poll /\ got \in {0, Done}
          /\ keycode \in Keys /\ buffer \in Keys /\ pressed \in Keys
          /\ control \in {0, Active, Clean, Retried} /\ running \in 0 .. Poll
          /\ msg \in {0, Done} /\ flag \in BOOLEAN
          /\ dev \in {Absent, Powered} \cup 0 .. Requests /\ report \in BOOLEAN

\* Requests are sent again while the controller may still work on them, and an answer
\* may fall between the writing of the descriptors and the start.  A repeated sending
\* then outlives the step, and its answer marks the control byte of the next request
\* clean: that one may be passed over (main.c:168, usb.c:113-139).  But no second one
\* after it: a keyboard that was not pulled out since its bus reset is never further
\* behind, because the answer that lets the program on was to this request or the last.
OneAhead ==
  pc # "hotplug" => dev \in {Absent, Powered} \/ dev >= step - 2

\* UsbGetRetryCnt waits for the flag of a second message (usb.c:565).  It is reached
\* when the answer of a repeated sending came late, and that was the last one: the
\* controller is idle and the flag was lowered by the reading, so the wait is for ever.
NoSecondAnswer == pc = "retrywait" => running = 0 /\ ~flag

\* The program waits for a message, none is there and none will come: the answer
\* arrived between the reading of the message register and its clearing.
Wiped == pc = "read" /\ msg = 0 /\ running = 0

\* A key event reaches the key code register, whichever way its answer races with
\* the polls that are sent again, unless another event or a removal comes first or
\* the answer is wiped out.
KeyArrives ==
  \A k \in Keys :
    (step = Poll /\ dev = Requests /\ report /\ pressed = k)
       ~> (keycode = k \/ pressed # k \/ dev # Requests \/ Wiped)

\* A keyboard that is pulled out during the polls and stays out is noticed.
RemovalNoticed ==
  (step = Poll /\ ~Attached) ~> (Attached \/ pc \in {"unplugged", "hotplug"} \/ Wiped)

\* "Call the appropriate function again if it wasn't processed successfully."
\* (main.c:198 and each later step), asked while the keyboard stays plugged in.
RetriedIsSentAgain ==
  (pc = "check" /\ step > 1 /\ control = Retried) ~> (pc \in {"send", "hotplug"} \/ ~Attached)

=============================================================================
