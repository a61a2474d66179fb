------------------------------ MODULE JtagUart ------------------------------
(***************************************************************************)
(* The serial port of the keyboard software: the JTAG UART driver          *)
(* (drivers/src/altera_avalon_jtag_uart_*.c), its interrupt routine, the   *)
(* interrupt dispatcher of the HAL, and the device itself.  Every line     *)
(* main.c prints goes through it.                                          *)
(*                                                                         *)
(* There is one thread, so the program is in one call at a time; an        *)
(* interrupt may come between any two of its steps, and the terminal at    *)
(* the other end of the cable acts whenever it likes.                      *)
(*                                                                         *)
(*   BufLen    ALTERA_AVALON_JTAG_UART_BUF_LEN, 2048                       *)
(*   Depth     the characters each queue of the device holds, 64           *)
(*   WriteThreshold, ReadThreshold                                         *)
(*             the levels that raise an interrupt, both 8: no more than    *)
(*             this many characters to send, no more than this much room   *)
(*   IntMax    INT_MAX, the timeout that says there is no clock            *)
(*   Timeouts  the arguments of TIOCSTIMEOUT                               *)
(*   Settings  bounds: whether there is a clock, which characters travel   *)
(*             in each direction, and for the calls max, the length of the *)
(*             longest buffer, and nb, the values of O_NONBLOCK            *)
(***************************************************************************)
EXTENDS Integers, Sequences

CONSTANTS BufLen, Depth, WriteThreshold, ReadThreshold, IntMax, DefaultTimeout, Timeouts, Settings, NUL

ASSUME SizeAssumption ==
  /\ BufLen \in Nat /\ BufLen >= 2 /\ Depth \in Nat
  /\ WriteThreshold \in 0 .. Depth - 1 /\ ReadThreshold \in 0 .. Depth - 1
ASSUME TimeoutAssumption ==
  /\ IntMax \in Nat /\ DefaultTimeout \in 1 .. IntMax - 1 /\ IntMax >= 4
  /\ Timeouts \subseteq Int
ASSUME SettingsAssumption == \A s \in Settings : s.clock \in BOOLEAN /\ s.max \in Nat /\ s.nb \subseteq BOOLEAN

VARIABLES
  setting,        \* a member of Settings, for good; this board has no clock
  txFifo,         \* device: to the terminal
  rxFifo,         \* device: from the terminal
  pauseIrq,       \* device: the terminal has paused with characters in rxFifo
  AC,             \* device: the terminal has been active (kept where the alarm reads it)
  irq_enable,     \* the driver's copy of the device's enables, always equal
  tx_buf, tx_in, tx_out, rx_buf, rx_in, rx_out,
  host_inactive,  \* seconds without activity
  timeout,
  ipc,            \* where the interrupt is served, "off" if it is not
  latch,          \* the routine's control, space and RAVAIL of data
  pc,             \* where the program is, "idle" outside the driver
  call            \* the variables of the call

device  == <<txFifo, rxFifo, pauseIrq, AC>>
txRing  == <<tx_buf, tx_in, tx_out>>
rxRing  == <<rx_buf, rx_in, rx_out>>
timing  == <<host_inactive, timeout>>
vars == <<setting, device, irq_enable, txRing, rxRing, timing, ipc, latch, pc, call>>

-----------------------------------------------------------------------------
(* The device.                                                             *)

RI == "RE" \in irq_enable /\ (pauseIrq \/ Depth - Len(rxFifo) <= ReadThreshold)
WI == "WE" \in irq_enable /\ Len(txFifo) <= WriteThreshold
Pending == RI \/ WI

\* The terminal takes a character, types one, or pauses.
HostTake == /\ txFifo # <<>>
            /\ txFifo' = Tail(txFifo)
            /\ UNCHANGED <<rxFifo, pauseIrq, AC>>

HostType(c) == /\ Len(rxFifo) < Depth
               /\ rxFifo' = Append(rxFifo, c) /\ AC' = setting.clock
               /\ UNCHANGED <<txFifo, pauseIrq>>

HostPause == /\ pauseIrq' = (pauseIrq \/ rxFifo # <<>>) /\ AC' = setting.clock
             /\ UNCHANGED <<txFifo, rxFifo>>

Host == /\ HostTake \/ HostPause \/ \E c \in setting.rx : HostType(c)
        /\ UNCHANGED <<setting, irq_enable, txRing, rxRing, timing, ipc, latch, pc, call>>

-----------------------------------------------------------------------------
(* The ring buffers.                                                       *)

\* Faulty variant: an index that does not wrap.
NextNoWrap(i) == i + 1

Next1(i) == (i + 1) % BufLen

\* The characters between two indices, oldest first.
Filled(out, in) == IF in >= out THEN in - out ELSE BufLen - out + in
Ring(buf, out, in) == [k \in 1 .. Filled(out, in) |-> buf[(out + k - 1) % BufLen]]

\* Faulty variant: the slot that tells full from empty is used as well.
RoomToEnd(in, out) == IF in < out THEN out - 1 - in ELSE BufLen - in

\* The room write sees in one piece, and the characters read sees in one piece.
Room(in, out) == IF in < out THEN out - 1 - in
                 ELSE IF out > 0 THEN BufLen - in ELSE BufLen - 1 - in
Held(in, out) == IF in >= out THEN in - out ELSE BufLen - out

Least(a, b) == IF a < b THEN a ELSE b

-----------------------------------------------------------------------------
(* The interrupt: the exception entry, the dispatcher, the routine.        *)

IrqOnly == UNCHANGED <<setting, timing, pc, call>>

NoLatch == [ri |-> FALSE, wi |-> FALSE, space |-> 0, ravail |-> FALSE]

\* An instruction of the program is not followed by the next.
IrqEnter == /\ ipc = "off" /\ Pending
            /\ ipc' = "dispatch"
            /\ UNCHANGED <<device, irq_enable, txRing, rxRing, latch>>

\* alt_irq_handler reads the pending interrupts again and calls the routine of the
\* lowest.  On entry it does not expect that there is none.
Dispatch == /\ ipc = "dispatch"
            /\ ipc' = IF Pending THEN "poll" ELSE "astray"
            /\ UNCHANGED <<device, irq_enable, txRing, rxRing, latch>>

\* Faulty variant: the next round does not ask whether there is one.
DispatchAlways == /\ ipc = "again"
                  /\ ipc' = "dispatch"
                  /\ UNCHANGED <<device, irq_enable, txRing, rxRing, latch>>

DispatchAgain == /\ ipc = "again"
                 /\ ipc' = IF Pending THEN "poll" ELSE "off"
                 /\ UNCHANGED <<device, irq_enable, txRing, rxRing, latch>>

\* The loop of altera_avalon_jtag_uart_irq: read the control register.
IrqPoll == /\ ipc = "poll"
           /\ latch' = IF Pending THEN [ri |-> RI, wi |-> WI, ravail |-> TRUE,
                                        space |-> Depth - Len(txFifo)]
                       ELSE NoLatch
           /\ ipc' = IF RI THEN "rx" ELSE IF WI THEN "tx" ELSE "again"
           /\ UNCHANGED <<device, irq_enable, txRing, rxRing>>

RxFull == Next1(rx_in) = rx_out

\* Faulty variant: a full buffer is not noticed.
IrqRxUnchecked ==
  /\ ipc = "rx"
  /\ pauseIrq' = FALSE
  /\ latch' = [latch EXCEPT !.ravail = Len(rxFifo) > 1]
  /\ IF rxFifo = <<>>
     THEN ipc' = "rxEnd" /\ UNCHANGED <<rxFifo, rxRing>>
     ELSE /\ rxFifo' = Tail(rxFifo)
          /\ rx_buf' = [rx_buf EXCEPT ![rx_in] = Head(rxFifo)]
          /\ rx_in' = Next1(rx_in)
          /\ UNCHANGED <<ipc, rx_out>>
  /\ UNCHANGED <<txFifo, AC, irq_enable, txRing>>

\* One character is moved to the ring buffer, unless there is no room or no
\* character.  Reading the data register ends the pause interrupt.
IrqRx == /\ ipc = "rx"
         /\ IF RxFull
            THEN ipc' = "rxEnd" /\ UNCHANGED <<rxFifo, pauseIrq, rxRing, latch>>
            ELSE /\ pauseIrq' = FALSE
                 /\ latch' = [latch EXCEPT !.ravail = Len(rxFifo) > 1]
                 /\ IF rxFifo = <<>>
                    THEN ipc' = "rxEnd" /\ UNCHANGED <<rxFifo, rxRing>>
                    ELSE /\ rxFifo' = Tail(rxFifo)
                         /\ rx_buf' = [rx_buf EXCEPT ![rx_in] = Head(rxFifo)]
                         /\ rx_in' = Next1(rx_in)
                         /\ UNCHANGED <<ipc, rx_out>>
         /\ UNCHANGED <<txFifo, AC, irq_enable, txRing>>

\* The device takes RVALID at the edge of the bus cycle and returns the level of its queue
\* a cycle later: of an empty queue that a character enters in between it says that there
\* was none and that one is left.
IrqRxSplit(c) == /\ ipc = "rx" /\ ~RxFull /\ rxFifo = <<>>
                 /\ rxFifo' = <<c>> /\ AC' = setting.clock /\ pauseIrq' = FALSE
                 /\ latch' = [latch EXCEPT !.ravail = TRUE]
                 /\ ipc' = "rxEnd"
                 /\ UNCHANGED <<txFifo, irq_enable, txRing, rxRing>>

\* Characters are left: no more read interrupts.  The comment says that the ring buffer
\* is full then.
IrqRxEnd == /\ ipc = "rxEnd"
            /\ irq_enable' = IF latch.ravail THEN irq_enable \ {"RE"} ELSE irq_enable
            /\ ipc' = IF latch.wi THEN "tx" ELSE "poll"
            /\ UNCHANGED <<device, txRing, rxRing, latch>>

\* Faulty variants: the space is not counted down; the interrupt is turned off at the
\* end of every burst.
IrqTxNoCount ==
  /\ ipc = "tx"
  /\ IF latch.space > 0 /\ tx_out # tx_in
     THEN /\ txFifo' = IF Len(txFifo) < Depth THEN Append(txFifo, tx_buf[tx_out]) ELSE txFifo
          /\ tx_out' = Next1(tx_out)
          /\ UNCHANGED <<latch, ipc, irq_enable>>
     ELSE /\ irq_enable' = IF latch.space > 0 THEN irq_enable \ {"WE"} ELSE irq_enable
          /\ ipc' = "poll" /\ UNCHANGED <<txFifo, tx_out, latch>>
  /\ UNCHANGED <<rxFifo, pauseIrq, AC, tx_buf, tx_in, rxRing>>

IrqTxStops ==
  /\ ipc = "tx"
  /\ IF latch.space > 0 /\ tx_out # tx_in
     THEN /\ txFifo' = IF Len(txFifo) < Depth THEN Append(txFifo, tx_buf[tx_out]) ELSE txFifo
          /\ tx_out' = Next1(tx_out)
          /\ latch' = [latch EXCEPT !.space = @ - 1]
          /\ UNCHANGED <<ipc, irq_enable>>
     ELSE /\ irq_enable' = irq_enable \ {"WE"}
          /\ ipc' = "poll" /\ UNCHANGED <<txFifo, tx_out, latch>>
  /\ UNCHANGED <<rxFifo, pauseIrq, AC, tx_buf, tx_in, rxRing>>

\* One character is moved to the device while the latched space lasts; a character
\* put into a full queue is lost.  If space is left, no more write interrupts.
IrqTx == /\ ipc = "tx"
         /\ IF latch.space > 0 /\ tx_out # tx_in
            THEN /\ txFifo' = IF Len(txFifo) < Depth THEN Append(txFifo, tx_buf[tx_out])
                              ELSE txFifo
                 /\ tx_out' = Next1(tx_out)
                 /\ latch' = [latch EXCEPT !.space = @ - 1]
                 /\ UNCHANGED <<ipc, irq_enable>>
            ELSE /\ irq_enable' = IF latch.space > 0 THEN irq_enable \ {"WE"} ELSE irq_enable
                 /\ ipc' = "poll"
                 /\ UNCHANGED <<txFifo, tx_out, latch>>
         /\ UNCHANGED <<rxFifo, pauseIrq, AC, tx_buf, tx_in, rxRing>>

Interrupt == /\ IrqEnter \/ Dispatch \/ DispatchAgain \/ IrqPoll
                \/ IrqRx \/ (\E c \in setting.rx : IrqRxSplit(c)) \/ IrqRxEnd \/ IrqTx
             /\ IrqOnly

\* Faulty variant: stops counting a second early.
TickShy == /\ setting.clock /\ ipc = "off"
           /\ AC' = FALSE
           /\ host_inactive' = IF AC THEN 0
                               ELSE IF host_inactive < timeout - 1 THEN host_inactive + 1
                               ELSE host_inactive
           /\ UNCHANGED <<setting, txFifo, rxFifo, pauseIrq, irq_enable, txRing, rxRing,
                          timeout, ipc, latch, pc, call>>

\* altera_avalon_jtag_uart_timeout, the alarm of every second, and no interrupt
\* within an interrupt.
Tick == /\ setting.clock /\ ipc = "off"
        /\ AC' = FALSE
        /\ host_inactive' = IF AC THEN 0
                            ELSE IF host_inactive < IntMax - 2 THEN host_inactive + 1
                            ELSE host_inactive
        /\ UNCHANGED <<setting, txFifo, rxFifo, pauseIrq, irq_enable, txRing, rxRing,
                       timeout, ipc, latch, pc, call>>

-----------------------------------------------------------------------------
(* The program.  A call's variables die with it.                           *)

NoCall == [count |-> 0, moved |-> 0, nonblock |-> FALSE, snap |-> 0, n |-> 0,
           chunk |-> <<>>]

Connected == host_inactive < timeout

Return == pc' = "idle" /\ call' = NoCall

ProgramOnly == UNCHANGED <<setting, device, ipc, latch>>

Begin == /\ pc = "idle"
         /\ \E c \in 1 .. setting.max, nb \in setting.nb, entry \in {"wSnap", "rSnap", "close"} :
              /\ entry = "wSnap" => setting.tx # {}
              /\ entry = "rSnap" => setting.rx # {}
              /\ pc' = entry
              /\ call' = [NoCall EXCEPT !.count = IF entry = "close" THEN 0 ELSE c,
                                        !.nonblock = nb]
         /\ UNCHANGED <<irq_enable, txRing, rxRing, timing>>

\* write: how much room is there?
WriteSnap == /\ pc = "wSnap"
             /\ LET n == IF call.count = 0 THEN 0
                         ELSE Least(Room(tx_in, tx_out), call.count)
                IN  /\ call' = [call EXCEPT !.n = n,
                                            !.snap = IF call.count > 0 THEN tx_out ELSE @]
                    /\ pc' = IF n = 0 THEN "wKick" ELSE "wCopy"
             /\ UNCHANGED <<irq_enable, txRing, rxRing, timing>>

WriteCopy == /\ pc = "wCopy"
             /\ \E s \in [tx_in .. tx_in + call.n - 1 -> setting.tx] :
                  tx_buf' = [i \in DOMAIN tx_buf |-> IF i \in DOMAIN s THEN s[i] ELSE tx_buf[i]]
             /\ pc' = "wPublish"
             /\ UNCHANGED <<irq_enable, tx_in, tx_out, rxRing, timing, call>>

WritePublish == /\ pc = "wPublish"
                /\ tx_in' = (tx_in + call.n) % BufLen
                /\ call' = [call EXCEPT !.count = @ - call.n, !.moved = @ + call.n, !.n = 0]
                /\ pc' = "wSnap"
                /\ UNCHANGED <<irq_enable, tx_buf, tx_out, rxRing, timing>>

\* Faulty variant: the index to wait on is read here, after the kick.
WriteKickLate == /\ pc = "wKick"
                 /\ irq_enable' = irq_enable \cup {"WE"}
                 /\ IF call.count = 0 \/ call.nonblock
                    THEN Return
                    ELSE pc' = "wWait" /\ call' = [call EXCEPT !.snap = tx_out]
                 /\ UNCHANGED <<txRing, rxRing, timing>>

\* Interrupts are off for the two assignments.
WriteKick == /\ pc = "wKick"
             /\ irq_enable' = irq_enable \cup {"WE"}
             /\ IF call.count = 0 \/ call.nonblock
                THEN Return
                ELSE pc' = "wWait" /\ UNCHANGED call
             /\ UNCHANGED <<txRing, rxRing, timing>>

\* The end of the spinning loop, and then the test of host_inactive.
WriteWait == /\ pc = "wWait"
             /\ call.snap # tx_out \/ ~Connected
             /\ pc' = "wCheck"
             /\ UNCHANGED <<irq_enable, txRing, rxRing, timing, call>>

WriteCheck == /\ pc = "wCheck"
              /\ IF host_inactive > 0
                 THEN Return
                 ELSE pc' = "wSnap" /\ call' = [call EXCEPT !.snap = 0]
              /\ UNCHANGED <<irq_enable, txRing, rxRing, timing>>

\* read: how much is there, and what to do if there is nothing?
ReadSnap == /\ pc = "rSnap"
            /\ LET n == Least(Held(rx_in, rx_out), call.count)
               IN IF n > 0
                  THEN pc' = "rCopy" /\ call' = [call EXCEPT !.n = n, !.snap = rx_in]
                  ELSE IF call.moved > 0
                  THEN pc' = "rEnable" /\ UNCHANGED call
                  ELSE IF call.nonblock
                  THEN Return
                  ELSE pc' = "rWait" /\ call' = [call EXCEPT !.snap = rx_in]
            /\ UNCHANGED <<irq_enable, txRing, rxRing, timing>>

ReadCopy == /\ pc = "rCopy"
            /\ call' = [call EXCEPT !.chunk = [k \in 1 .. call.n |-> rx_buf[rx_out + k - 1]]]
            /\ pc' = "rPublish"
            /\ UNCHANGED <<irq_enable, txRing, rxRing, timing>>

ReadPublish == /\ pc = "rPublish"
               /\ rx_out' = (rx_out + call.n) % BufLen
               /\ call' = [call EXCEPT !.count = @ - call.n, !.moved = @ + call.n,
                                       !.n = 0, !.chunk = <<>>]
               /\ pc' = IF call.count > call.n THEN "rSnap" ELSE "rEnable"
               /\ UNCHANGED <<irq_enable, txRing, rx_buf, rx_in, timing>>

ReadWait == /\ pc = "rWait"
            /\ call.snap # rx_in \/ ~Connected
            /\ pc' = "rCheck"
            /\ UNCHANGED <<irq_enable, txRing, rxRing, timing, call>>

ReadCheck == /\ pc = "rCheck"
             /\ IF call.snap = rx_in THEN Return
                ELSE pc' = "rSnap" /\ call' = [call EXCEPT !.snap = 0]
             /\ UNCHANGED <<irq_enable, txRing, rxRing, timing>>

\* Faulty variant: only a request that was met turns the interrupt on.
ReadEnableWhole == /\ pc = "rEnable"
                   /\ irq_enable' = IF call.count = 0 THEN irq_enable \cup {"RE"}
                                    ELSE irq_enable
                   /\ Return
                   /\ UNCHANGED <<txRing, rxRing, timing>>

ReadEnable == /\ pc = "rEnable"
              /\ irq_enable' = irq_enable \cup {"RE"}
              /\ Return
              /\ UNCHANGED <<txRing, rxRing, timing>>

\* close waits for an empty ring buffer, or for the timeout.
Close == /\ pc = "close"
         /\ \/ (tx_out = tx_in \/ ~Connected) /\ Return
            \/ tx_out # tx_in /\ Connected /\ call.nonblock /\ Return
         /\ UNCHANGED <<irq_enable, txRing, rxRing, timing>>

\* ioctl with TIOCSTIMEOUT; without a clock it is refused.
SetTimeout == /\ pc = "idle" /\ timeout # IntMax
              /\ \E t \in Timeouts :
                   timeout' = IF t >= 2 /\ t < IntMax THEN t ELSE IntMax - 1
              /\ UNCHANGED <<irq_enable, txRing, rxRing, host_inactive, pc, call>>

InCall == WriteSnap \/ WriteCopy \/ WritePublish \/ WriteKick \/ WriteWait \/ WriteCheck
          \/ ReadSnap \/ ReadCopy \/ ReadPublish \/ ReadWait \/ ReadCheck \/ ReadEnable
          \/ Close

\* The program runs while no interrupt is served.
Program == /\ ipc = "off"
           /\ Begin \/ InCall \/ SetTimeout
           /\ ProgramOnly

-----------------------------------------------------------------------------
\* After altera_avalon_jtag_uart_init.
Init ==
  /\ setting \in Settings
  /\ txFifo = <<>> /\ rxFifo = <<>> /\ pauseIrq = FALSE /\ AC = FALSE
  /\ irq_enable = {"RE"}
  /\ tx_buf = [i \in 0 .. BufLen - 1 |-> NUL] /\ tx_in = 0 /\ tx_out = 0
  /\ rx_buf = [i \in 0 .. BufLen - 1 |-> NUL] /\ rx_in = 0 /\ rx_out = 0
  /\ host_inactive = 0
  /\ timeout = IF setting.clock THEN DefaultTimeout ELSE IntMax
  /\ ipc = "off" /\ latch = NoLatch /\ pc = "idle" /\ call = NoCall

Next == Host \/ Interrupt \/ Tick \/ Program

Spec == Init /\ [][Next]_vars

\* The processor runs: it takes interrupts, serves them and goes on with a call.
Fairness == /\ WF_vars(Interrupt)
            /\ SF_vars(ipc = "off" /\ InCall /\ ProgramOnly)
            /\ WF_vars(Tick)

FairSpec == Spec /\ Fairness

-----------------------------------------------------------------------------
Labels == {"idle", "wSnap", "wCopy", "wPublish", "wKick", "wWait", "wCheck", "rSnap", "rCopy",
           "rPublish", "rWait", "rCheck", "rEnable", "close"}
Chars  == {NUL} \cup UNION {t.tx \cup t.rx : t \in Settings}
Slots  == 0 .. BufLen - 1

\* The types.
TypeOK ==
  /\ setting \in Settings
  /\ txFifo \in Seq(Chars) /\ Len(txFifo) <= Depth
  /\ rxFifo \in Seq(Chars) /\ Len(rxFifo) <= Depth
  /\ pauseIrq \in BOOLEAN /\ AC \in BOOLEAN /\ irq_enable \subseteq {"RE", "WE"}
  /\ tx_buf \in [Slots -> Chars] /\ tx_in \in Slots /\ tx_out \in Slots
  /\ rx_buf \in [Slots -> Chars] /\ rx_in \in Slots /\ rx_out \in Slots
  /\ host_inactive \in 0 .. IntMax - 2 /\ timeout \in 1 .. IntMax
  /\ ipc \in {"off", "dispatch", "again", "poll", "rx", "rxEnd", "tx", "astray"}
  /\ latch \in [ri : BOOLEAN, wi : BOOLEAN, space : 0 .. Depth, ravail : BOOLEAN]
  /\ pc \in Labels
  /\ call \in [count : Nat, moved : Nat, nonblock : BOOLEAN, snap : Slots,
               n : Nat, chunk : Seq(Chars)]

\* The dispatcher's search for an active interrupt, which has no end of its own, is
\* never begun without one: nothing but the routine itself takes an interrupt back.
NoSpurious == ipc # "astray"

\* The routine never puts a character into a full queue, though the space it goes by
\* was read before all the characters of the burst.
NeverOverrun == ipc = "tx" => latch.space <= Depth - Len(txFifo)

\* Characters left in the ring buffer always have the write interrupt to take them on,
\* once the call that put them there has kicked it: the routine and the call both
\* change the enables.
NoLostKick ==
  ipc = "off" /\ tx_in # tx_out /\ pc \notin {"wSnap", "wCopy", "wPublish", "wKick"}
  => "WE" \in irq_enable

\* The read interrupt is off only while characters wait in the device, and in the ring
\* buffer too or until the call that took those has turned it on again: nobody is ever
\* left to wait for a character that has come.  The ring buffer need not be full.
NoDeafness ==
  ipc = "off" /\ "RE" \notin irq_enable
  => /\ rxFifo # <<>>
     /\ rx_in # rx_out \/ (pc \in {"rSnap", "rCopy", "rPublish", "rEnable"} /\ call.moved > 0)

\* Who waits for an index to change has seen the last of the buffer: write waits on a
\* full one, whatever the routine has drained and filled since, and read on an empty
\* one with the interrupt on.
NoLostWakeup ==
  /\ pc = "wWait" /\ call.snap = tx_out => Next1(tx_in) = tx_out
  /\ pc = "rWait" /\ call.snap = rx_in => rx_in = rx_out /\ "RE" \in irq_enable

\* What read has copied is still the oldest part of the ring buffer when it gives the
\* slots back.
CopiedIsOldest ==
  pc = "rPublish" => LET held == Ring(rx_buf, rx_out, rx_in)
                     IN  /\ call.n <= Filled(rx_out, rx_in)
                         /\ \A k \in 1 .. call.n : call.chunk[k] = held[k]

\* Two bounded queues are all a user of the port can tell.
Line == INSTANCE SerialLine
          WITH Char <- Chars, Capacity <- BufLen - 1 + Depth,
               outgoing <- txFifo \o Ring(tx_buf, tx_out, tx_in),
               incoming <- Ring(rx_buf, rx_out, rx_in) \o rxFifo
ImplementsLine == Line!Spec

\* While a terminal keeps taking characters, no write and no blocking close waits for
\* ever.  This is all the board has: without a clock and without a terminal the first
\* line that does not fit stops the keyboard.
TerminalFreesWriter ==
  []<>(txFifo = <<>>) => \A wait \in {"wWait", "close"} : pc = wait ~> pc # wait

\* With a clock a terminal that has gone away holds nobody up either, unless the timeout
\* is INT_MAX - 1 seconds, which host_inactive never reaches.
TimeoutFreesProgram ==
  setting.clock /\ <>[](~AC /\ timeout <= IntMax - 2)
  => \A wait \in {"wWait", "rWait", "close"} : pc = wait ~> pc # wait

=============================================================================
