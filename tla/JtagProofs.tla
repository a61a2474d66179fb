----------------------------- MODULE JtagProofs -----------------------------
(***************************************************************************)
(* The safety of the serial port for every size of buffers and queues,     *)
(* every threshold and every sequence of calls.                            *)
(*                                                                         *)
(* The invariant adds to the properties what the program knows between     *)
(* two of its steps although the interrupt routine may come in between:    *)
(* the room it has found can only grow, the characters it has found can    *)
(* only become more, and a buffer it found full has its end one slot       *)
(* behind the index it waits on, so that the index cannot come round.  The *)
(* routine in turn knows of a queue it finds empty that it has moved its   *)
(* characters to the ring buffer.                                          *)
(*                                                                         *)
(* The last part shows that the driver and the device together are the two *)
(* queues of module SerialLine: a ring buffer is the sequence of the       *)
(* characters between its indices, and a step of either index takes one    *)
(* off that sequence or puts some on.                                      *)
(***************************************************************************)
EXTENDS JtagUart, SequenceTheorems, TLAPS

USE SizeAssumption, TimeoutAssumption, SettingsAssumption

\* The room found by write is still there, and the characters found by read.
WriteWindow ==
  pc \in {"wCopy", "wPublish"} => /\ call.n \in 1 .. call.count
                                  /\ tx_in + call.n <= BufLen
                                  /\ Filled(tx_out, tx_in) + call.n <= BufLen - 1
ReadWindow ==
  pc \in {"rCopy", "rPublish"} => /\ call.n \in 1 .. call.count
                                  /\ rx_out + call.n <= BufLen
                                  /\ call.n <= Filled(rx_out, rx_in)

\* What has been copied has not been overwritten.
ChunkKept ==
  pc = "rPublish" => \A k \in 1 .. call.n : call.chunk[k] = rx_buf[rx_out + k - 1]

\* Who is about to wait has seen a full buffer, or an empty one.
FullSeen  == /\ pc \in {"wKick", "wWait"} /\ call.count > 0 => call.snap = Next1(tx_in)
             /\ pc = "wWait" => call.count > 0
EmptySeen == /\ pc = "rWait" => call.snap = rx_out
             /\ pc \in {"rSnap", "rWait", "rCheck"} => call.count > 0

\* The enables, also while the routine runs.
Kicked == tx_in # tx_out /\ pc \notin {"wSnap", "wCopy", "wPublish", "wKick"}
          => "WE" \in irq_enable
Hearing == "RE" \notin irq_enable
           => /\ rxFifo # <<>>
              /\ \/ rx_in # rx_out
                 \/ pc \in {"rSnap", "rCopy", "rPublish", "rEnable"} /\ call.moved > 0

\* The routine.
Burst   == ipc \in {"rx", "rxEnd", "tx"} => latch.space <= Depth - Len(txFifo)
GiveUp  == ipc = "rxEnd" /\ latch.ravail => rxFifo # <<>> /\ rx_in # rx_out
Asked   == ipc = "dispatch" => Pending

\* It empties a queue that it found with characters in it: one that is empty now has
\* given at least one to the ring buffer, which the interrupted program cannot take.
Paused  == pauseIrq => rxFifo # <<>>
Draining == ipc = "rx" => /\ "RE" \in irq_enable
                          /\ latch.ravail => rxFifo # <<>>
                          /\ rxFifo # <<>> \/ rx_in # rx_out

Sound == /\ TypeOK /\ NoSpurious
         /\ WriteWindow /\ ReadWindow /\ ChunkKept
         /\ FullSeen /\ EmptySeen /\ Kicked /\ Hearing
         /\ Burst /\ GiveUp /\ Asked /\ Paused /\ Draining

\* Indices stay in the buffer.
LEMMA Wrap == ASSUME NEW i \in 0 .. BufLen
              PROVE  i % BufLen = IF i = BufLen THEN 0 ELSE i
<1>1. CASE i = BufLen
  BY <1>1
<1>2. CASE i < BufLen
  BY <1>2
<1> QED  BY <1>1, <1>2

LEMMA Next1Is == ASSUME NEW i \in Slots
                 PROVE  /\ Next1(i) = IF i + 1 = BufLen THEN 0 ELSE i + 1
                        /\ Next1(i) \in Slots
<1>1. i + 1 \in 0 .. BufLen
  BY DEF Slots
<1> QED  BY <1>1, Wrap DEF Next1, Slots

\* No room means full, no characters mean empty.
LEMMA RoomIs ==
  ASSUME NEW in \in Slots, NEW out \in Slots
  PROVE  /\ Room(in, out) \in Nat /\ Held(in, out) \in Nat
         /\ in + Room(in, out) <= BufLen
         /\ Filled(out, in) + Room(in, out) <= BufLen - 1
         /\ Room(in, out) = 0 => Next1(in) = out
         /\ out + Held(in, out) <= BufLen
         /\ Held(in, out) <= Filled(out, in)
         /\ Held(in, out) = 0 => in = out
BY Next1Is DEF Room, Held, Filled, Slots

\* A step of either index.
LEMMA FilledIs ==
  ASSUME NEW in \in Slots, NEW out \in Slots
  PROVE  /\ Filled(out, in) \in 0 .. BufLen - 1
         /\ in # out => Filled(Next1(out), in) = Filled(out, in) - 1
         /\ Next1(in) # out => Filled(out, Next1(in)) = Filled(out, in) + 1
BY Next1Is DEF Filled, Slots

LEMMA NULIsChar == NUL \in Chars /\ \A s \in Settings : s.tx \subseteq Chars /\ s.rx \subseteq Chars
BY DEF Chars

-----------------------------------------------------------------------------
\* After init nothing is in any buffer.
LEMMA SoundInit == Init => Sound
<1> SUFFICES ASSUME Init PROVE Sound
  OBVIOUS
<1>1. TypeOK
  <2>1. /\ txFifo \in Seq(Chars) /\ Len(txFifo) <= Depth
        /\ rxFifo \in Seq(Chars) /\ Len(rxFifo) <= Depth
    BY DEF Init
  <2>2. /\ tx_buf \in [Slots -> Chars] /\ tx_in \in Slots /\ tx_out \in Slots
        /\ rx_buf \in [Slots -> Chars] /\ rx_in \in Slots /\ rx_out \in Slots
    BY NULIsChar DEF Init, Slots
  <2>3. host_inactive \in 0 .. IntMax - 2 /\ timeout \in 1 .. IntMax
    BY DEF Init
  <2>4. latch \in [ri : BOOLEAN, wi : BOOLEAN, space : 0 .. Depth, ravail : BOOLEAN]
    BY DEF Init, NoLatch
  <2>5. call \in [count : Nat, moved : Nat, nonblock : BOOLEAN, snap : Slots,
                 n : Nat, chunk : Seq(Chars)]
    BY DEF Init, NoCall, Slots
  <2>6. /\ setting \in Settings /\ pauseIrq \in BOOLEAN /\ AC \in BOOLEAN
        /\ irq_enable \subseteq {"RE", "WE"} /\ pc \in Labels
        /\ ipc \in {"off", "dispatch", "again", "poll", "rx", "rxEnd", "tx", "astray"}
    BY DEF Init, Labels
  <2> QED  BY <2>1, <2>2, <2>3, <2>4, <2>5, <2>6, Zenon DEF TypeOK
<1>2. NoSpurious /\ WriteWindow /\ ReadWindow /\ ChunkKept /\ FullSeen /\ EmptySeen
      /\ Kicked /\ Hearing /\ Burst /\ GiveUp /\ Asked /\ Paused /\ Draining
  BY DEF Init, NoSpurious, WriteWindow, ReadWindow, ChunkKept, FullSeen, EmptySeen,
         Kicked, Hearing, Burst, GiveUp, Asked, Paused, Draining
<1> QED  BY <1>1, <1>2 DEF Sound

-----------------------------------------------------------------------------
\* The terminal only ever adds to what the routine was called for.
LEMMA HostSound == ASSUME Sound, Host PROVE Sound'
<1> USE DEF Sound
<1>1. /\ UNCHANGED <<setting, irq_enable, txRing, rxRing, timing, ipc, latch, pc, call>>
      /\ \/ HostTake \/ HostPause \/ \E c \in setting.rx : HostType(c)
  BY DEF Host
<1> DEFINE Fifos == /\ txFifo' \in Seq(Chars) /\ Len(txFifo') <= Len(txFifo)
                    /\ rxFifo' \in Seq(Chars) /\ Len(rxFifo') \in Len(rxFifo) .. Depth
<1>2. Fifos
  <2> USE <1>1 DEF TypeOK
  <2>1. CASE HostTake
    BY <2>1 DEF HostTake
  <2>2. CASE HostPause
    BY <2>2 DEF HostPause
  <2>3. ASSUME NEW c \in setting.rx, HostType(c) PROVE Fifos
    BY <2>3, NULIsChar DEF HostType
  <2> QED  BY <1>1, <2>1, <2>2, <2>3
<1>3. pauseIrq' \in BOOLEAN /\ AC' \in BOOLEAN /\ (pauseIrq => pauseIrq')
  BY <1>1 DEF HostTake, HostPause, HostType, TypeOK
<1>4. TypeOK'
  BY <1>1, <1>2, <1>3 DEF TypeOK, txRing, rxRing, timing
<1>5. Asked'
  BY <1>1, <1>2, <1>3 DEF Asked, Pending, RI, WI, TypeOK
<1>6. Burst'
  <2>1. latch.space \in 0 .. Depth /\ Len(txFifo) \in Nat /\ Len(txFifo') \in Nat
    BY <1>2 DEF TypeOK
  <2> QED  BY <1>1, <1>2, <2>1 DEF Burst
<1>7. (NoSpurious /\ WriteWindow /\ ReadWindow /\ ChunkKept /\ FullSeen /\ EmptySeen
       /\ Kicked)'
  BY <1>1 DEF NoSpurious, WriteWindow, ReadWindow, ChunkKept, FullSeen, EmptySeen, Kicked,
              txRing, rxRing
<1>8. rxFifo # <<>> => rxFifo' # <<>>
  BY <1>2 DEF TypeOK
<1>9. (Hearing /\ GiveUp /\ Draining)'
  BY <1>1, <1>8 DEF Hearing, GiveUp, Draining, rxRing
<1>10. Paused'
  BY <1>1, <1>8 DEF Paused, HostTake, HostPause, HostType
<1> QED  BY <1>4, <1>5, <1>6, <1>7, <1>9, <1>10

-----------------------------------------------------------------------------
(* The interrupt routine.  None of its steps moves the program.            *)

\* It is entered and left without touching a buffer.
LEMMA DispatchSound ==
  ASSUME Sound, IrqOnly, IrqEnter \/ Dispatch \/ DispatchAgain PROVE Sound'
<1> USE DEF Sound
<1>1. /\ UNCHANGED <<setting, timing, pc, call, device, irq_enable, txRing, rxRing, latch>>
      /\ ipc' \in {"dispatch", "poll", "off"}
      /\ ipc' = "dispatch" => Pending
  BY DEF IrqOnly, IrqEnter, Dispatch, DispatchAgain, Asked
<1>2. TypeOK'
  BY <1>1 DEF TypeOK, device, txRing, rxRing, timing
<1>3. (NoSpurious /\ Burst /\ GiveUp /\ Asked /\ Paused /\ Draining)'
  BY <1>1 DEF NoSpurious, Burst, GiveUp, Asked, Pending, RI, WI, Paused, Draining, device
<1>4. (WriteWindow /\ ReadWindow /\ ChunkKept /\ FullSeen /\ EmptySeen /\ Kicked /\ Hearing)'
  BY <1>1 DEF WriteWindow, ReadWindow, ChunkKept, FullSeen, EmptySeen, Kicked, Hearing,
              device, txRing, rxRing
<1> QED  BY <1>2, <1>3, <1>4

\* The space it latches is there, and stays.
LEMMA IrqPollSound == ASSUME Sound, IrqOnly, IrqPoll PROVE Sound'
<1> USE DEF Sound
<1>1. /\ UNCHANGED <<setting, timing, pc, call, device, irq_enable, txRing, rxRing>>
      /\ ipc' \in {"rx", "tx", "again"}
      /\ ipc' # "again" => latch'.space = Depth - Len(txFifo)
      /\ ipc' = "rx" => RI
  BY DEF IrqOnly, IrqPoll, Pending
<1>2. latch' \in [ri : BOOLEAN, wi : BOOLEAN, space : 0 .. Depth, ravail : BOOLEAN]
  <2>1. Len(txFifo) \in 0 .. Depth /\ RI \in BOOLEAN /\ WI \in BOOLEAN
    BY DEF TypeOK, RI, WI
  <2>2. Depth - Len(txFifo) \in 0 .. Depth
    BY <2>1
  <2>3. CASE Pending
    BY <2>1, <2>2, <2>3 DEF IrqPoll
  <2>4. CASE ~Pending
    BY <2>4 DEF IrqPoll, NoLatch
  <2> QED  BY <2>3, <2>4
<1>3. TypeOK'
  BY <1>1, <1>2 DEF TypeOK, device, txRing, rxRing, timing
<1>4. (NoSpurious /\ Burst /\ GiveUp /\ Asked /\ Paused)'
  BY <1>1 DEF NoSpurious, Burst, GiveUp, Asked, Paused, device, TypeOK
<1>5. (WriteWindow /\ ReadWindow /\ ChunkKept /\ FullSeen /\ EmptySeen /\ Kicked /\ Hearing)'
  BY <1>1 DEF WriteWindow, ReadWindow, ChunkKept, FullSeen, EmptySeen, Kicked, Hearing,
              device, txRing, rxRing
<1>6. RI => rxFifo # <<>> /\ "RE" \in irq_enable
  <2>1. CASE pauseIrq
    BY <2>1 DEF RI, Paused
  <2>2. CASE Depth - Len(rxFifo) <= ReadThreshold
    BY <2>2 DEF RI, TypeOK
  <2> QED  BY <2>1, <2>2 DEF RI
<1>7. Draining'
  BY <1>1, <1>6 DEF Draining, device
<1> QED  BY <1>3, <1>4, <1>5, <1>7

\* A character goes to a slot that holds none.
LEMMA IrqRxSound == ASSUME Sound, IrqOnly, IrqRx PROVE Sound'
<1> USE DEF Sound
<1>1. CASE RxFull
  <2>1. /\ UNCHANGED <<setting, timing, pc, call, device, irq_enable, txRing, rxRing, latch>>
        /\ ipc = "rx" /\ ipc' = "rxEnd"
    BY <1>1 DEF IrqOnly, IrqRx, device
  <2>2. TypeOK'
    BY <2>1 DEF TypeOK, device, txRing, rxRing, timing
  <2>3. (NoSpurious /\ Burst /\ Asked /\ Paused /\ Draining)'
    BY <2>1 DEF NoSpurious, Burst, Asked, Paused, Draining, device
  <2>4. (WriteWindow /\ ReadWindow /\ ChunkKept /\ FullSeen /\ EmptySeen /\ Kicked /\ Hearing)'
    BY <2>1 DEF WriteWindow, ReadWindow, ChunkKept, FullSeen, EmptySeen, Kicked, Hearing,
                device, txRing, rxRing
  <2>5. rx_in # rx_out
    <3>1. rx_in \in Slots /\ Next1(rx_in) = rx_out
      BY <1>1 DEF RxFull, TypeOK
    <3>2. Next1(rx_in) = IF rx_in + 1 = BufLen THEN 0 ELSE rx_in + 1
      BY <3>1, Next1Is
    <3> QED  BY <3>1, <3>2 DEF Slots
  <2>6. GiveUp'
    BY <2>1, <2>5 DEF GiveUp, Draining, device, rxRing
  <2> QED  BY <2>2, <2>3, <2>4, <2>6
<1>2. CASE ~RxFull /\ rxFifo = <<>>
  <2>1. /\ UNCHANGED <<setting, timing, pc, call, txFifo, rxFifo, AC, irq_enable, txRing, rxRing>>
        /\ ipc = "rx" /\ ipc' = "rxEnd" /\ pauseIrq' = FALSE
        /\ latch' = [latch EXCEPT !.ravail = FALSE]
    <3>1. Len(rxFifo) = 0 /\ ~(Len(rxFifo) > 1)
      BY <1>2
    <3>2. (Len(rxFifo) > 1) = FALSE
      BY <3>1
    <3>3. latch' = [latch EXCEPT !.ravail = Len(rxFifo) > 1]
      BY <1>2 DEF IrqRx
    <3> QED  BY <1>2, <3>2, <3>3, Zenon DEF IrqOnly, IrqRx
  <2>2. TypeOK'
    BY <2>1 DEF TypeOK, txRing, rxRing, timing
  <2>3. (NoSpurious /\ Burst /\ GiveUp /\ Asked /\ Paused /\ Draining)'
    BY <2>1 DEF NoSpurious, Burst, GiveUp, Asked, Paused, Draining, TypeOK
  <2>4. (WriteWindow /\ ReadWindow /\ ChunkKept /\ FullSeen /\ EmptySeen /\ Kicked /\ Hearing)'
    BY <2>1 DEF WriteWindow, ReadWindow, ChunkKept, FullSeen, EmptySeen, Kicked, Hearing,
                txRing, rxRing
  <2> QED  BY <2>2, <2>3, <2>4
<1>3. CASE ~RxFull /\ rxFifo # <<>>
  <2>1. /\ UNCHANGED <<setting, timing, pc, call, txFifo, AC, irq_enable, txRing, rx_out>>
        /\ ipc = "rx" /\ ipc' = "rx" /\ pauseIrq' = FALSE
        /\ latch' = [latch EXCEPT !.ravail = Len(rxFifo) > 1]
        /\ rxFifo' = Tail(rxFifo) /\ rx_in' = Next1(rx_in)
        /\ rx_buf' = [rx_buf EXCEPT ![rx_in] = Head(rxFifo)]
    BY <1>3 DEF IrqOnly, IrqRx
  <2>2. /\ rxFifo' \in Seq(Chars) /\ Len(rxFifo') <= Depth
        /\ Head(rxFifo) \in Chars
    <3>1. rxFifo \in Seq(Chars) /\ rxFifo # <<>> /\ Len(rxFifo) <= Depth
      BY <1>3 DEF TypeOK
    <3>2. Len(Tail(rxFifo)) = Len(rxFifo) - 1 /\ Len(rxFifo) \in Nat
      BY <3>1
    <3>3. Tail(rxFifo) \in Seq(Chars) /\ Head(rxFifo) \in Chars
      BY <3>1
    <3> QED  BY <2>1, <3>1, <3>2, <3>3
  <2>3. rx_buf' \in [Slots -> Chars] /\ rx_in' \in Slots
    BY <2>1, <2>2, Next1Is DEF TypeOK
  <2>4. latch' \in [ri : BOOLEAN, wi : BOOLEAN, space : 0 .. Depth, ravail : BOOLEAN]
    <3> DEFINE more == Len(rxFifo) > 1
    <3>1. more \in BOOLEAN /\ latch' = [latch EXCEPT !.ravail = more]
      BY <2>1
    <3>2. latch \in [ri : BOOLEAN, wi : BOOLEAN, space : 0 .. Depth, ravail : BOOLEAN]
      BY DEF TypeOK
    <3> HIDE DEF more
    <3> QED  BY <3>1, <3>2
  <2>5. TypeOK'
    BY <2>1, <2>2, <2>3, <2>4 DEF TypeOK, txRing, timing
  <2>6. (NoSpurious /\ Burst /\ GiveUp /\ Asked /\ Paused)'
    BY <2>1 DEF NoSpurious, Burst, GiveUp, Asked, Paused, TypeOK
  <2>7. (WriteWindow /\ FullSeen /\ EmptySeen /\ Kicked)'
    BY <2>1 DEF WriteWindow, FullSeen, EmptySeen, Kicked, txRing
  <2>8. rx_in \in Slots /\ rx_out \in Slots /\ Next1(rx_in) # rx_out
    BY <1>3 DEF RxFull, TypeOK
  <2>9. Filled(rx_out, rx_in') = Filled(rx_out, rx_in) + 1 /\ Filled(rx_out, rx_in) \in Nat
    BY <2>1, <2>8, FilledIs
  <2>10. ReadWindow'
    BY <2>1, <2>9 DEF ReadWindow, TypeOK
  <2>11. ChunkKept'
    <3> SUFFICES ASSUME pc = "rPublish", NEW k \in 1 .. call.n
                 PROVE  call.chunk[k] = rx_buf'[rx_out + k - 1]
      BY <2>1 DEF ChunkKept
    <3>1. rx_out + k - 1 \in Slots /\ rx_out + k - 1 # rx_in
      BY <2>8 DEF ReadWindow, TypeOK, Slots, Filled
    <3> QED  BY <2>1, <3>1 DEF ChunkKept, TypeOK
  <2>12. Hearing'
    BY <2>1 DEF Hearing, Draining
  <2>13. Draining'
    <3>1. rxFifo' = <<>> => ~(Len(rxFifo) > 1)
      <4>1. rxFifo \in Seq(Chars) /\ rxFifo # <<>>
        BY <1>3 DEF TypeOK
      <4>2. Len(Tail(rxFifo)) = Len(rxFifo) - 1 /\ Len(rxFifo) \in Nat
        BY <4>1
      <4>3. rxFifo' = <<>> => Len(rxFifo') = 0
        OBVIOUS
      <4>4. Len(rxFifo') = Len(rxFifo) - 1
        BY <2>1, <4>2
      <4>5. rxFifo' = <<>> => Len(rxFifo) - 1 = 0
        BY <4>3, <4>4, Zenon
      <4> DEFINE len == Len(rxFifo)
      <4>6. len \in Nat /\ (rxFifo' = <<>> => len - 1 = 0)
        BY <4>2, <4>5, Zenon
      <4> HIDE DEF len
      <4>7. rxFifo' = <<>> => ~(len > 1)
        BY <4>6
      <4> QED  BY <4>7 DEF len
    <3> DEFINE more == Len(rxFifo) > 1
    <3>2. latch' = [latch EXCEPT !.ravail = more] /\ (rxFifo' = <<>> => ~more)
      BY <2>1, <3>1
    <3> HIDE DEF more
    <3>3. latch'.ravail = more
      BY <3>2 DEF TypeOK
    <3>4. latch'.ravail => rxFifo' # <<>>
      BY <3>2, <3>3
    <3> QED  BY <2>1, <2>8, <3>4 DEF Draining
  <2> QED  BY <2>5, <2>6, <2>7, <2>10, <2>11, <2>12, <2>13
<1> QED  BY <1>1, <1>2, <1>3

\* A character may come while the device answers that it has none.
LEMMA IrqRxSplitSound ==
  ASSUME Sound, IrqOnly, NEW c \in setting.rx, IrqRxSplit(c) PROVE Sound'
<1> USE DEF Sound
<1>1. /\ UNCHANGED <<setting, timing, pc, call, txFifo, irq_enable, txRing, rxRing>>
      /\ ipc = "rx" /\ ipc' = "rxEnd" /\ pauseIrq' = FALSE /\ AC' = setting.clock
      /\ rxFifo = <<>> /\ rxFifo' = <<c>>
      /\ latch' = [latch EXCEPT !.ravail = TRUE]
  BY DEF IrqOnly, IrqRxSplit
<1>2. /\ rxFifo' \in Seq(Chars) /\ Len(rxFifo') <= Depth /\ AC' \in BOOLEAN
      /\ rxFifo' # <<>>
  BY <1>1, NULIsChar DEF TypeOK
<1>3. TypeOK'
  BY <1>1, <1>2 DEF TypeOK, txRing, rxRing, timing
<1>4. (NoSpurious /\ Burst /\ Asked /\ Paused /\ Draining)'
  BY <1>1 DEF NoSpurious, Burst, Asked, Paused, Draining, TypeOK
<1>5. GiveUp' /\ Hearing'
  BY <1>1, <1>2 DEF GiveUp, Hearing, Draining, rxRing
<1>6. (WriteWindow /\ ReadWindow /\ ChunkKept /\ FullSeen /\ EmptySeen /\ Kicked)'
  BY <1>1 DEF WriteWindow, ReadWindow, ChunkKept, FullSeen, EmptySeen, Kicked, txRing, rxRing
<1> QED  BY <1>3, <1>4, <1>5, <1>6

\* The read interrupt goes off only while characters wait on both sides.
LEMMA IrqRxEndSound == ASSUME Sound, IrqOnly, IrqRxEnd PROVE Sound'
<1> USE DEF Sound
<1>1. /\ UNCHANGED <<setting, timing, pc, call, device, txRing, rxRing, latch>>
      /\ ipc = "rxEnd" /\ ipc' \in {"tx", "poll"}
      /\ irq_enable' \in {irq_enable, irq_enable \ {"RE"}}
      /\ irq_enable' # irq_enable => rxFifo # <<>> /\ rx_in # rx_out
  BY DEF IrqOnly, IrqRxEnd, GiveUp
<1>2. TypeOK'
  BY <1>1 DEF TypeOK, device, txRing, rxRing, timing
<1>3. (NoSpurious /\ Burst /\ GiveUp /\ Asked /\ Paused /\ Draining)'
  BY <1>1 DEF NoSpurious, Burst, GiveUp, Asked, Paused, Draining, device
<1>4. (WriteWindow /\ ReadWindow /\ ChunkKept /\ FullSeen /\ EmptySeen /\ Kicked)'
  BY <1>1 DEF WriteWindow, ReadWindow, ChunkKept, FullSeen, EmptySeen, Kicked, txRing, rxRing
<1>5. Hearing'
  BY <1>1 DEF Hearing, device, rxRing
<1> QED  BY <1>2, <1>3, <1>4, <1>5

\* The write interrupt goes off on an empty buffer only, and a character taken out
\* makes room.
LEMMA IrqTxSound == ASSUME Sound, IrqOnly, IrqTx PROVE Sound'
<1> USE DEF Sound
<1>0. /\ UNCHANGED <<setting, timing, pc, call, rxFifo, pauseIrq, AC, tx_buf, tx_in, rxRing>>
      /\ ipc = "tx"
  BY DEF IrqOnly, IrqTx
<1>1. CASE latch.space > 0 /\ tx_out # tx_in
  <2>1. /\ ipc' = "tx" /\ irq_enable' = irq_enable
        /\ tx_out' = Next1(tx_out) /\ latch' = [latch EXCEPT !.space = @ - 1]
    BY <1>0, <1>1 DEF IrqTx
  <2>2. /\ Len(txFifo) < Depth
        /\ txFifo' = Append(txFifo, tx_buf[tx_out])
    <3>1. latch.space \in 0 .. Depth /\ Len(txFifo) \in Nat
      BY DEF TypeOK
    <3>2. Len(txFifo) < Depth
      BY <1>0, <1>1, <3>1 DEF Burst
    <3> QED  BY <1>1, <3>2 DEF IrqTx
  <2>3. tx_in \in Slots /\ tx_out \in Slots /\ tx_out' \in Slots /\ tx_buf[tx_out] \in Chars
    BY <2>1, Next1Is DEF TypeOK
  <2>4. txFifo' \in Seq(Chars) /\ Len(txFifo') = Len(txFifo) + 1
    BY <2>2, <2>3 DEF TypeOK
  <2>5. latch.space \in 0 .. Depth /\ latch'.space = latch.space - 1
    BY <2>1 DEF TypeOK
  <2>6. latch' \in [ri : BOOLEAN, wi : BOOLEAN, space : 0 .. Depth, ravail : BOOLEAN]
    <3>1. latch.space - 1 \in 0 .. Depth
      BY <1>1, <2>5
    <3>2. latch \in [ri : BOOLEAN, wi : BOOLEAN, space : 0 .. Depth, ravail : BOOLEAN]
      BY DEF TypeOK
    <3> QED  BY <2>1, <3>1, <3>2
  <2>7. TypeOK'
    <3>1. Len(txFifo') <= Depth
      BY <2>2, <2>4 DEF TypeOK
    <3> QED  BY <1>0, <2>1, <2>3, <2>4, <2>6, <3>1 DEF TypeOK, rxRing, timing
  <2>8. Burst'
    BY <1>0, <2>2, <2>4, <2>5 DEF Burst, TypeOK
  <2>9. (NoSpurious /\ GiveUp /\ Asked /\ Paused /\ Draining)'
    BY <1>0, <2>1 DEF NoSpurious, GiveUp, Asked, Paused, Draining
  <2>10. (ReadWindow /\ ChunkKept /\ FullSeen /\ EmptySeen /\ Hearing)'
    BY <1>0, <2>1 DEF ReadWindow, ChunkKept, FullSeen, EmptySeen, Hearing, rxRing
  <2>11. Kicked'
    BY <1>0, <1>1, <2>1 DEF Kicked
  <2>12. Filled(tx_out', tx_in) = Filled(tx_out, tx_in) - 1 /\ Filled(tx_out, tx_in) \in Nat
    BY <1>1, <2>1, <2>3, FilledIs
  <2>13. WriteWindow'
    <3>1. tx_in' = tx_in /\ pc' = pc /\ call' = call
      BY <1>0
    <3>2. call.n \in Nat /\ BufLen \in Nat
      BY DEF TypeOK
    <3> QED  BY <2>12, <3>1, <3>2 DEF WriteWindow
  <2> QED  BY <2>7, <2>8, <2>9, <2>10, <2>11, <2>13
<1>2. CASE ~(latch.space > 0 /\ tx_out # tx_in)
  <2>1. /\ ipc' = "poll" /\ UNCHANGED <<txFifo, tx_out, latch>>
        /\ irq_enable' \in {irq_enable, irq_enable \ {"WE"}}
        /\ irq_enable' # irq_enable => tx_out = tx_in
    BY <1>2 DEF IrqTx
  <2>2. TypeOK'
    BY <1>0, <2>1 DEF TypeOK, rxRing, timing
  <2>3. (NoSpurious /\ Burst /\ GiveUp /\ Asked /\ Paused /\ Draining)'
    BY <1>0, <2>1 DEF NoSpurious, Burst, GiveUp, Asked, Paused, Draining
  <2>4. (WriteWindow /\ ReadWindow /\ ChunkKept /\ FullSeen /\ EmptySeen)'
    BY <1>0, <2>1 DEF WriteWindow, ReadWindow, ChunkKept, FullSeen, EmptySeen, rxRing
  <2>5. Kicked' /\ Hearing'
    BY <1>0, <2>1 DEF Kicked, Hearing, rxRing
  <2> QED  BY <2>2, <2>3, <2>4, <2>5
<1> QED  BY <1>1, <1>2

\* The alarm touches no buffer.
LEMMA TickSound == ASSUME Sound, Tick PROVE Sound'
<1> USE DEF Sound
<1>1. /\ UNCHANGED <<setting, txFifo, rxFifo, pauseIrq, irq_enable, txRing, rxRing, timeout,
                     ipc, latch, pc, call>>
      /\ ipc = "off" /\ AC' = FALSE
      /\ host_inactive' \in 0 .. IntMax - 2
  BY DEF Tick, TypeOK
<1>2. TypeOK'
  BY <1>1 DEF TypeOK, txRing, rxRing
<1>3. (NoSpurious /\ Burst /\ GiveUp /\ Asked /\ Paused /\ Draining)'
  BY <1>1 DEF NoSpurious, Burst, GiveUp, Asked, Paused, Draining
<1>4. (WriteWindow /\ ReadWindow /\ ChunkKept /\ FullSeen /\ EmptySeen /\ Kicked /\ Hearing)'
  BY <1>1 DEF WriteWindow, ReadWindow, ChunkKept, FullSeen, EmptySeen, Kicked, Hearing,
              RxFull, txRing, rxRing
<1> QED  BY <1>2, <1>3, <1>4

-----------------------------------------------------------------------------
(* The program, while no interrupt is served.                              *)

\* The routine's part of the invariant does not matter then.
LEMMA ProgramFrame ==
  ASSUME Sound, Program
  PROVE  /\ UNCHANGED <<setting, txFifo, rxFifo, pauseIrq, AC, ipc, latch>> /\ ipc = "off"
         /\ (NoSpurious /\ Burst /\ GiveUp /\ Asked /\ Paused /\ Draining)'
BY DEF Sound, Program, ProgramOnly, device, NoSpurious, Burst, GiveUp, Asked, Paused, Draining

\* A call begins; between calls the enables are as they should be.
LEMMA BeginSound == ASSUME Sound, Program, Begin PROVE Sound'
<1> USE DEF Sound
<1>1. PICK c \in 1 .. setting.max, nb \in setting.nb, entry \in {"wSnap", "rSnap", "close"} :
        /\ pc' = entry
        /\ call' = [NoCall EXCEPT !.count = IF entry = "close" THEN 0 ELSE c,
                                  !.nonblock = nb]
  BY DEF Begin
<1>2. pc = "idle" /\ UNCHANGED <<irq_enable, txRing, rxRing, timing>>
  BY DEF Begin
<1>3. call' \in [count : Nat, moved : Nat, nonblock : BOOLEAN, snap : Slots,
                n : Nat, chunk : Seq(Chars)]
  <2>1. setting \in Settings
    BY DEF TypeOK
  <2>2. nb \in BOOLEAN /\ c \in Nat
    BY <2>1
  <2> DEFINE count == IF entry = "close" THEN 0 ELSE c
  <2>3. count \in Nat
    BY <2>2
  <2>4. call' = [NoCall EXCEPT !.count = count, !.nonblock = nb]
    BY <1>1
  <2>5. NoCall \in [count : Nat, moved : Nat, nonblock : BOOLEAN, snap : Slots,
                   n : Nat, chunk : Seq(Chars)]
    BY DEF NoCall, Slots
  <2> HIDE DEF count
  <2> QED  BY <2>2, <2>3, <2>4, <2>5
<1>4. TypeOK'
  BY <1>1, <1>2, <1>3, ProgramFrame DEF TypeOK, txRing, rxRing, timing, Labels
<1>5. (WriteWindow /\ ReadWindow /\ ChunkKept /\ FullSeen /\ EmptySeen)'
  <2>1. call'.count = IF entry = "close" THEN 0 ELSE c
    BY <1>1 DEF NoCall
  <2>2. c > 0
    <3>1. setting.max \in Nat
      BY DEF TypeOK
    <3> QED  BY <3>1
  <2> QED  BY <1>1, <2>1, <2>2 DEF WriteWindow, ReadWindow, ChunkKept, FullSeen, EmptySeen
<1>6. Kicked' /\ Hearing'
  BY <1>1, <1>2, ProgramFrame DEF Kicked, Hearing, txRing, rxRing
<1> QED  BY <1>4, <1>5, <1>6, ProgramFrame

\* The room it finds is at the end of the ring, or there is none.
LEMMA WriteSnapSound == ASSUME Sound, Program, WriteSnap PROVE Sound'
<1> USE DEF Sound
<1> DEFINE room == Room(tx_in, tx_out)
           n    == IF call.count = 0 THEN 0 ELSE Least(room, call.count)
<1>1. /\ UNCHANGED <<irq_enable, txRing, rxRing, timing>> /\ pc = "wSnap"
      /\ pc' = IF n = 0 THEN "wKick" ELSE "wCopy"
      /\ call' = [call EXCEPT !.n = n, !.snap = IF call.count > 0 THEN tx_out ELSE @]
  BY DEF WriteSnap
<1>2. /\ tx_in \in Slots /\ tx_out \in Slots /\ call.count \in Nat
      /\ call \in [count : Nat, moved : Nat, nonblock : BOOLEAN, snap : Slots,
                   n : Nat, chunk : Seq(Chars)]
  BY DEF TypeOK
<1>3. /\ n \in Nat /\ n <= room /\ n <= call.count
      /\ n = 0 => call.count = 0 \/ room = 0
  <2>1. room \in Nat
    BY <1>2, RoomIs
  <2> HIDE DEF room
  <2> QED  BY <1>2, <2>1 DEF Least
<1> HIDE DEF n
<1>4. TypeOK'
  <2>1. call' \in [count : Nat, moved : Nat, nonblock : BOOLEAN, snap : Slots,
                  n : Nat, chunk : Seq(Chars)]
    BY <1>1, <1>2, <1>3
  <2> QED  BY <1>1, <2>1, ProgramFrame DEF TypeOK, txRing, rxRing, timing, Labels
<1>5. WriteWindow'
  <2> SUFFICES ASSUME pc' \in {"wCopy", "wPublish"}
               PROVE  /\ n \in 1 .. call.count
                      /\ tx_in + n <= BufLen
                      /\ Filled(tx_out, tx_in) + n <= BufLen - 1
    BY <1>1, <1>2 DEF WriteWindow, txRing
  <2>1. n # 0
    BY <1>1
  <2>2. /\ room \in Nat /\ tx_in + room <= BufLen
        /\ Filled(tx_out, tx_in) + room <= BufLen - 1
    BY <1>2, RoomIs
  <2>3. Filled(tx_out, tx_in) \in 0 .. BufLen - 1
    BY <1>2, FilledIs
  <2> DEFINE filled == Filled(tx_out, tx_in)
  <2> HIDE DEF room, filled
  <2>4. tx_in + n <= BufLen /\ filled + n <= BufLen - 1
    <3>1. filled + room <= BufLen - 1 /\ filled \in Nat
      BY <2>2, <2>3 DEF filled
    <3>2. tx_in \in Nat
      BY <1>2 DEF Slots
    <3> QED  BY <1>3, <2>2, <3>1, <3>2
  <2> QED  BY <1>2, <1>3, <2>1, <2>4 DEF filled
<1>6. (ReadWindow /\ ChunkKept /\ EmptySeen)'
  BY <1>1 DEF ReadWindow, ChunkKept, EmptySeen
<1>7. FullSeen'
  BY <1>1, <1>2, <1>3, RoomIs DEF FullSeen, txRing
<1>8. Kicked' /\ Hearing'
  BY <1>1, ProgramFrame DEF Kicked, Hearing, txRing, rxRing
<1> QED  BY <1>4, <1>5, <1>6, <1>7, <1>8, ProgramFrame

\* The characters go to the slots it has found.
LEMMA WriteCopySound == ASSUME Sound, Program, WriteCopy PROVE Sound'
<1> USE DEF Sound
<1>1. /\ UNCHANGED <<irq_enable, tx_in, tx_out, rxRing, timing, call>>
      /\ pc = "wCopy" /\ pc' = "wPublish"
  BY DEF WriteCopy
<1>2. tx_buf' \in [Slots -> Chars]
  <2>1. PICK s \in [tx_in .. tx_in + call.n - 1 -> setting.tx] :
          tx_buf' = [i \in DOMAIN tx_buf |-> IF i \in DOMAIN s THEN s[i] ELSE tx_buf[i]]
    BY DEF WriteCopy
  <2>2. setting.tx \subseteq Chars /\ tx_buf \in [Slots -> Chars]
    BY NULIsChar DEF TypeOK
  <2> QED  BY <2>1, <2>2
<1>3. TypeOK'
  BY <1>1, <1>2, ProgramFrame DEF TypeOK, rxRing, timing, Labels
<1>4. (WriteWindow /\ ReadWindow /\ ChunkKept /\ FullSeen /\ EmptySeen /\ Kicked /\ Hearing)'
  BY <1>1, ProgramFrame DEF WriteWindow, ReadWindow, ChunkKept, FullSeen, EmptySeen, Kicked, Hearing,
              rxRing
<1> QED  BY <1>3, <1>4, ProgramFrame

LEMMA WritePublishSound == ASSUME Sound, Program, WritePublish PROVE Sound'
<1> USE DEF Sound
<1>1. /\ UNCHANGED <<irq_enable, tx_buf, tx_out, rxRing, timing>>
      /\ pc = "wPublish" /\ pc' = "wSnap" /\ tx_in' = (tx_in + call.n) % BufLen
      /\ call' = [call EXCEPT !.count = @ - call.n, !.moved = @ + call.n, !.n = 0]
  BY DEF WritePublish
<1>2. /\ call \in [count : Nat, moved : Nat, nonblock : BOOLEAN, snap : Slots,
                   n : Nat, chunk : Seq(Chars)]
      /\ call.n \in 1 .. call.count /\ tx_in + call.n \in 0 .. BufLen
  <2>1. call.n \in 1 .. call.count /\ tx_in + call.n <= BufLen
    BY <1>1 DEF WriteWindow
  <2>2. call.count \in Nat /\ tx_in \in 0 .. BufLen - 1
    BY DEF TypeOK, Slots
  <2> QED  BY <2>1, <2>2 DEF TypeOK
<1>3. tx_in' \in Slots
  BY <1>1, <1>2, Wrap DEF Slots
<1>4. call' \in [count : Nat, moved : Nat, nonblock : BOOLEAN, snap : Slots,
                n : Nat, chunk : Seq(Chars)]
  <2>1. call.count - call.n \in Nat /\ call.moved + call.n \in Nat
    BY <1>2
  <2> QED  BY <1>1, <1>2, <2>1
<1>5. TypeOK'
  BY <1>1, <1>3, <1>4, ProgramFrame DEF TypeOK, rxRing, timing, Labels
<1>6. (WriteWindow /\ ReadWindow /\ ChunkKept /\ FullSeen /\ EmptySeen /\ Kicked /\ Hearing)'
  BY <1>1, ProgramFrame DEF WriteWindow, ReadWindow, ChunkKept, FullSeen, EmptySeen, Kicked, Hearing,
              rxRing
<1> QED  BY <1>5, <1>6, ProgramFrame

\* A call that ends leaves nothing behind but the rings and the enables.
LEMMA ReturnTypes == Return => /\ pc' = "idle"
                               /\ call' \in [count : Nat, moved : Nat, nonblock : BOOLEAN,
                                             snap : Slots, n : Nat, chunk : Seq(Chars)]
BY DEF Return, NoCall, Slots

\* What is in the ring has the write interrupt, and who waits has seen it full.
LEMMA WriteKickSound == ASSUME Sound, Program, WriteKick PROVE Sound'
<1> USE DEF Sound
<1>1. /\ UNCHANGED <<txRing, rxRing, timing>> /\ pc = "wKick"
      /\ irq_enable' = irq_enable \cup {"WE"}
      /\ \/ Return
         \/ pc' = "wWait" /\ call' = call /\ call.count # 0
  BY DEF WriteKick
<1>2. pc' \in {"idle", "wWait"}
      /\ call' \in [count : Nat, moved : Nat, nonblock : BOOLEAN, snap : Slots,
                    n : Nat, chunk : Seq(Chars)]
  BY <1>1, ReturnTypes DEF TypeOK
<1>3. TypeOK'
  BY <1>1, <1>2, ProgramFrame DEF TypeOK, txRing, rxRing, timing, Labels
<1>4. (WriteWindow /\ ReadWindow /\ ChunkKept /\ EmptySeen /\ Kicked)'
  BY <1>1, <1>2 DEF WriteWindow, ReadWindow, ChunkKept, EmptySeen, Kicked
<1>5. FullSeen'
  BY <1>1, ReturnTypes DEF FullSeen, txRing, TypeOK
<1>6. Hearing'
  BY <1>1, ProgramFrame DEF Hearing, rxRing
<1> QED  BY <1>3, <1>4, <1>5, <1>6, ProgramFrame

\* The ends of the waiting loops, and of close.
LEMMA WaitSound ==
  ASSUME Sound, Program, WriteWait \/ WriteCheck \/ ReadWait \/ ReadCheck \/ Close
  PROVE  Sound'
<1> USE DEF Sound
<1>1. /\ UNCHANGED <<irq_enable, txRing, rxRing, timing>>
      /\ pc \in {"wWait", "wCheck", "rWait", "rCheck", "close"}
      /\ \/ Return
         \/ pc' \in {"wCheck", "rCheck"} /\ call' = call
         \/ pc' \in {"wSnap", "rSnap"} /\ call' = [call EXCEPT !.snap = 0]
      /\ pc' \in {"rCheck", "rSnap"} => pc \in {"rWait", "rCheck"}
  BY DEF WriteWait, WriteCheck, ReadWait, ReadCheck, Close, Return
<1>2. /\ pc' \in {"idle", "wCheck", "rCheck", "wSnap", "rSnap"}
      /\ call' \in [count : Nat, moved : Nat, nonblock : BOOLEAN, snap : Slots,
                    n : Nat, chunk : Seq(Chars)]
  <2>1. call \in [count : Nat, moved : Nat, nonblock : BOOLEAN, snap : Slots,
                 n : Nat, chunk : Seq(Chars)] /\ 0 \in Slots
    BY DEF TypeOK, Slots
  <2> QED  BY <1>1, <2>1, ReturnTypes
<1>3. TypeOK'
  BY <1>1, <1>2, ProgramFrame DEF TypeOK, txRing, rxRing, timing, Labels
<1>4. (WriteWindow /\ ReadWindow /\ ChunkKept /\ FullSeen)'
  BY <1>1, <1>2 DEF WriteWindow, ReadWindow, ChunkKept, FullSeen
<1>6. EmptySeen'
  <2>1. pc' \in {"rCheck", "rSnap"} => call'.count = call.count
    BY <1>1, ReturnTypes DEF TypeOK
  <2> QED  BY <1>1, <1>2, <2>1 DEF EmptySeen
<1>5. Kicked' /\ Hearing'
  BY <1>1, ProgramFrame DEF Kicked, Hearing, txRing, rxRing
<1> QED  BY <1>3, <1>4, <1>5, <1>6, ProgramFrame

\* The characters it finds are in one piece, or there are none.
LEMMA ReadSnapSound == ASSUME Sound, Program, ReadSnap PROVE Sound'
<1> USE DEF Sound
<1> DEFINE held == Held(rx_in, rx_out)
           n    == Least(held, call.count)
<1>1. UNCHANGED <<irq_enable, txRing, rxRing, timing>> /\ pc = "rSnap"
  BY DEF ReadSnap
<1>2. /\ rx_in \in Slots /\ rx_out \in Slots /\ call.count \in Nat
      /\ call \in [count : Nat, moved : Nat, nonblock : BOOLEAN, snap : Slots,
                   n : Nat, chunk : Seq(Chars)]
  BY DEF TypeOK
<1>3. n \in Nat /\ n <= held /\ n <= call.count /\ held \in Nat
  <2>1. held \in Nat
    BY <1>2, RoomIs
  <2> HIDE DEF held
  <2> QED  BY <1>2, <2>1 DEF Least
<1>4. \/ n > 0 /\ pc' = "rCopy" /\ call' = [call EXCEPT !.n = n, !.snap = rx_in]
      \/ call.moved > 0 /\ pc' = "rEnable" /\ call' = call
      \/ ~(call.moved > 0) /\ Return
      \/ n = 0 /\ ~(call.moved > 0) /\ pc' = "rWait" /\ call' = [call EXCEPT !.snap = rx_in]
  BY <1>3 DEF ReadSnap
<1> HIDE DEF n
<1>5. /\ pc' \in {"rCopy", "rEnable", "idle", "rWait"}
      /\ call' \in [count : Nat, moved : Nat, nonblock : BOOLEAN, snap : Slots,
                    n : Nat, chunk : Seq(Chars)]
  BY <1>2, <1>3, <1>4, ReturnTypes
<1>6. TypeOK'
  BY <1>1, <1>5, ProgramFrame DEF TypeOK, txRing, rxRing, timing, Labels
<1>7. ReadWindow'
  <2> SUFFICES ASSUME pc' \in {"rCopy", "rPublish"}
               PROVE  /\ n \in 1 .. call.count
                      /\ rx_out + n <= BufLen /\ n <= Filled(rx_out, rx_in)
    BY <1>1, <1>2, <1>4, ReturnTypes DEF ReadWindow, rxRing
  <2>1. n > 0
    BY <1>4, ReturnTypes
  <2>2. rx_out + held <= BufLen /\ held <= Filled(rx_out, rx_in)
    BY <1>2, RoomIs
  <2>3. Filled(rx_out, rx_in) \in 0 .. BufLen - 1
    BY <1>2, FilledIs
  <2> DEFINE filled == Filled(rx_out, rx_in)
  <2> HIDE DEF held, filled
  <2>4. rx_out + n <= BufLen /\ n <= filled
    <3>1. held <= filled /\ filled \in Nat
      BY <2>2, <2>3 DEF filled
    <3>2. rx_out \in Nat
      BY <1>2 DEF Slots
    <3> QED  BY <1>3, <2>2, <3>1, <3>2
  <2> QED  BY <1>2, <1>3, <2>1, <2>4 DEF filled
<1>8. EmptySeen'
  <2> SUFFICES ASSUME pc' \in {"rSnap", "rWait", "rCheck"}
               PROVE  call'.count > 0 /\ call'.snap = rx_out
    BY <1>1, <1>5 DEF EmptySeen, rxRing
  <2>1. n = 0 /\ call' = [call EXCEPT !.snap = rx_in]
    BY <1>4, ReturnTypes
  <2>2. call.count > 0
    BY <1>1 DEF EmptySeen
  <2>3. held = 0
    <3> HIDE DEF held
    <3> QED  BY <1>2, <1>3, <2>1, <2>2 DEF n, Least
  <2>4. rx_in = rx_out
    BY <1>2, <2>3, RoomIs
  <2> QED  BY <1>2, <2>1, <2>2, <2>4
<1>9. (WriteWindow /\ ChunkKept /\ FullSeen)'
  BY <1>5 DEF WriteWindow, ChunkKept, FullSeen
<1>10. Kicked'
  BY <1>1, <1>5 DEF Kicked, txRing
<1>11. Hearing'
  BY <1>1, <1>2, <1>4, ProgramFrame DEF Hearing, rxRing
<1> QED  BY <1>6, <1>7, <1>8, <1>9, <1>10, <1>11, ProgramFrame

LEMMA ReadCopySound == ASSUME Sound, Program, ReadCopy PROVE Sound'
<1> USE DEF Sound
<1> DEFINE copy == [k \in 1 .. call.n |-> rx_buf[rx_out + k - 1]]
<1>1. /\ UNCHANGED <<irq_enable, txRing, rxRing, timing>>
      /\ pc = "rCopy" /\ pc' = "rPublish" /\ call' = [call EXCEPT !.chunk = copy]
  BY DEF ReadCopy
<1>2. /\ rx_out \in Slots /\ rx_buf \in [Slots -> Chars] /\ call.n \in Nat
      /\ call \in [count : Nat, moved : Nat, nonblock : BOOLEAN, snap : Slots,
                   n : Nat, chunk : Seq(Chars)]
  BY DEF TypeOK
<1>3. copy \in Seq(Chars)
  <2>1. ASSUME NEW k \in 1 .. call.n PROVE rx_buf[rx_out + k - 1] \in Chars
    <3>1. rx_out + call.n <= BufLen
      BY <1>1 DEF ReadWindow
    <3>2. rx_out + k - 1 \in Slots
      BY <1>2, <3>1 DEF Slots
    <3> QED  BY <1>2, <3>2
  <2>2. copy \in [1 .. call.n -> Chars]
    BY <2>1
  <2> HIDE DEF copy
  <2> QED  BY <1>2, <2>2
<1>4. call' \in [count : Nat, moved : Nat, nonblock : BOOLEAN, snap : Slots,
                n : Nat, chunk : Seq(Chars)]
  <2> HIDE DEF copy
  <2> QED  BY <1>1, <1>2, <1>3
<1>5. TypeOK'
  BY <1>1, <1>4, ProgramFrame DEF TypeOK, txRing, rxRing, timing, Labels
<1>6. ChunkKept'
  <2>1. call'.chunk = copy /\ call'.n = call.n
    BY <1>1, <1>2
  <2> QED  BY <1>1, <1>2, <2>1 DEF ChunkKept, rxRing
<1>7. (WriteWindow /\ ReadWindow /\ FullSeen /\ EmptySeen /\ Kicked /\ Hearing)'
  BY <1>1, <1>2, ProgramFrame DEF WriteWindow, ReadWindow, FullSeen, EmptySeen, Kicked, Hearing,
                    txRing, rxRing
<1> QED  BY <1>5, <1>6, <1>7, ProgramFrame

\* The slots are given back; the interrupt is still to be turned on.
LEMMA ReadPublishSound == ASSUME Sound, Program, ReadPublish PROVE Sound'
<1> USE DEF Sound
<1>1. /\ UNCHANGED <<irq_enable, txRing, rx_buf, rx_in, timing>>
      /\ pc = "rPublish" /\ pc' \in {"rSnap", "rEnable"}
      /\ pc' = "rSnap" => call.count > call.n
      /\ rx_out' = (rx_out + call.n) % BufLen
      /\ call' = [call EXCEPT !.count = @ - call.n, !.moved = @ + call.n, !.n = 0,
                              !.chunk = <<>>]
  BY DEF ReadPublish
<1>2. /\ call \in [count : Nat, moved : Nat, nonblock : BOOLEAN, snap : Slots,
                   n : Nat, chunk : Seq(Chars)]
      /\ call.n \in 1 .. call.count /\ rx_out + call.n \in 0 .. BufLen
  <2>1. call.n \in 1 .. call.count /\ rx_out + call.n <= BufLen
    BY <1>1 DEF ReadWindow
  <2>2. call.count \in Nat /\ rx_out \in 0 .. BufLen - 1
    BY DEF TypeOK, Slots
  <2> QED  BY <2>1, <2>2 DEF TypeOK
<1>3. rx_out' \in Slots
  BY <1>1, <1>2, Wrap DEF Slots
<1>4. /\ call' \in [count : Nat, moved : Nat, nonblock : BOOLEAN, snap : Slots,
                    n : Nat, chunk : Seq(Chars)]
      /\ call'.moved > 0 /\ call'.count = call.count - call.n
  <2>1. call.count - call.n \in Nat /\ call.moved + call.n \in Nat /\ call.moved + call.n > 0
    BY <1>2
  <2>2. <<>> \in Seq(Chars)
    OBVIOUS
  <2> QED  BY <1>1, <1>2, <2>1, <2>2
<1>5. TypeOK'
  BY <1>1, <1>3, <1>4, ProgramFrame DEF TypeOK, txRing, timing, Labels
<1>6. (WriteWindow /\ ReadWindow /\ ChunkKept /\ FullSeen /\ EmptySeen /\ Hearing)'
  <2>1. pc' = "rSnap" => call'.count > 0
    BY <1>1, <1>2, <1>4
  <2> QED  BY <1>1, <1>4, <2>1, ProgramFrame DEF WriteWindow, ReadWindow, ChunkKept, FullSeen, EmptySeen,
                                   Hearing
<1>7. Kicked'
  BY <1>1 DEF Kicked, txRing
<1> QED  BY <1>5, <1>6, <1>7, ProgramFrame

LEMMA ReadEnableSound == ASSUME Sound, Program, ReadEnable PROVE Sound'
<1> USE DEF Sound
<1>1. /\ UNCHANGED <<txRing, rxRing, timing>> /\ pc = "rEnable"
      /\ irq_enable' = irq_enable \cup {"RE"} /\ Return
  BY DEF ReadEnable
<1>2. TypeOK'
  BY <1>1, ReturnTypes, ProgramFrame DEF TypeOK, txRing, rxRing, timing, Labels
<1>3. (WriteWindow /\ ReadWindow /\ ChunkKept /\ FullSeen /\ EmptySeen)'
  BY <1>1, ReturnTypes DEF WriteWindow, ReadWindow, ChunkKept, FullSeen, EmptySeen
<1>4. Kicked' /\ Hearing'
  BY <1>1, ReturnTypes, ProgramFrame DEF Kicked, Hearing, txRing
<1> QED  BY <1>2, <1>3, <1>4, ProgramFrame

LEMMA SetTimeoutSound == ASSUME Sound, Program, SetTimeout PROVE Sound'
<1> USE DEF Sound
<1>1. /\ UNCHANGED <<irq_enable, txRing, rxRing, host_inactive, pc, call>>
      /\ timeout' \in 1 .. IntMax
  <2>1. PICK t \in Timeouts : timeout' = IF t >= 2 /\ t < IntMax THEN t ELSE IntMax - 1
    BY DEF SetTimeout
  <2>2. t \in Int /\ IntMax \in Nat /\ IntMax >= 4
    BY TimeoutAssumption
  <2>3. timeout' \in 1 .. IntMax
    BY <2>1, <2>2
  <2> QED  BY <2>3 DEF SetTimeout
<1>2. TypeOK'
  BY <1>1, ProgramFrame DEF TypeOK, txRing, rxRing
<1>3. (WriteWindow /\ ReadWindow /\ ChunkKept /\ FullSeen /\ EmptySeen /\ Kicked /\ Hearing)'
  BY <1>1, ProgramFrame DEF WriteWindow, ReadWindow, ChunkKept, FullSeen, EmptySeen, Kicked, Hearing,
              txRing, rxRing
<1> QED  BY <1>2, <1>3, ProgramFrame

-----------------------------------------------------------------------------
LEMMA SoundStep == ASSUME Sound, [Next]_vars PROVE Sound'
<1>1. CASE Host
  BY <1>1, HostSound
<1>2. CASE Interrupt
  <2>1. IrqOnly
    BY <1>2 DEF Interrupt
  <2>2. ASSUME NEW c \in setting.rx, IrqRxSplit(c) PROVE Sound'
    BY <2>1, <2>2, IrqRxSplitSound
  <2> QED  BY <1>2, <2>1, <2>2, DispatchSound, IrqPollSound, IrqRxSound, IrqRxEndSound,
              IrqTxSound
           DEF Interrupt
<1>3. CASE Tick
  BY <1>3, TickSound
<1>4. CASE Program
  <2>1. Begin \/ InCall \/ SetTimeout
    BY <1>4 DEF Program
  <2> QED  BY <1>4, <2>1, BeginSound, WriteSnapSound, WriteCopySound, WritePublishSound,
              WriteKickSound, WaitSound, ReadSnapSound, ReadCopySound, ReadPublishSound,
              ReadEnableSound, SetTimeoutSound DEF InCall
<1>5. CASE UNCHANGED vars
  BY <1>5 DEF vars, device, txRing, rxRing, timing, Sound, TypeOK, NoSpurious, WriteWindow,
              ReadWindow, ChunkKept, FullSeen, EmptySeen, Kicked, Hearing, Burst,
              GiveUp, Asked, Paused, Draining, Pending, RI, WI
<1> QED  BY <1>1, <1>2, <1>3, <1>4, <1>5 DEF Next

LEMMA Soundness == Spec => []Sound
<1>1. Init => Sound
  BY SoundInit
<1>2. Sound /\ [Next]_vars => Sound'
  BY SoundStep
<1> QED  BY <1>1, <1>2, PTL DEF Spec

-----------------------------------------------------------------------------
(* What the driver promises.                                               *)

\* Indices stay in their buffers, the queues of the device within their depth, and the
\* seconds without activity below the largest that is counted.
THEOREM TypeCorrect == Spec => []TypeOK
<1>1. Sound => TypeOK
  BY DEF Sound
<1> QED  BY <1>1, Soundness, PTL

\* alt_irq_handler always finds an active interrupt to begin with.
THEOREM NeverSpurious == Spec => []NoSpurious
<1>1. Sound => NoSpurious
  BY DEF Sound
<1> QED  BY <1>1, Soundness, PTL

\* The space altera_avalon_jtag_uart_irq reads once lasts for the burst.
THEOREM NeverOverruns == Spec => []NeverOverrun
<1>1. Sound => NeverOverrun
  BY DEF Sound, Burst, NeverOverrun
<1> QED  BY <1>1, Soundness, PTL

\* Characters in the ring buffer have the write interrupt to take them on.
THEOREM NoKickLost == Spec => []NoLostKick
<1>1. Sound => NoLostKick
  BY DEF Sound, Kicked, NoLostKick
<1> QED  BY <1>1, Soundness, PTL

\* The routine stops listening to the terminal only while characters wait in the device
\* and in the ring buffer, so that a read that takes those will listen again.
THEOREM NeverDeaf == Spec => []NoDeafness
<1>1. Sound => NoDeafness
  BY DEF Sound, Hearing, NoDeafness
<1> QED  BY <1>1, Soundness, PTL

\* Nobody begins to wait for something that has already happened: write waits on a full
\* buffer, read on an empty one with the interrupt on.
THEOREM NoWakeupLost == Spec => []NoLostWakeup
<1>1. Sound => NoLostWakeup
  <2> SUFFICES ASSUME Sound PROVE NoLostWakeup
    OBVIOUS
  <2> USE DEF Sound
  <2>1. pc = "wWait" /\ call.snap = tx_out => Next1(tx_in) = tx_out
    BY DEF FullSeen
  <2>2. ASSUME pc = "rWait", call.snap = rx_in
        PROVE  rx_in = rx_out /\ "RE" \in irq_enable
    <3>1. rx_in = rx_out /\ rx_in \in Slots
      BY <2>2 DEF EmptySeen, TypeOK
    <3> QED  BY <2>2, <3>1 DEF Hearing
  <2> QED  BY <2>1, <2>2 DEF NoLostWakeup
<1> QED  BY <1>1, Soundness, PTL

\* memcpy in altera_avalon_jtag_uart_read runs with interrupts on and still copies what
\* the terminal typed first.
THEOREM CopiesOldest == Spec => []CopiedIsOldest
<1>1. Sound => CopiedIsOldest
  <2> SUFFICES ASSUME Sound, pc = "rPublish"
               PROVE  /\ call.n <= Filled(rx_out, rx_in)
                      /\ \A k \in 1 .. call.n :
                            call.chunk[k] = Ring(rx_buf, rx_out, rx_in)[k]
    BY DEF CopiedIsOldest
  <2> USE DEF Sound
  <2>1. /\ call.n \in Nat /\ rx_out + call.n <= BufLen /\ rx_out \in Nat
        /\ call.n <= Filled(rx_out, rx_in)
    BY DEF ReadWindow, TypeOK, Slots
  <2>2. Filled(rx_out, rx_in) \in 0 .. BufLen - 1
    BY FilledIs DEF TypeOK
  <2>3. ASSUME NEW k \in 1 .. call.n
        PROVE  call.chunk[k] = Ring(rx_buf, rx_out, rx_in)[k]
    <3>1. rx_out + k - 1 \in 0 .. BufLen /\ rx_out + k - 1 # BufLen
      BY <2>1
    <3>2. (rx_out + k - 1) % BufLen = rx_out + k - 1
      BY <3>1, Wrap
    <3> DEFINE filled == Filled(rx_out, rx_in)
    <3>3. filled \in Nat /\ call.n <= filled
      BY <2>1, <2>2
    <3> HIDE DEF filled
    <3>4. k \in 1 .. filled
      BY <2>1, <3>3
    <3>5. Ring(rx_buf, rx_out, rx_in)[k] = rx_buf[(rx_out + k - 1) % BufLen]
      BY <3>4 DEF Ring, filled
    <3> QED  BY <3>2, <3>5 DEF ChunkKept
  <2> QED  BY <2>1, <2>3
<1> QED  BY <1>1, Soundness, PTL

-----------------------------------------------------------------------------
(* The ring buffers as sequences.                                          *)

\* The slot of the k-th character.
Slot(out, k) == IF out + k - 1 < BufLen THEN out + k - 1 ELSE out + k - 1 - BufLen

\* An index and an offset.
LEMMA WrapTwice == ASSUME NEW i \in 0 .. 2 * BufLen - 1
                   PROVE  i % BufLen = IF i < BufLen THEN i ELSE i - BufLen
<1>1. CASE i < BufLen
  BY <1>1
<1>2. CASE i >= BufLen
  BY <1>2
<1> QED  BY <1>1, <1>2

\* A ring buffer as a sequence.
LEMMA RingIs ==
  ASSUME NEW buf \in [Slots -> Chars], NEW out \in Slots, NEW in \in Slots
  PROVE  /\ Ring(buf, out, in) \in Seq(Chars)
         /\ Len(Ring(buf, out, in)) = Filled(out, in)
         /\ Filled(out, in) \in 0 .. BufLen - 1
         /\ \A k \in 1 .. Filled(out, in) : /\ Slot(out, k) \in Slots
                                            /\ Ring(buf, out, in)[k] = buf[Slot(out, k)]
<1> DEFINE n == Filled(out, in)  ring == Ring(buf, out, in)
<1>1. n \in 0 .. BufLen - 1
  BY FilledIs
<1>2. ASSUME NEW k \in 1 .. n PROVE (out + k - 1) % BufLen = Slot(out, k) /\ Slot(out, k) \in Slots
  <2> HIDE DEF n, ring
  <2> DEFINE i == out + k - 1
  <2>1. i \in 0 .. 2 * BufLen - 1
    BY <1>1 DEF Slots
  <2>2. i % BufLen = IF i < BufLen THEN i ELSE i - BufLen
    <3> HIDE DEF i
    <3> QED  BY <2>1, WrapTwice
  <2>3. Slot(out, k) = IF i < BufLen THEN i ELSE i - BufLen
    BY <1>1 DEF Slot, Slots
  <2> HIDE DEF i
  <2>4. Slot(out, k) \in Slots
    BY <2>1, <2>3 DEF Slots
  <2> QED  BY <2>2, <2>3, <2>4 DEF i
<1>3. ring = [k \in 1 .. n |-> buf[(out + k - 1) % BufLen]]
  BY DEF Ring
<1> HIDE DEF n, ring
<1>4. \A k \in 1 .. n : ring[k] = buf[Slot(out, k)]
  BY <1>2, <1>3
<1>5. ring \in [1 .. n -> Chars]
  BY <1>2, <1>3
<1>6. n \in Nat
  BY <1>1
<1>7. ring \in Seq(Chars) /\ Len(ring) = n
  BY <1>5, <1>6
<1> QED  BY <1>1, <1>2, <1>4, <1>7 DEF n, ring

\* One of its characters.
LEMMA RingAt ==
  ASSUME NEW buf \in [Slots -> Chars], NEW out \in Slots, NEW in \in Slots,
         NEW k \in 1 .. Filled(out, in)
  PROVE  Ring(buf, out, in)[k] = buf[Slot(out, k)]
BY RingIs

\* What is put behind the end leaves the beginning alone.
LEMMA RingGrows ==
  ASSUME NEW buf \in [Slots -> Chars], NEW new \in [Slots -> Chars],
         NEW out \in Slots, NEW in \in Slots, NEW to \in Slots,
         Filled(out, in) <= Filled(out, to),
         \A k \in 1 .. Filled(out, in) : new[Slot(out, k)] = buf[Slot(out, k)]
  PROVE  SubSeq(Ring(new, out, to), 1, Filled(out, in)) = Ring(buf, out, in)
<1>0. \A B \in [Slots -> Chars], e \in Slots :
        /\ Ring(B, out, e) \in Seq(Chars) /\ Len(Ring(B, out, e)) = Filled(out, e)
        /\ Filled(out, e) \in Nat
        /\ \A k \in 1 .. Filled(out, e) : Ring(B, out, e)[k] = B[Slot(out, k)]
  <2> TAKE B \in [Slots -> Chars], e \in Slots
  <2>1. Filled(out, e) \in 0 .. BufLen - 1
    BY FilledIs
  <2>2. Ring(B, out, e) \in Seq(Chars) /\ Len(Ring(B, out, e)) = Filled(out, e)
    BY RingIs
  <2>3. \A k \in 1 .. Filled(out, e) : Ring(B, out, e)[k] = B[Slot(out, k)]
    BY RingAt
  <2> QED  BY <2>1, <2>2, <2>3
<1> DEFINE n == Filled(out, in)  m == Filled(out, to)
           old == Ring(buf, out, in)  ring == Ring(new, out, to)
<1>1. /\ old \in Seq(Chars) /\ Len(old) = n /\ n \in Nat
      /\ \A k \in 1 .. n : old[k] = buf[Slot(out, k)]
  BY <1>0
<1>2. /\ ring \in Seq(Chars) /\ Len(ring) = m /\ m \in Nat
      /\ \A k \in 1 .. m : ring[k] = new[Slot(out, k)]
  BY <1>0
<1>3. n <= m /\ \A k \in 1 .. n : new[Slot(out, k)] = buf[Slot(out, k)]
  OBVIOUS
<1> HIDE DEF n, m, old, ring
<1>4. \A k \in 1 .. n : k \in 1 .. m /\ ring[k] = old[k]
  BY <1>1, <1>2, <1>3
<1>5. \A k \in 1 .. n : ring[k] \in Chars
  BY <1>1, <1>4
<1>6. /\ SubSeq(ring, 1, n) \in Seq(Chars) /\ Len(SubSeq(ring, 1, n)) = n
      /\ \A k \in 1 .. n : SubSeq(ring, 1, n)[k] = ring[k]
  BY <1>1, <1>2, <1>3, <1>5
<1>7. SubSeq(ring, 1, n) = old
  BY <1>1, <1>4, <1>6, SeqEqual
<1> QED  BY <1>7 DEF n, m, old, ring

\* What is taken from the beginning leaves the rest.
LEMMA RingShrinks ==
  ASSUME NEW buf \in [Slots -> Chars], NEW out \in Slots, NEW in \in Slots,
         NEW n \in 1 .. Filled(out, in), out + n <= BufLen
  PROVE  /\ (out + n) % BufLen \in Slots
         /\ Ring(buf, (out + n) % BufLen, in)
              = SubSeq(Ring(buf, out, in), n + 1, Filled(out, in))
<1> DEFINE to == (out + n) % BufLen  m == Filled(out, in)  new == Filled(to, in)
           old == Ring(buf, out, in)  ring == Ring(buf, to, in)
<1>1. /\ old \in Seq(Chars) /\ Len(old) = m /\ m \in 0 .. BufLen - 1
      /\ \A k \in 1 .. m : old[k] = buf[Slot(out, k)]
  BY RingIs
<1>2. n \in 1 .. m /\ out \in 0 .. BufLen - 1 /\ in \in 0 .. BufLen - 1
  BY DEF Slots
<1>3. to = IF out + n = BufLen THEN 0 ELSE out + n
  <2> HIDE DEF m
  <2>1. out + n \in 0 .. BufLen
    BY <1>1, <1>2
  <2> QED  BY <2>1, Wrap
<1>4. to \in Slots
  <2> HIDE DEF m, to
  <2> QED  BY <1>1, <1>2, <1>3 DEF Slots
<1>5. /\ ring \in Seq(Chars) /\ Len(ring) = new /\ new \in 0 .. BufLen - 1
      /\ \A k \in 1 .. new : ring[k] = buf[Slot(to, k)]
  <2> HIDE DEF to
  <2> QED  BY <1>4, RingIs
<1> HIDE DEF to
<1>6. new = m - n
  BY <1>2, <1>3 DEF Filled
<1>7. \A k \in 1 .. m - n : Slot(to, k) = Slot(out, n + k)
  <2> HIDE DEF m
  <2> QED  BY <1>1, <1>2, <1>3 DEF Slot
<1> DEFINE rest == SubSeq(old, n + 1, m)
<1> HIDE DEF m, new, old, ring
<1>8. rest \in Seq(Chars) /\ Len(rest) = m - n /\ \A k \in 1 .. m - n : rest[k] = old[n + k]
  BY <1>1, <1>2
<1> HIDE DEF rest
<1>9. \A k \in 1 .. m - n : ring[k] = rest[k]
  <2>1. ASSUME NEW k \in 1 .. m - n PROVE ring[k] = rest[k]
    <3>1. n + k \in 1 .. m
      BY <1>1, <1>2
    <3> QED  BY <1>1, <1>5, <1>6, <1>7, <1>8, <3>1
  <2> QED  BY <2>1
<1>10. ring = rest
  BY <1>5, <1>6, <1>8, <1>9, SeqEqual
<1> QED  BY <1>4, <1>10 DEF to, m, old, ring, rest

\* One more at the end.
LEMMA RingPut ==
  ASSUME NEW buf \in [Slots -> Chars], NEW out \in Slots, NEW in \in Slots,
         NEW c \in Chars, Next1(in) # out
  PROVE  Ring([buf EXCEPT ![in] = c], out, Next1(in)) = Append(Ring(buf, out, in), c)
<1> DEFINE n == Filled(out, in)  old == Ring(buf, out, in)
           new == [buf EXCEPT ![in] = c]  ring == Ring(new, out, Next1(in))
<1>1. /\ Next1(in) \in Slots /\ n \in 0 .. BufLen - 1 /\ Filled(out, Next1(in)) = n + 1
      /\ new \in [Slots -> Chars] /\ new[in] = c
  BY Next1Is, FilledIs
<1>2. Slot(out, n + 1) = in /\ \A k \in 1 .. n : Slot(out, k) # in
  BY DEF Filled, Slot, Slots
<1>3. \A k \in 1 .. n : new[Slot(out, k)] = buf[Slot(out, k)]
  BY <1>2, RingIs
<1>4. /\ ring \in Seq(Chars) /\ Len(ring) = n + 1 /\ ring[n + 1] = c
  <2>1. n + 1 \in 1 .. n + 1
    BY <1>1
  <2> HIDE DEF new, n
  <2>2. ring[n + 1] = new[Slot(out, n + 1)]
    BY <1>1, <2>1, RingAt
  <2> QED  BY <1>1, <1>2, <2>2, RingIs
<1>5. SubSeq(ring, 1, n) = old
  <2> HIDE DEF new
  <2> QED  BY <1>1, <1>3, RingGrows
<1>6. old \in Seq(Chars) /\ Len(old) = n
  BY RingIs
<1> HIDE DEF n, old, new, ring
<1>7. \A k \in 1 .. n : ring[k] = old[k]
  BY <1>1, <1>4, <1>5, <1>6
<1>8. ring = Append(old, c)
  BY <1>1, <1>4, <1>6, <1>7, SeqEqual, AppendProperties
<1> QED  BY <1>8 DEF old, new, ring

\* One less at the beginning.
LEMMA RingTake ==
  ASSUME NEW buf \in [Slots -> Chars], NEW out \in Slots, NEW in \in Slots, in # out
  PROVE  /\ Ring(buf, out, in) # <<>>
         /\ buf[out] = Head(Ring(buf, out, in))
         /\ Ring(buf, Next1(out), in) = Tail(Ring(buf, out, in))
<1> DEFINE n == Filled(out, in)  old == Ring(buf, out, in)
<1>1. old \in Seq(Chars) /\ Len(old) = n /\ n \in 0 .. BufLen - 1
  BY RingIs
<1>2. n >= 1 /\ out + 1 <= BufLen /\ Slot(out, 1) = out
  BY DEF Filled, Slot, Slots
<1>3. 1 \in 1 .. n
  BY <1>1, <1>2
<1>4. old[1] = buf[out]
  <2> HIDE DEF n
  <2> QED  BY <1>2, <1>3, RingAt DEF n
<1>5. Ring(buf, (out + 1) % BufLen, in) = SubSeq(old, 2, n)
  BY <1>2, <1>3, RingShrinks
<1> HIDE DEF n, old
<1>6. old # <<>>
  BY <1>1, <1>2
<1>7. Head(old) = old[1] /\ Tail(old) = SubSeq(old, 2, n)
  BY <1>1, <1>6, TailIsSubSeq
<1> QED  BY <1>4, <1>5, <1>6, <1>7 DEF Next1, old

-----------------------------------------------------------------------------
(* Two queues in a row.                                                    *)

\* The first of the two loses its oldest.
LEMMA TailOfTwo ==
  ASSUME NEW s \in Seq(Chars), NEW t \in Seq(Chars), s # <<>>
  PROVE  s \o t # <<>> /\ Tail(s \o t) = Tail(s) \o t
OBVIOUS

\* The second of the two gets a new one.
LEMMA AppendToTwo ==
  ASSUME NEW s \in Seq(Chars), NEW t \in Seq(Chars), NEW c \in Chars
  PROVE  Append(s \o t, c) = s \o Append(t, c)
OBVIOUS

\* The oldest of the second goes to the end of the first.
LEMMA PassOn ==
  ASSUME NEW s \in Seq(Chars), NEW t \in Seq(Chars), t # <<>>
  PROVE  Append(s, Head(t)) \o Tail(t) = s \o t
OBVIOUS

\* The first of the two loses its n oldest.
LEMMA DropFromTwo ==
  ASSUME NEW s \in Seq(Chars), NEW t \in Seq(Chars), NEW n \in 1 .. Len(s)
  PROVE  SubSeq(s \o t, n + 1, Len(s \o t)) = SubSeq(s, n + 1, Len(s)) \o t
<1> DEFINE all == s \o t  left == SubSeq(s, 1, n)  right == SubSeq(s, n + 1, Len(s))
           rest == SubSeq(all, n + 1, Len(all))
<1>1. /\ all \in Seq(Chars) /\ Len(all) = Len(s) + Len(t)
      /\ Len(s) \in Nat /\ Len(t) \in Nat /\ n \in 1 .. Len(s)
  BY ConcatProperties, LenProperties
<1>2. left \in Seq(Chars) /\ right \in Seq(Chars) /\ rest \in Seq(Chars)
  <2>1. /\ \A i \in 1 .. n : s[i] \in Chars
        /\ \A i \in n + 1 .. Len(s) : s[i] \in Chars
    BY <1>1, ElementOfSeq
  <2>2. \A i \in n + 1 .. Len(all) : all[i] \in Chars
    <3> HIDE DEF all
    <3> QED  BY <1>1, ElementOfSeq
  <2> HIDE DEF all
  <2> QED  BY <1>1, <2>1, <2>2, SubSeqProperties
<1>3. s = left \o right
  BY <1>1, ConcatAdjacentSubSeq, SubSeqFull
<1>4. all = left \o rest
  <2>1. SubSeq(all, 1, n) = left
    BY <1>1, SubSeqOfConcat1
  <2> HIDE DEF all, left
  <2>2. SubSeq(all, 1, n) \o SubSeq(all, n + 1, Len(all)) = SubSeq(all, 1, Len(all))
    BY <1>1, ConcatAdjacentSubSeq
  <2>3. SubSeq(all, 1, Len(all)) = all
    BY <1>1, SubSeqFull
  <2> QED  BY <2>1, <2>2, <2>3
<1>5. all = left \o (right \o t)
  <2> HIDE DEF left, right
  <2> QED  BY <1>2, <1>3, ConcatAssociative
<1> HIDE DEF all, left, right, rest
<1>6. right \o t \in Seq(Chars)
  BY <1>2, ConcatProperties
<1>7. rest = right \o t
  BY <1>2, <1>4, <1>5, <1>6, ConcatSimplifications
<1> QED  BY <1>7 DEF rest, right, all

\* The second of the two gets more at its end.
LEMMA PrefixOfTwo ==
  ASSUME NEW s \in Seq(Chars), NEW t \in Seq(Chars), NEW u \in Seq(Chars),
         Len(t) <= Len(u), SubSeq(u, 1, Len(t)) = t
  PROVE  SubSeq(s \o u, 1, Len(s \o t)) = s \o t
<1> DEFINE m == Len(s)  n == Len(t)  all == s \o u  left == SubSeq(all, 1, m + n)
<1>1. m \in Nat /\ n \in Nat /\ Len(u) \in Nat /\ n <= Len(u)
      /\ Len(s \o t) = m + n /\ s \o t \in Seq(Chars)
  OBVIOUS
<1>2. all \in Seq(Chars) /\ Len(all) = m + Len(u)
  OBVIOUS
<1>4. \A k \in 1 .. n : u[k] = t[k]
  OBVIOUS
<1>5. \A k \in 1 .. m + n : all[k] = (s \o t)[k]
  OBVIOUS
<1> HIDE DEF m, n, all
<1>3. left \in Seq(Chars) /\ Len(left) = m + n /\ \A k \in 1 .. m + n : left[k] = all[k]
  <2>1. \A k \in 1 .. m + n : all[k] \in Chars
    BY <1>1, <1>2
  <2> QED  BY <1>1, <2>1, SubSeqProperties
<1> HIDE DEF left
<1>6. left = s \o t
  BY <1>1, <1>3, <1>5, SeqEqual
<1> QED  BY <1>1, <1>6 DEF left, all

-----------------------------------------------------------------------------
(* The two queues of SerialLine.                                           *)

Outgoing == txFifo \o Ring(tx_buf, tx_out, tx_in)
Incoming == Ring(rx_buf, rx_out, rx_in) \o rxFifo

\* What each consists of, and what there is room for.
LEMMA QueuesAre ==
  ASSUME TypeOK
  PROVE  /\ txFifo \in Seq(Chars) /\ Ring(tx_buf, tx_out, tx_in) \in Seq(Chars)
         /\ rxFifo \in Seq(Chars) /\ Ring(rx_buf, rx_out, rx_in) \in Seq(Chars)
         /\ Outgoing \in Seq(Chars) /\ Incoming \in Seq(Chars)
         /\ Len(Outgoing) = Len(txFifo) + Filled(tx_out, tx_in)
         /\ Len(Incoming) = Filled(rx_out, rx_in) + Len(rxFifo)
         /\ Len(txFifo) \in 0 .. Depth /\ Filled(tx_out, tx_in) \in 0 .. BufLen - 1
         /\ Len(rxFifo) \in 0 .. Depth /\ Filled(rx_out, rx_in) \in 0 .. BufLen - 1
<1> DEFINE tx == Ring(tx_buf, tx_out, tx_in)  rx == Ring(rx_buf, rx_out, rx_in)
<1>1. /\ txFifo \in Seq(Chars) /\ Len(txFifo) \in 0 .. Depth
      /\ rxFifo \in Seq(Chars) /\ Len(rxFifo) \in 0 .. Depth
  BY DEF TypeOK
<1>2. /\ tx \in Seq(Chars) /\ Len(tx) = Filled(tx_out, tx_in)
      /\ rx \in Seq(Chars) /\ Len(rx) = Filled(rx_out, rx_in)
      /\ Filled(tx_out, tx_in) \in 0 .. BufLen - 1
      /\ Filled(rx_out, rx_in) \in 0 .. BufLen - 1
  BY RingIs DEF TypeOK
<1>3. Outgoing = txFifo \o tx /\ Incoming = rx \o rxFifo
  BY DEF Outgoing, Incoming
<1> HIDE DEF tx, rx
<1>4. /\ Outgoing \in Seq(Chars) /\ Len(Outgoing) = Len(txFifo) + Len(tx)
      /\ Incoming \in Seq(Chars) /\ Len(Incoming) = Len(rx) + Len(rxFifo)
  BY <1>1, <1>2, <1>3, ConcatProperties
<1> QED  BY <1>1, <1>2, <1>4 DEF tx, rx

\* The terminal takes the oldest character, or types one.
LEMMA HostLine ==
  ASSUME Sound, Host
  PROVE  Line!Deliver \/ Line!Typed \/ UNCHANGED <<Outgoing, Incoming>>
<1> DEFINE tx == Ring(tx_buf, tx_out, tx_in)  rx == Ring(rx_buf, rx_out, rx_in)
<1>1. tx' = tx /\ rx' = rx /\ setting' = setting
  BY DEF Host, txRing, rxRing
<1>2. /\ txFifo \in Seq(Chars) /\ tx \in Seq(Chars) /\ rxFifo \in Seq(Chars) /\ rx \in Seq(Chars)
      /\ Incoming \in Seq(Chars) /\ Len(Incoming) = Filled(rx_out, rx_in) + Len(rxFifo)
      /\ Filled(rx_out, rx_in) \in 0 .. BufLen - 1 /\ Len(rxFifo) \in 0 .. Depth
  BY QueuesAre DEF Sound
<1>3. /\ Outgoing = txFifo \o tx /\ Outgoing' = txFifo' \o tx'
      /\ Incoming = rx \o rxFifo /\ Incoming' = rx' \o rxFifo'
  BY DEF Outgoing, Incoming
<1> HIDE DEF tx, rx
<1>4. CASE HostTake
  <2>1. txFifo # <<>> /\ txFifo' = Tail(txFifo) /\ rxFifo' = rxFifo
    BY <1>4 DEF HostTake
  <2>2. Outgoing # <<>> /\ Outgoing' = Tail(Outgoing) /\ Incoming' = Incoming
    BY <1>1, <1>2, <1>3, <2>1, TailOfTwo
  <2> QED  BY <2>2 DEF Line!Deliver, Outgoing, Incoming
<1>5. CASE HostPause
  BY <1>1, <1>3, <1>5 DEF HostPause
<1>6. ASSUME NEW c \in setting.rx, HostType(c) PROVE Line!Typed
  <2>1. rxFifo' = Append(rxFifo, c) /\ txFifo' = txFifo
    BY <1>6 DEF HostType
  <2>2. c \in Chars
    BY NULIsChar DEF Sound, TypeOK
  <2>3. Incoming' = Append(Incoming, c) /\ Outgoing' = Outgoing
    BY <1>1, <1>2, <1>3, <2>1, <2>2, AppendToTwo
  <2>4. Len(Incoming') <= BufLen - 1 + Depth
    <3>1. Len(rxFifo) < Depth
      BY <1>6 DEF HostType
    <3>2. Len(Append(Incoming, c)) = Len(Incoming) + 1
      BY <1>2, <2>2, AppendProperties
    <3> QED  BY <1>2, <2>3, <3>1, <3>2
  <2> QED  BY <2>2, <2>3, <2>4 DEF Line!Typed, Outgoing, Incoming
<1> QED  BY <1>4, <1>5, <1>6 DEF Host

\* A character that comes while the device answers has been typed like any other.
LEMMA SplitLine ==
  ASSUME Sound, Sound', NEW c \in setting.rx, IrqRxSplit(c)
  PROVE  Line!Typed
<1> DEFINE rx == Ring(rx_buf, rx_out, rx_in)
<1>1. /\ UNCHANGED <<txFifo, txRing, rxRing>>
      /\ rxFifo = <<>> /\ rxFifo' = Append(rxFifo, c)
  BY DEF IrqRxSplit
<1>2. /\ rx \in Seq(Chars) /\ rxFifo \in Seq(Chars)
      /\ Incoming \in Seq(Chars) /\ Len(Incoming) = Filled(rx_out, rx_in) + Len(rxFifo)
      /\ Filled(rx_out, rx_in) \in 0 .. BufLen - 1
  BY QueuesAre DEF Sound
<1>3. c \in Chars
  BY NULIsChar DEF Sound, TypeOK
<1>4. rx' = rx /\ Outgoing' = Outgoing
  BY <1>1 DEF txRing, rxRing, Outgoing
<1>5. Incoming = rx \o rxFifo /\ Incoming' = rx' \o rxFifo'
  BY DEF Incoming
<1> HIDE DEF rx
<1>6. Incoming' = Append(Incoming, c)
  BY <1>1, <1>2, <1>3, <1>4, <1>5, AppendToTwo
<1>7. Len(Incoming') <= BufLen - 1 + Depth
  <2>1. Len(rxFifo) = 0 /\ Depth >= 1
    BY <1>1
  <2>2. Len(Append(Incoming, c)) = Len(Incoming) + 1
    BY <1>2, <1>3, AppendProperties
  <2> QED  BY <1>2, <1>6, <2>1, <2>2
<1> QED  BY <1>3, <1>4, <1>6, <1>7 DEF Line!Typed, Outgoing, Incoming

\* The routine moves characters from one half of a queue to the other.
LEMMA InterruptLine ==
  ASSUME Sound, Sound', Interrupt
  PROVE  Line!Typed \/ UNCHANGED <<Outgoing, Incoming>>
<1> DEFINE tx == Ring(tx_buf, tx_out, tx_in)  rx == Ring(rx_buf, rx_out, rx_in)
<1>1. txFifo \in Seq(Chars) /\ tx \in Seq(Chars) /\ rxFifo \in Seq(Chars) /\ rx \in Seq(Chars)
  BY QueuesAre DEF Sound
<1>2. /\ tx_buf \in [Slots -> Chars] /\ tx_in \in Slots /\ tx_out \in Slots
      /\ rx_buf \in [Slots -> Chars] /\ rx_in \in Slots /\ rx_out \in Slots
  BY DEF Sound, TypeOK
<1>3. /\ Outgoing = txFifo \o tx /\ Outgoing' = txFifo' \o tx'
      /\ Incoming = rx \o rxFifo /\ Incoming' = rx' \o rxFifo'
  BY DEF Outgoing, Incoming
<1>4. ASSUME UNCHANGED <<device, txRing, rxRing>> PROVE UNCHANGED <<Outgoing, Incoming>>
  BY <1>4 DEF device, txRing, rxRing, Outgoing, Incoming
<1>5. CASE IrqEnter \/ Dispatch \/ DispatchAgain \/ IrqPoll \/ IrqRxEnd
  BY <1>4, <1>5 DEF IrqEnter, Dispatch, DispatchAgain, IrqPoll, IrqRxEnd
<1>6. CASE IrqRx
  <2>1. UNCHANGED <<txFifo, txRing>>
    BY <1>6 DEF IrqRx
  <2>2. CASE UNCHANGED <<rxFifo, rxRing>>
    BY <2>1, <2>2 DEF txRing, rxRing, Outgoing, Incoming
  <2>3. CASE ~UNCHANGED <<rxFifo, rxRing>>
    <3>1. /\ ~RxFull /\ rxFifo # <<>> /\ rxFifo' = Tail(rxFifo) /\ rx_out' = rx_out
          /\ rx_buf' = [rx_buf EXCEPT ![rx_in] = Head(rxFifo)] /\ rx_in' = Next1(rx_in)
      BY <1>6, <2>3 DEF IrqRx
    <3>2. Head(rxFifo) \in Chars
      BY <1>1, <3>1
    <3>3. rx' = Append(rx, Head(rxFifo))
      BY <1>2, <3>1, <3>2, RingPut DEF RxFull
    <3>4. tx' = tx /\ txFifo' = txFifo
      BY <2>1 DEF txRing
    <3> HIDE DEF rx, tx
    <3> QED  BY <1>1, <1>3, <3>1, <3>3, <3>4, PassOn
  <2> QED  BY <2>2, <2>3
<1>7. CASE IrqTx
  <2>1. UNCHANGED <<rxFifo, rxRing, tx_buf, tx_in>> /\ ipc = "tx"
    BY <1>7 DEF IrqTx
  <2>2. CASE ~(latch.space > 0 /\ tx_out # tx_in)
    <3>1. UNCHANGED <<txFifo, tx_out>>
      BY <1>7, <2>2 DEF IrqTx
    <3> QED  BY <2>1, <3>1 DEF rxRing, Outgoing, Incoming
  <2>3. CASE latch.space > 0 /\ tx_out # tx_in
    <3>1. Len(txFifo) < Depth
      <4>1. latch.space \in 0 .. Depth /\ Len(txFifo) \in Nat /\ latch.space <= Depth - Len(txFifo)
        BY <2>1 DEF Sound, TypeOK, Burst
      <4> QED  BY <2>3, <4>1
    <3>2. txFifo' = Append(txFifo, tx_buf[tx_out]) /\ tx_out' = Next1(tx_out)
      BY <1>7, <2>3, <3>1 DEF IrqTx
    <3>3. tx # <<>> /\ tx_buf[tx_out] = Head(tx) /\ tx' = Tail(tx)
      BY <1>2, <2>1, <2>3, <3>2, RingTake
    <3>4. rx' = rx /\ rxFifo' = rxFifo
      BY <2>1 DEF rxRing
    <3> HIDE DEF rx, tx
    <3> QED  BY <1>1, <1>3, <3>2, <3>3, <3>4, PassOn
  <2> QED  BY <2>2, <2>3
<1>8. ASSUME NEW c \in setting.rx, IrqRxSplit(c) PROVE Line!Typed
  BY <1>8, SplitLine
<1> QED  BY <1>5, <1>6, <1>7, <1>8 DEF Interrupt

\* write fills slots nobody reads, and then shows them all at once.
LEMMA WriteLine ==
  ASSUME Sound, Sound', Program, WriteCopy \/ WritePublish
  PROVE  Line!Accept \/ UNCHANGED <<Outgoing, Incoming>>
<1> DEFINE tx == Ring(tx_buf, tx_out, tx_in)
           m  == Filled(tx_out, tx_in)
<1>1. /\ txFifo' = txFifo /\ Incoming' = Incoming /\ tx_out' = tx_out
      /\ Outgoing = txFifo \o tx /\ Outgoing' = txFifo \o tx'
  BY ProgramFrame DEF WriteCopy, WritePublish, rxRing, Outgoing, Incoming
<1>2. /\ tx_buf \in [Slots -> Chars] /\ tx_in \in Slots /\ tx_out \in Slots
      /\ tx_buf' \in [Slots -> Chars] /\ tx_in' \in Slots /\ call.n \in Nat
  BY DEF Sound, TypeOK
<1>3. /\ call.n >= 1 /\ tx_in + call.n <= BufLen /\ m + call.n <= BufLen - 1
      /\ m \in 0 .. BufLen - 1
  <2>1. pc \in {"wCopy", "wPublish"}
    BY DEF WriteCopy, WritePublish
  <2>2. call.n \in 1 .. call.count /\ tx_in + call.n <= BufLen /\ m + call.n <= BufLen - 1
    BY <2>1 DEF Sound, WriteWindow
  <2>3. m \in 0 .. BufLen - 1 /\ call.count \in Nat
    BY <1>2, FilledIs DEF Sound, TypeOK
  <2> QED  BY <2>2, <2>3
<1>4. CASE WriteCopy
  <2>1. tx_in' = tx_in
    BY <1>4 DEF WriteCopy
  <2>2. ASSUME NEW k \in 1 .. m PROVE tx_buf'[Slot(tx_out, k)] = tx_buf[Slot(tx_out, k)]
    <3>1. PICK s \in [tx_in .. tx_in + call.n - 1 -> setting.tx] :
            tx_buf' = [i \in DOMAIN tx_buf |-> IF i \in DOMAIN s THEN s[i] ELSE tx_buf[i]]
      BY <1>4 DEF WriteCopy
    <3>2. Slot(tx_out, k) \in Slots
      BY <1>2, RingIs
    <3>3. Slot(tx_out, k) \notin tx_in .. tx_in + call.n - 1
      BY <1>2, <1>3, SMTT(30) DEF Slot, Slots, Filled
    <3> QED  BY <1>2, <3>1, <3>2, <3>3
  <2>3. SubSeq(tx', 1, m) = tx
    <3>1. m <= Filled(tx_out, tx_in)
      BY <1>3
    <3>2. SubSeq(Ring(tx_buf', tx_out, tx_in), 1, m) = Ring(tx_buf, tx_out, tx_in)
      BY <1>2, <2>2, <3>1, RingGrows
    <3>3. tx' = Ring(tx_buf', tx_out, tx_in)
      BY <1>1, <2>1
    <3> QED  BY <3>2, <3>3
  <2>4. tx' \in Seq(Chars) /\ Len(tx') = m
    BY <1>1, <1>2, <2>1, RingIs
  <2>5. SubSeq(tx', 1, m) = tx'
    <3> HIDE DEF tx
    <3> QED  BY <2>4, SubSeqFull
  <2> QED  BY <1>1, <2>3, <2>5
<1>5. CASE WritePublish
  <2>1. tx_buf' = tx_buf /\ tx_in' = (tx_in + call.n) % BufLen
    BY <1>5 DEF WritePublish
  <2>2. tx_in' = IF tx_in + call.n = BufLen THEN 0 ELSE tx_in + call.n
    <3>1. tx_in + call.n \in 0 .. BufLen
      BY <1>2, <1>3 DEF Slots
    <3> QED  BY <2>1, <3>1, Wrap
  <2>3. Filled(tx_out, tx_in') = m + call.n
    BY <1>2, <1>3, <2>2 DEF Filled, Slots
  <2>4. SubSeq(tx', 1, m) = tx
    <3>1. m <= Filled(tx_out, tx_in')
      BY <1>2, <1>3, <2>3
    <3>2. \A k \in 1 .. m : tx_buf'[Slot(tx_out, k)] = tx_buf[Slot(tx_out, k)]
      BY <2>1
    <3>3. SubSeq(Ring(tx_buf', tx_out, tx_in'), 1, m) = Ring(tx_buf, tx_out, tx_in)
      BY <1>2, <3>1, <3>2, RingGrows
    <3>4. tx' = Ring(tx_buf', tx_out, tx_in')
      BY <1>1
    <3> QED  BY <3>3, <3>4
  <2>5. /\ tx \in Seq(Chars) /\ Len(tx) = m /\ tx' \in Seq(Chars) /\ Len(tx') = m + call.n
        /\ txFifo \in Seq(Chars) /\ Outgoing' \in Seq(Chars)
        /\ Len(Outgoing) = Len(txFifo) + m /\ Len(Outgoing') = Len(txFifo) + m + call.n
        /\ Len(txFifo) \in 0 .. Depth
    <3>1. tx \in Seq(Chars) /\ Len(tx) = m /\ tx' \in Seq(Chars) /\ Len(tx') = m + call.n
      BY <1>1, <1>2, <2>1, <2>3, RingIs
    <3>2. txFifo \in Seq(Chars) /\ Len(Outgoing) = Len(txFifo) + m /\ Len(txFifo) \in 0 .. Depth
      BY QueuesAre DEF Sound
    <3> HIDE DEF m, tx
    <3>3. Outgoing' \in Seq(Chars) /\ Len(Outgoing') = Len(txFifo) + Len(tx')
      BY <1>1, <3>1, <3>2, ConcatProperties
    <3> QED  BY <1>2, <1>3, <3>1, <3>2, <3>3
  <2> HIDE DEF m, tx
  <2>6. SubSeq(Outgoing', 1, Len(Outgoing)) = Outgoing
    <3>1. Len(tx) <= Len(tx') /\ SubSeq(tx', 1, Len(tx)) = tx
      BY <1>2, <1>3, <2>4, <2>5
    <3> QED  BY <1>1, <2>5, <3>1, PrefixOfTwo
  <2>7. Len(Outgoing') \in Len(Outgoing) + 1 .. BufLen - 1 + Depth
    BY <1>2, <1>3, <2>5
  <2> QED  BY <1>1, <2>5, <2>6, <2>7 DEF Line!Accept, Outgoing, Incoming
<1> QED  BY <1>4, <1>5

\* read gives back the slots it has copied.
LEMMA ReadLine ==
  ASSUME Sound, Program, ReadPublish
  PROVE  Line!HandOver
<1> DEFINE rx == Ring(rx_buf, rx_out, rx_in)
           n  == call.n
<1>1. /\ Outgoing' = Outgoing /\ rxFifo' = rxFifo /\ rx_buf' = rx_buf /\ rx_in' = rx_in
      /\ rx_out' = (rx_out + n) % BufLen
      /\ Incoming = rx \o rxFifo /\ Incoming' = rx' \o rxFifo
  BY ProgramFrame DEF ReadPublish, txRing, Outgoing, Incoming
<1>2. /\ rx_buf \in [Slots -> Chars] /\ rx_in \in Slots /\ rx_out \in Slots
  BY DEF Sound, TypeOK
<1>3. /\ n \in 1 .. Filled(rx_out, rx_in) /\ rx_out + n <= BufLen
      /\ rx \in Seq(Chars) /\ Len(rx) = Filled(rx_out, rx_in)
  <2>1. n \in 1 .. call.count /\ rx_out + n <= BufLen /\ n <= Filled(rx_out, rx_in) /\ n \in Nat
    BY DEF Sound, ReadWindow, ReadPublish, TypeOK
  <2>2. rx \in Seq(Chars) /\ Len(rx) = Filled(rx_out, rx_in) /\ Len(rx) \in Nat
    BY <1>2, RingIs
  <2> HIDE DEF rx
  <2> QED  BY <2>1, <2>2
<1>4. rx' = SubSeq(rx, n + 1, Len(rx))
  BY <1>1, <1>2, <1>3, RingShrinks
<1>5. /\ rxFifo \in Seq(Chars) /\ Len(Incoming) = Filled(rx_out, rx_in) + Len(rxFifo)
      /\ Len(rxFifo) \in Nat /\ Filled(rx_out, rx_in) \in Nat
  BY QueuesAre DEF Sound
<1> HIDE DEF rx, n
<1>6. Incoming' = SubSeq(Incoming, n + 1, Len(Incoming))
  BY <1>1, <1>3, <1>4, <1>5, DropFromTwo
<1>7. n \in 1 .. Len(Incoming)
  BY <1>3, <1>5
<1> QED  BY <1>1, <1>6, <1>7 DEF Line!HandOver, Outgoing, Incoming

\* Every step is one of the abstract queues, or none.
LEMMA LineStep ==
  ASSUME Sound, Sound', [Next]_vars
  PROVE  [Line!Next]_<<Outgoing, Incoming>>
<1>1. CASE Host
  BY <1>1, HostLine DEF Line!Next
<1>2. CASE Interrupt
  BY <1>2, InterruptLine DEF Line!Next
<1>3. CASE Tick
  BY <1>3 DEF Tick, txRing, rxRing, Outgoing, Incoming
<1>4. CASE Program
  <2>1. CASE WriteCopy \/ WritePublish
    BY <1>4, <2>1, WriteLine DEF Line!Next
  <2>2. CASE ReadPublish
    BY <1>4, <2>2, ReadLine DEF Line!Next
  <2>3. CASE ~(WriteCopy \/ WritePublish \/ ReadPublish)
    <3>1. UNCHANGED <<txRing, rxRing>>
      BY <1>4, <2>3 DEF Program, InCall, Begin, WriteSnap, WriteKick, WriteWait, WriteCheck,
                        ReadSnap, ReadCopy, ReadWait, ReadCheck, ReadEnable, Close, SetTimeout
    <3>2. UNCHANGED <<txFifo, rxFifo>>
      BY <1>4, ProgramFrame
    <3> QED  BY <3>1, <3>2 DEF txRing, rxRing, Outgoing, Incoming
  <2> QED  BY <2>1, <2>2, <2>3
<1>5. CASE UNCHANGED vars
  BY <1>5 DEF vars, device, txRing, rxRing, Outgoing, Incoming
<1> QED  BY <1>1, <1>2, <1>3, <1>4, <1>5 DEF Next

\* Whatever the interleaving of program, interrupt and terminal, each direction of the
\* port is one bounded first-in first-out queue: altera_avalon_jtag_uart_write, _read and
\* _irq neither lose, repeat nor reorder a character.
THEOREM KeepsTheLine == Spec => ImplementsLine
<1>1. Init => Line!Init
  <2> SUFFICES ASSUME Init PROVE Outgoing = <<>> /\ Incoming = <<>>
    BY DEF Line!Init, Outgoing, Incoming
  <2>1. TypeOK
    BY SoundInit DEF Sound
  <2>2. Len(Outgoing) = 0 /\ Len(Incoming) = 0
    BY <2>1, QueuesAre DEF Init, Filled
  <2> QED  BY <2>1, <2>2, QueuesAre
<1>2. Sound /\ Sound' /\ [Next]_vars => [Line!Next]_<<Outgoing, Incoming>>
  BY LineStep
<1> QED  BY <1>1, <1>2, Soundness, PTL DEF Spec, ImplementsLine, Line!Spec, Outgoing, Incoming

=============================================================================
