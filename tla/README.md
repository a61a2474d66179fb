# A model of the Duet game

The repository is a Duet-like game for an Altera DE2-115 board: two balls on a
circle at the bottom of a VGA screen, turned with the left and right keys of a
USB keyboard, and three levels of ten obstacles that fall on them. The game is
hardware (SystemVerilog); the keyboard is driven by a C program on a soft
processor in the same FPGA. The program runs on a board support package that is
part of the repository: the serial port it prints to, file descriptors,
interrupts and alarms.

This directory holds TLA+ modules of the parts that carry the game's logic, TLC
configurations that check them on small instances, and theorems that TLAPS
checks for every value of the constants.

## The system

| Part | Source | State | Operations |
|---|---|---|---|
| state machine | `block_SM.sv` | `state` (37 literals), `counter`, `seconds`, `hidden`, `pstart` and their counters | clock edge, Reset, asynchronous load on a Collision line |
| obstacle (30 of them) | `block.sv` | `Block_Y_Pos`, `end_level` | frame edge, asynchronous clear |
| ball (2) | `ball.sv`, `Sin_Cos.sv` | `next_index`, position, `Collision`, `paint`, `block_hit`, table registers | frame edge with or without contact, Reset, reset by the other ball's Collision line |
| video timing | `VGA_controller.sv` | `clkdiv`, `hc`, `vc`, `hs`, `vs` | clock edge, Reset |
| keyboard program | `software/usb_kb/main.c`, `usb.c` | where it is, `usb_ctl_val`, the key code register | enumerate, poll, wait for a message, notice removal |
| serial port | `usb_kb_bsp/drivers/`: the JTAG UART driver, with `usb_system_jtag_uart.v` | two ring buffers, the interrupt enables, `host_inactive`, `timeout`; in the device two queues and the pause interrupt | `read`, `write`, `close`, `ioctl`, the interrupt routine, the alarm of every second |
| interrupt dispatch | `HAL/src/alt_irq_entry.S`, `alt_irq_handler.c`, `HAL/inc/sys/alt_irq.h` | the processor's interrupt enable | enter, call the routine, look again, return |
| file descriptors | `HAL/src/alt_open.c`, `alt_close.c`, `alt_fd_lock.c` and ten more | `alt_fd_list`, `alt_max_fd` | `open`, `close`, lock and unlock, `fcntl`, redirection of the standard streams |
| system clock | `HAL/src/alt_tick.c`, `alt_alarm_start.c`, `alt_gettod.c`, `alt_settod.c` | `_alt_nticks`, the alarm list, `alt_resettime` | tick, start and stop an alarm, callbacks, set and get the time of day |
| top level | `FinalProject.sv` | none of its own | wires the parts together |
| drawing | `Color_Mapper.sv`, the ROMs, `HexDriver.sv` | none | one pixel, one digit |

How they interact:

- The 50 MHz clock drives the state machine and the video timing. The vertical
  sync `vs` of the video timing is the *clock* of balls and obstacles
  (`FinalProject.sv:169-205`), about 60 Hz.
- The state machine's `block_ready` and `rect_ready` let obstacles fall; each
  obstacle's `end_level` comes back and ends a level; `restart` clears them all.
- A ball that touches an obstacle raises its `Collision` line. The line is an
  asynchronous input everywhere: it resets the other ball, clears all obstacles
  and loads the state machine, within the same instant.
- The keyboard program writes a key code register that balls and state machine
  read whenever their clock comes.
- Every line the keyboard program prints goes through a standard stream to
  `write` of the serial port, before `main` redirected to it by `alt_io_redirect`.
  The call shares the ring buffer and the enables with the interrupt routine,
  which runs between any two of its instructions. Since the program cannot poll
  while it waits in `write`, the serial port can hold up the game's keyboard.
- The driver of the serial port asks for an alarm of the system clock. This
  board has no timer, so it gets none and takes the terminal for connected for
  ever (`altera_avalon_jtag_uart_init.c:89-96`).

What is hard about it is listed under `hazards` in PROJECT.json, each at its
line. In short: two clocks with asynchronous lines between them (a hit races
with the combinational `next_state` it changes; both balls may be hit at one
edge); timers compared for equality; registers that outlive the attempt they
belong to; tables that answer a frame late; a program that sends requests again
while the first may still be answered; a message register that is read and
cleared in two steps; ring buffers, interrupt enables and wake-up conditions
shared between a call and an interrupt routine; a list that is changed while it
is walked; a counter that rolls over.

## The modules

| Module | Models |
|---|---|
| `BlockSM` | the state machine: states, transitions, timers, outputs |
| `Obstacle` | one obstacle, as operators on its two registers |
| `Duet` | the running game: both of the above with the hit lines, the two clocks, Reset and the key |
| `LevelGame` | abstract: what the game promises, without clocks, timers or heights |
| `Ball` | both balls with their tables, hits and paint, at the code's real sizes |
| `Vga` | the sync generator |
| `UsbHost` | the keyboard program, with controller and keyboard as environment |
| `JtagUart` | the serial port: driver, interrupt routine, dispatcher and device |
| `SerialLine` | abstract: two bounded first-in first-out queues |
| `FdTable` | the pool of file descriptors and its calls |
| `SysClock` | the alarms and the time of day |
| `Countdown` | abstract: alarms that go off after the ticks they were set to |
| `MCDuet`, `MCBall`, `MCJtag`, `MCFd`, `MCClock` | the definitions the configurations need |
| `DuetProofs`, `RulesProofs`, `BallProofs`, `VgaProofs`, `UsbProofs`, `JtagProofs`, `FdProofs`, `ClockProofs` | the theorems |

Definitions keep the names of the code where they can. Operators that begin with
"Faulty variant" in their comment are mistakes one could make in the code; no
specification uses them. For each property one of them, put in the place of the
right definition, makes the property fail (`mutants` in PROJECT.json).

### BlockSM, Obstacle and Duet

`state` is the position of the literal in the enumeration, so `BLOCK(k)` is
`6 + k` and the thirty nearly equal arms of the two `case` statements become
arithmetic on it: `Expiry(s)` is the literal `seconds` is compared with,
`LevelStart` where a hit leads, `Closing` the three states that wait for
`end_level`, `Ready(i)` the ready lines. `N` (10 in the code) is the number of
obstacles in a level; the literals 3, 5, 7 ... and 6, 7, 8 ... are functions of
the obstacle's place in its level.

An action of `Duet` is one clock event with everything it sets off
asynchronously:

- `ClkEdge`: a 50 MHz edge. With a Collision line high it loads the restart
  state; otherwise it takes the transition and counts. Entering RESET raises
  `restart`, which clears the obstacles at once.
- `FrameEdge`: a frame without contact. Hit lines drop; obstacles fall, unless
  they were held clear when the edge came.
- `HitEdge(b)`, `DoubleHitEdge`: a frame edge at which one ball or both are in
  contact. The state machine is loaded with the value `next_state` had before
  the line rose, with the default `next_state = state`, or with the value after
  it: the synthesis report (`output_files/FinalProject.map.rpt:11271-11290`) shows that the
  asynchronous load is emulated with a latch, so any of the three may win.
- `ResetButton`, `KeyChange`: at any time.

A ball may touch any obstacle in the band of heights its circle can reach (306
to 454 in the code, `HitTop` to `HitBottom`), drawn or not, since `ball.sv` looks
at positions only. That is more than can happen on the screen, so what holds
here holds for every path of the balls.

The ratio of the clocks is left open: all that is used is that there is at least
one clock edge between two frame edges (there are 840000).

`LevelGame` is the abstract specification: a level and the set of its obstacles
that have fallen. `PlaysByTheRules` says that `Duet` implements it under the mapping
`levelNow`, `fallenNow`.

### Ball

Index, position, tables and paint of both balls at their real sizes: sixty
places, radius 60, tables times 1000 with the code's truncating division
(`Quarter` and `CoQuarter` hold the sixteen different entries of `Sin_Cos.sv`). Each
table register holds the entry of the index before the last edge, and zero at
power-up. A register without an entry for its address keeps what it has.

The obstacles a ball touches are an input of `Hit` and `DoubleHit`, so that any layout of
obstacles is allowed for. `Touches` is the overlap formula of `ball.sv:101-223`, and
`Contact` what the inputs are held to because of it: balls in one place touch the same
obstacles, and only balls near each other (`Near`) touch one obstacle both. The balls can
meet, so it would be wrong to assume that they never do; that `Contact` leaves out no case
is the theorem `NoContactMissed`.

At a double hit either line may survive or none, and a line that fell again may or may not have made the
other ball give up its paint. `block_hit` changes together with the line that
tells the other ball to read it (`ball.sv:238`), so the previous value may be read as
well, after a single hit and after a double one. The previous value may even name the
obstacle the other ball is hitting now, which then loses the colour it has just got;
`HitIsPainted` names this case (`Retaken`).

### Vga

Both counters and both sync registers, compared as the code does with the
counter plus one. The sizes are constants so that the theorems hold for all.

### UsbHost

One action per step of the program that touches the controller: writing a
request, starting the controller on it, looking at the message flag, reading the
message, clearing it, checking the control byte, and so on; `pc` is the place in
`main.c` or in the function of `usb.c` it has called. All nine requests are the one
pair of actions `Send` (the descriptors, `usb.c:113-138`) and `Start` (the pointer,
`usb.c:139`), told apart by `step`; the polls are step `Poll`. The accesses that write the
descriptors are one step: the answer, which is what could fall between them, says nothing
of descriptors other than the first.

The controller and the keyboard are environment: an answer comes at any moment,
also between any two steps of the program, between the writing and the start, and for a
request that was sent again as well. `running` is the request the controller has not
answered yet. It has one pointer to descriptors (`lcp_data.h:30`) and answers once when it
is through with them, so that writing over a request it is still at leaves it at the old
one or turns that into the new one, and starting it again lets it go on or begin anew.
A keyboard that has its address may carry out a request that comes too early, or refuse it.
The three answers (`Accept`, `Report`, `Fail`) are what the program takes them
to be, with one control byte for the whole request; no part of the repository defines
them. Reading the
message register lowers the message flag, which is what the loops of the program
rely on. Debounce loops keep their first
and last reading; a reading in between that finds the keyboard has the effect of
the last.

### JtagUart

One action per access to something the other side may change: reading the
indices, copying, publishing the new index, the kick with interrupts off, the
end of a waiting loop, and in the interrupt routine one per character. `pc` is
the place in the call, `ipc` the place in the interrupt; the program moves only
while `ipc` is "off", the terminal at any time, so its characters arrive within a
burst too. The two copies of the enables, in the driver and in the device, are
one variable since they are always assigned together. `latch` is what the routine
read of the control register at the top of its loop and of the data register
last: both are stale from then on. The device takes RVALID at the edge of the bus cycle
and returns RAVAIL a cycle later (`usb_system_jtag_uart.v:505-515`). A character
that enters an empty queue in between is the action `IrqRxSplit`: the routine reads that
there was none and that one is left. (Two bits of one read that differ by an arrival in
a queue that is not empty differ as if the character had come before the read.) The state
"astray" of `ipc` is the endless search of `alt_irq_handler` without an interrupt.

A call's variables die with it, so each call is described by its length, the
characters it copies (chosen when it does) and O_NONBLOCK. A `clock` in the
setting says whether `alt_alarm_start` succeeded. On this board it does not, and
`Tick` and `SetTimeout` do nothing then; with it they are the alarm and the ioctl.
The pause interrupt is raised by the terminal and withdrawn by a read of the
data register, as in `usb_system_jtag_uart.v:435-444`.

`SerialLine` is what a user sees: `ImplementsLine` maps its outgoing queue to the
queue of the device followed by the ring buffer, and the incoming one to the ring
buffer followed by the queue.

### FdTable

A call is one step: the semaphore macros are empty on this HAL and no interrupt
routine uses the pool. `OpenOutcomes` is the whole of `open` with the search for
the device, `alt_get_fd`, `alt_file_locked`, the device's own `open` and the way out of
a failure; `Redirect` is one line of `alt_io_redirect`. `owned` is the only variable the
code does not have: the descriptors `open` has returned and the program has not
closed, since `close`, `ioctl` and `fcntl` are modelled for descriptors it holds only.

### SysClock

A tick is a walk over the list: `Tick` counts, `Visit` is a round of the loop up to
the callback, `Callback` any start or stop of an alarm within it, `Return` what the
loop does with the returned period. `next` and `previous` are the links as they are,
with an alarm that was stopped pointing to itself. `succ` is the local variable
`next` of `alt_tick`, kept over the callback. Calls of the program have interrupts
off and are one step between two ticks. Every place in which the code relies on
32 bits has `% Word`. `Countdown` is the abstract clock: `Left` maps the state of an alarm
to the ticks it has left. `Rate` is any number but zero, as in `alt_sysclk_init`; the
microseconds are counted by the truncated `US \div Rate` as in `alt_gettod.c:92-93`.

## What the runs check

| Run | Instance | Shows |
|---|---|---|
| `Duet` | 3 obstacles a level, screen of height 5 | type, `NoInvisibleObstacle`, `InReleaseOrder`, `NoOvershoot`, `HitRestartsLevel`, `EndLevelIsFresh`, the refinement `PlaysByTheRules`, and `WinEnds`, `SurvivorWins` |
| `Ball` | real circle, 2 obstacles, all keys | type, `NearlyOpposite`, `HitIsPainted`, `LeavesCircleOnce` |
| `Vga` | real sizes | `SyncPulses`, `NoTearing`, `FramesGoOn` |
| `UsbHost` | 9 requests, two keys and none | `OneAhead`, `NoSecondAnswer`, `KeyArrives`, `RemovalNoticed` |
| `JtagUart` | buffers of 3, queues of 2, both directions, with and without clock | type, `NoSpurious`, `NeverOverrun`, `NoLostKick`, `NoDeafness`, `NoLostWakeup`, `CopiedIsOldest`, the refinement `ImplementsLine` |
| `JtagLive` | the same sizes, fewer characters | `TerminalFreesWriter`, `TimeoutFreesProgram` |
| `FdTable` | 6 descriptors, 2 devices, a file system | `HighWater`, `NoLeak`, `StreamsWork`, `OneHolder`, `LockKept`, `DescriptorStable` |
| `SysClock` | 3 alarms, a counter of 4 ticks, a rate that does not divide a second | `OneList`, the refinement `ImplementsCountdown`, `TickEnds`, `GoesForward` |
| `BallRest`, `UsbRetry`, `FdLock`, `ClockSet` | | the four disagreements below |

The bounds:

- `Duet`: three obstacles a level give a first, a middle and a last one, so
  that order, release and closing differ. A second lasts two clock edges. Height
  5 with the band 2 to 4 lets the obstacles of the three levels (steps 1, 2 and 3)
  pass above, within and below the band, with several on the screen. Nothing is
  capped: `seconds` is bounded by `NoOvershoot`.
- `Ball`: real sizes. The two obstacles are the last square and the first
  rectangle, whose paint indices meet. Every frame may touch either, both or none, so
  more obstacles would add no path of the balls. `BallRest` has one obstacle and the right key, the
  smallest instance in which red, never off the circle before, comes to rest on blue.
- `UsbHost`: the real number of requests; two keys so that a change from one to
  the other is possible.
- `JtagUart`, `JtagLive`: a ring buffer of 3 holds two characters, so that indices wrap within a
  call of up to three; a queue of 2 with the threshold 1 has an interrupt while it is
  half full, as the real one of 64 with threshold 8. One direction at a time has two
  different characters, so that an order can be told; both directions at once have one.
  INT_MAX is 5 and the timeout 2 seconds or "never".
- `FdTable`: six descriptors are three standard ones and three to hand out, so that
  the lowest free one need not be the highest. One device is the console of all
  three streams as in `system.h`, and the file system may refuse, which stands
  for every open callback that fails.
- `SysClock`: three alarms are one that is called back, the next and one behind it.
  Delays and periods are all the counter of four ticks allows, so every alarm
  crosses the roll-over. There are two ticks to a second of five "microseconds" in `SysClock`,
  so that a tick loses a part of one and the time of day slips; of six in `ClockSet`,
  where the 32-bit product overflows although the rate divides a second.

Deadlock is checked in every run. In `UsbHost` somebody can always touch the keyboard,
so a program that waits for ever is no deadlock there; `KeyArrives`, `RemovalNoticed`
and `NoSecondAnswer` are what speaks of such waits. So can the terminal in `JtagUart`,
where `NoLostWakeup` and the two liveness properties do.

### Fairness

- `Duet`: weak fairness of the clock edge and of the frame edges taken together
  (with or without a hit). The oscillator does not stop, and `Vga`'s `FramesGoOn`
  is the reason for the second. Nothing is assumed of hits, Reset or keys:
  `SurvivorWins` says what follows once hits and Resets end.
- `Vga`: weak fairness of the clock edge.
- `UsbHost`: weak fairness of the program (the processor runs) and of an answer
  that can be given (the program takes every transfer to end; it has no
  time-out). Strong fairness of `HotPlug` stands for a controller that sooner or
  later acknowledges its initialisation before the program looks, once
  (`main.c:116`). Nothing is assumed of the person at the keyboard. `KeyArrives` and
  `RemovalNoticed` allow one way out besides the promised one: `Wiped`, the
  program waiting for a message that it has itself cleared.
- `JtagUart`: weak fairness of the interrupt and of the alarm. The program gets the
  processor again and again but may be interrupted each time, hence strong
  fairness of the steps of a call; an interrupt that is always pending again may
  hold it for a while, and the property says nothing of how long. Nothing is
  assumed of the terminal: `TerminalFreesWriter` says what follows if it goes on taking
  characters.
- `SysClock`: weak fairness of the rounds of the walk and of the return of a
  callback. Ticks need not come.

### Where the code and its comments disagree

- `BallRest`: "2 balls 180 degrees from each other" (`ball.sv:18`). `RestApart` asks only
  that balls at rest are in two places. But red is hit at the bottom of the circle (index
  16) and the key is released: the table still answers for index 16 in the next frame
  and puts red in the middle, and a ball without a key goes to the left of the centre
  whenever it is not to the right of it (`ball.sv:293`), so the frame after that puts
  red on blue's start, (260, 390). With the left key a second way leads there: as long as
  red has not moved, its table for `index - 1` is empty (address 0 has no entry), so two
  frames of the left key as the first one put red at the centre, (320, 390).
- `UsbRetry`: "Call the appropriate function again if it wasn't processed
  successfully" (`main.c:198`). In steps 4 to 9 a request whose control byte is not
  clean is never sent again; the program loops or waits for ever. Step 3 alone
  starts over. `NoSecondAnswer` shows that the wait at `usb.c:565`, once reached,
  never ends: the message that led into it was the last one.
- `FdLock`: an ioctl "to gain exclusive access to a device" is granted "If there are no
  other open file descriptors which reference the same device"
  (`alt_fd_lock.c:38-45`). The loop stops one short of the highest descriptor, so a
  device open there as well is locked all the same. `OneHolder` and `LockKept` are what
  does hold: two locks never come of it, since `alt_file_locked` has the right bound.
- `ClockSet`: "an immediate call to gettimeofday() would return the value specified"
  (`alt_settod.c:62-63`). The product of ticks and microseconds has 32 bits there and
  64 in `alt_gettod.c:93`; from 71.6 minutes after reset on they differ.

Other statements are wrong in ways that a passing run puts right, by a property that says
how far they hold:

- The vertical sync pulse is not "at line 490-491" (`VGA_controller.sv:98`) but
from the second pixel of line 489 to the first of line 491 (`SyncPulses`).
- After a key held over a hit the indices of the balls are 29 or 31 of 60 apart rather than
  opposite (`ball.sv:18`, `NearlyOpposite`).
- "If there is still data available here then the buffer is full"
  (`altera_avalon_jtag_uart_init.c:158`): not when a character came between RVALID and RAVAIL.
  The read interrupt is then off although the ring buffer has room. But the routine
  has emptied the queue into the ring buffer just before, so that the next `read`
  finds a character and turns the interrupt on: nobody waits for a character that
  has come, which is what `NoDeafness` and `NoLostWakeup` say.
- The nine requests are meant to be carried out one after the other (`main.c:164-437`).
  A request that was sent again may still be running when the program has passed its
  check, and its answer then marks the control byte of the next one clean. So a request
  may be passed over; `OneAhead` says that the next one after it is not.
- "ALT_US/alt_ticks_per_second" is taken for the length of a tick (`alt_gettod.c:92-93`),
  although it is truncated. At 1024 ticks a second the time of day goes from 1.999424 to
  1.000400. `GoesForward` says at which ticks this happens (`Slips`, none if the rate
  divides a second) and that it is by no more than a second.

## What is proved

All theorems hold for every value of the constants that the named assumptions
allow (`NAssumption`: at least two obstacles a level; `ReachAssumption`: the band
begins below the top and ends on the screen; and so on).

- `DuetProofs`: `TypeCorrect` first. The properties of obstacles are inductive only
  together and with `HeldClear` (while a Collision line or `restart` is high every
  obstacle is clear): a level ends on the last obstacle's `end_level`, so that no
  other is left on the screen needs the release order and the freshness of
  `end_level`. Their conjunction is `ObstacleInv`, from which `NothingInvisible`,
  `KeepsOrder` and `NoStaleEndLevel` follow. `TimersExpire` rests on `ExpiryGrows`:
  where a state is entered with the timer running on, its literal is larger.
  `RaceSettles` needs `RaceInv`: while a line is high the machine is in a state of the level
  that was hit, because only obstacles of that level are within reach.
- `RulesProofs`: `Implements`, the refinement. `MapInv` adds `LaterAtTop` (obstacles of
  later levels have not moved), which makes `fallenNow` empty when a level begins.
- `BallProofs`: `StaysOpposed`, from the invariant that while a Collision line is
  high both balls stand at their starts and only that line is high. `OtherColourGoes` and
  `HitPaintsIt`: the obstacle a ball remembers is one it touched (a largest element
  exists, by well-founded induction), and the other ball gives it up whichever way a
  double hit is settled, also when it is settled by the `block_hit` of before; the ball
  itself can lose it only to a ball that is near or that had hit the same one before. `TypeCorrect` and `LeavesOnce` go through all entries of the tables:
  each fits a circle of radius 60 (`EntryFits`), a position is always made from one entry
  (`Tabled`), and the only entry that is none is the power-up zero of the register for
  `index - 1`. From the positions follow `NoContactMissed` and `HitsWithinReach`: in every
  reachable state, and for every box, what the overlap formulas yield satisfies `Contact`
  and lies between heights 306 and 454, which are `HitTop` and `HitBottom` of `Duet`.
- `VgaProofs`: `SyncWindows` (the three invariants together are inductive) and
  `PictureHoldsStill`.
- `UsbProofs`: `OnlyOneAhead`. The invariant: what the controller is still at is the
  present request or the one before (`RunningOrLate`), and once the control byte is clean one
  of the two has been carried out and nothing but the present one is running any more
  (`CleanMeansDone`). So a step that passes its check leaves at most its own request
  behind. `RetryHangs`: a message that is there after the last clearing is the last one.

- `JtagProofs`: the invariant `Sound` says what a call still knows although the
  routine may run between its steps: the room it found can only grow and the characters
  only become more (`WriteWindow`, `ReadWindow`), what it copied has not been overwritten
  (`ChunkKept`), and a buffer it found full ends one slot behind the index it waits on, so
  that the index cannot come round (`FullSeen`).
  `Kicked` and `Hearing` are the two enables
  also while the routine runs, and `Burst` is its latched space against the queue.
  `Hearing` needs to know that a routine that has emptied the queue has put something
  into the ring buffer (`Draining`), for which in turn it must have been called for a
  character (`Paused`: the pause interrupt, too, comes only when one waits).
  `KeepsTheLine`, the refinement: the contents of a ring buffer are a sequence, and putting
  a character in, taking one out and moving an index by several over the wrap are appending
  to it, its tail and a part of it (the `Ring` lemmas). Copying into the free part of the
  buffer changes no sequence.
- `FdProofs`: the invariant `Table` adds to the listed properties that free entries have no
  flags, what has been redirected so far, and `LockBelow`: another descriptor of a locked
  device is above the lock. That is all that is left of exclusiveness, because
  alt_fd_lock misses only the highest descriptor, and it is enough for
  `OneLockPerDevice`: of two locks each would be below the other.
- `ClockProofs`: a rank of the entries says that the list is one chain from the head
  to the head with nothing left out; an insertion extends it downwards, a removal
  leaves it alone (`InsertOrdered`, `RemoveOrdered`). `Timed` says that the flag of an
  alarm tells whether its time is past the roll-over, and `Ahead` that what is left to
  do at a tick is not behind the walk. `KeepsPromise`, the refinement, follows: no tick comes
  while an alarm is due, and none goes off elsewhere. If a callback stops the alarm
  up next, the walk never ends (`TickEnds` excludes this, `NextStopped`) but goes
  wrong in no other way. `StaysOneList` joins `LinksAgree` and `LeadsToHead`: that the
  list is one, and not a list and a ring beside it, cannot be said by the links of single
  entries; a set that the links of a listed entry stay in is followed through an
  insertion and a removal. `DayGoesForward` is arithmetic: a tick adds its microseconds,
  or completes a second of the ticks, of the microseconds or of both, and settimeofday leaves
  an offset of less than a second, so that the clamps of gettimeofday keep the order or, where
  only the microseconds wrap, lose a second at most. It holds for every rate but zero
  (`RateAssumption`). `DividingRateForward` adds that at a rate that divides a
  second no tick slips, so that the time of day never goes back.

Model-checked only: liveness (`WinEnds`, `SurvivorWins`, `FramesGoOn`, `KeyArrives`,
`RemovalNoticed`, `TerminalFreesWriter`, `TimeoutFreesProgram`, `TickEnds`), which is out of the
prover's reach. Every invariant, action property and refinement of the passing runs is proved.

## What is not modelled

- Where the obstacles are across the screen: contact is an input, in `Ball` any that the
  overlap formulas allow for some layout, in `Duet` any within reach.
- The data toggle of the polls, the descriptors' contents, the controller's inside.
- `Color_Mapper.sv`: combinational, one pixel. The index a rectangle is painted at and
  the one it is drawn at differ (`ball.sv:269` against `Color_Mapper.sv:453`); this is
  listed under the hazards. The ROMs, `HexDriver.sv` (a table), the generated
  processor system and the older copies (`lab8_usb.sv`, the `.bak` files) have no
  behaviour of the game.
- Of the support package: start-up code, cache flushes, `alt_log_printf` and the profiler (both
  compiled out), the stubs of an operating system that is not there, and the
  hundreds of register macros of `cy7c67200.h`, `nios2.h` and `system.h`, most of
  which nothing uses. They have no state. `-EIO` as the result of a `write` or `read` of
  length zero (`write.c:213`) is left out: calls of length zero are not modelled.
- An alarm set to 2^32 - 1 ticks: `alt_alarm_start` adds one, and it goes off at the
  next tick. `DelayAssumption` leaves this delay out. Delays are what the program
  chooses; the one in the repository is a second.
- Power-up before the first Reset: `Ball` starts after a Reset with one frame passed.

## Plan

Done: the game (`BlockSM`, `Obstacle`, `Duet` with `LevelGame`, `Ball`, `Vga`), the
keyboard program (`UsbHost`), and of the support package the serial port, the file
descriptors and the system clock, each with its proofs. What would come next:

1. A module for `Color_Mapper.sv`: which obstacle is drawn in which colour, from
   ready, paint and hidden.
2. A composition of `Ball` and `Duet` on one set of Collision lines, so that the
   inputs each assumes of the other are shown to be its behaviours.
3. The data toggle in `UsbHost`.
4. Proofs: the two assumptions about each other of `Ball` and `Duet` as theorems of their
   composition, once it is there (the heights are already one: `HitsWithinReach`).
