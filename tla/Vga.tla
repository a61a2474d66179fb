-------------------------------- MODULE Vga --------------------------------
(***************************************************************************)
(* The VGA timing generator, src/VGA_controller.sv.  It matters to the     *)
(* game for one reason: its vertical sync `vs' is the clock of the balls   *)
(* and the obstacles (FinalProject.sv:169-205).                            *)
(*                                                                         *)
(* clkdiv halves the 50 MHz clock; each of its rising edges is a pixel.    *)
(* The counters and both sync signals are registers on that edge, so they  *)
(* all read the counters' values from before it.                           *)
(*                                                                         *)
(* Two parameters of the code and four of its literals:                    *)
(*   hpixels    799   the last pixel of a line                             *)
(*   vlines     524   the last line of a frame                             *)
(*   VVisible   480   the first line that is not shown                     *)
(*   HSyncOn    656   the first pixel of the horizontal sync pulse         *)
(*   HSyncOff   752   the first pixel after it                             *)
(*   VSyncOn    490   the first of the two lines vs is compared with       *)
(***************************************************************************)
EXTENDS Integers

CONSTANTS hpixels, vlines, VVisible, HSyncOn, HSyncOff, VSyncOn

\* A pulse lies within its line, or within its frame after the visible lines.
ASSUME HorizontalAssumption ==
  /\ hpixels \in Nat /\ HSyncOn \in Nat /\ HSyncOff \in Nat
  /\ 0 < HSyncOn /\ HSyncOn < HSyncOff /\ HSyncOff <= hpixels
ASSUME VerticalAssumption ==
  /\ vlines \in Nat /\ VVisible \in Nat /\ VSyncOn \in Nat
  /\ 0 < VVisible /\ VVisible < VSyncOn /\ VSyncOn < vlines

VARIABLES clkdiv, hc, vc, hs, vs

vars == <<clkdiv, hc, vc, hs, vs>>

-----------------------------------------------------------------------------
\* Registers power up at zero.
Init == clkdiv = 0 /\ hc = 0 /\ vc = 0 /\ hs = 0 /\ vs = 0

NextPixel == hc' = IF hc = hpixels THEN 0 ELSE hc + 1

\* Faulty variant: the frame ends with the visible lines.
NextLineShort ==
  vc' = IF hc # hpixels THEN vc ELSE IF vc = VVisible - 1 THEN 0 ELSE vc + 1

\* The line counter moves at the end of a line.
NextLine == vc' = IF hc # hpixels THEN vc ELSE IF vc = vlines THEN 0 ELSE vc + 1

\* Faulty variant: the window is compared with the old counter.
HSyncOld == hs' = IF hc >= HSyncOn /\ hc < HSyncOff THEN 0 ELSE 1

\* Active low.
HSync == hs' = IF hc + 1 >= HSyncOn /\ hc + 1 < HSyncOff THEN 0 ELSE 1

\* Faulty variant: the two counters are mixed up.
VSyncOfPixels == vs' = IF hc + 1 \in {VSyncOn, VSyncOn + 1} THEN 0 ELSE 1

\* Faulty variant: the pulse is one line long.
VSyncOneLine == vs' = IF vc + 1 = VSyncOn THEN 0 ELSE 1

\* Active low.
VSync == vs' = IF vc + 1 \in {VSyncOn, VSyncOn + 1} THEN 0 ELSE 1

\* A rising edge of clkdiv.
Pixel == NextPixel /\ NextLine /\ HSync /\ VSync

\* A rising edge of Clk.
ClkEdge == /\ clkdiv' = 1 - clkdiv
           /\ IF clkdiv = 0 THEN Pixel ELSE UNCHANGED <<hc, vc, hs, vs>>

\* The Reset button clears both counters and drives both sync signals low.
ResetButton == clkdiv' = 0 /\ hc' = 0 /\ vc' = 0 /\ hs' = 0 /\ vs' = 0

Next == ClkEdge \/ ResetButton

Spec == Init /\ [][Next]_vars

\* The 50 MHz oscillator does not stop.
FairSpec == Spec /\ WF_vars(ClkEdge)

-----------------------------------------------------------------------------
(* Properties.                                                             *)

TypeOK == /\ clkdiv \in {0, 1} /\ hs \in {0, 1} /\ vs \in {0, 1}
          /\ hc \in 0 .. hpixels /\ vc \in 0 .. vlines

\* No pixel has been clocked since Reset: both sync signals are still low.
Fresh == hc = 0 /\ vc = 0 /\ vs = 0

\* "horizontal sync pulse is 96 pixels long at pixels 656-752" (line 85): though
\* the register lags the counter, the pulse covers exactly those pixels.
HSyncPulse == hs = 0 <=> Fresh \/ hc \in HSyncOn .. HSyncOff - 1

\* The positions of balls and obstacles move at the rising edge of vs.  That is
\* never in the visible part of a frame, so no frame shows an object in two
\* places; the extra edge just after Reset finds everything at its start.
NoTearing == [][vs = 0 /\ vs' = 1 => vc >= VVisible \/ Fresh]_vars

\* "vertical sync pulse is 2 lines(800 pixels) long at line 490-491" (line 98): it is two
\* lines long, but compared at every pixel: from the second pixel of line 489 to the
\* first of line 491.
VSyncWindow == vs = 0 <=> \/ Fresh
                          \/ vc = VSyncOn - 1 /\ hc > 0
                          \/ vc = VSyncOn
                          \/ vc = VSyncOn + 1 /\ hc = 0

\* Where both pulses really are.
SyncPulses == HSyncPulse /\ VSyncWindow

\* Frame edges never stop coming once the Reset button is left alone.
FramesGoOn == <>[][~ResetButton]_vars => []<>(vs = 0) /\ []<>(vs = 1)

=============================================================================
