----------------------------- MODULE VgaProofs -----------------------------
(***************************************************************************)
(* The sync windows of module Vga, for every size of line and frame.       *)
(*                                                                         *)
(* Each window compares a register with the counters it lags behind; the   *)
(* three together are inductive, and the frame edge falls where the        *)
(* vertical window ends.                                                   *)
(***************************************************************************)
EXTENDS Vga, TLAPS

Windows == TypeOK /\ HSyncPulse /\ VSyncWindow

USE HorizontalAssumption, VerticalAssumption

\* The registers at power-up are inside the windows.
LEMMA WindowsInit == Init => Windows
BY DEF Init, Windows, TypeOK, HSyncPulse, VSyncWindow, Fresh

\* A pixel moves both registers into their windows, whichever counter wraps.
LEMMA WindowsPixel == ASSUME Windows, Pixel
                      PROVE  /\ hc' \in 0 .. hpixels /\ vc' \in 0 .. vlines
                             /\ hs' \in {0, 1} /\ vs' \in {0, 1}
                             /\ HSyncPulse' /\ VSyncWindow'
<1> USE DEF Windows, TypeOK
<1>1. hc' \in 0 .. hpixels /\ vc' \in 0 .. vlines /\ hs' \in {0, 1} /\ vs' \in {0, 1}
  BY DEF Pixel, NextPixel, NextLine, HSync, VSync
<1>2. ~Fresh'
  <2>1. CASE hc = hpixels
    BY <2>1 DEF Pixel, NextPixel, NextLine, VSync, Fresh
  <2>2. CASE hc # hpixels
    BY <2>2 DEF Pixel, NextPixel, Fresh
  <2> QED  BY <2>1, <2>2
<1>3. HSyncPulse'
  BY <1>1, <1>2 DEF Pixel, NextPixel, HSync, HSyncPulse
<1>4. VSyncWindow'
  <2>1. CASE hc = hpixels
    BY <1>1, <1>2, <2>1 DEF Pixel, NextPixel, NextLine, VSync, VSyncWindow
  <2>2. CASE hc # hpixels
    BY <1>1, <1>2, <2>2 DEF Pixel, NextPixel, NextLine, VSync, VSyncWindow
  <2> QED  BY <2>1, <2>2
<1> QED  BY <1>1, <1>3, <1>4

\* Every step keeps the registers inside the windows.
LEMMA WindowsNext == Windows /\ [Next]_vars => Windows'
<1> SUFFICES ASSUME Windows, [Next]_vars PROVE Windows'
  OBVIOUS
<1>1. CASE ClkEdge
  <2>1. clkdiv' \in {0, 1}
    BY <1>1 DEF ClkEdge, Windows, TypeOK
  <2>2. CASE clkdiv = 0
    BY <1>1, <2>1, <2>2, WindowsPixel DEF ClkEdge, Windows, TypeOK
  <2>3. CASE clkdiv # 0
    BY <1>1, <2>1, <2>3 DEF ClkEdge, Windows, TypeOK, HSyncPulse, VSyncWindow, Fresh
  <2> QED  BY <2>2, <2>3
<1>2. CASE ResetButton
  BY <1>2 DEF ResetButton, Windows, TypeOK, HSyncPulse, VSyncWindow, Fresh
<1>3. CASE UNCHANGED vars
  BY <1>3 DEF vars, Windows, TypeOK, HSyncPulse, VSyncWindow, Fresh
<1> QED  BY <1>1, <1>2, <1>3 DEF Next

\* Each sync pulse covers exactly its window of the counters
\* (VGA_controller.sv:61-109).
THEOREM SyncWindows == Spec => []SyncPulses
<1>1. Windows => SyncPulses
  BY DEF Windows, SyncPulses
<1> QED  BY <1>1, WindowsInit, WindowsNext, PTL DEF Spec

\* Balls and obstacles, which move when vs rises, never move while a visible line
\* is being drawn, but for the pixel after Reset (VGA_controller.sv:100-109).
THEOREM PictureHoldsStill == Spec => NoTearing
<1> DEFINE Still == vs = 0 /\ vs' = 1 => vc >= VVisible \/ Fresh
<1>1. Windows => Still
  BY DEF Windows, TypeOK, VSyncWindow
<1>2. Spec => []Windows
  BY WindowsInit, WindowsNext, PTL DEF Spec
<1> HIDE DEF Still
<1>3. Windows => [Still]_vars
  BY <1>1
<1>4. Spec => [][Still]_vars
  BY <1>2, <1>3, PTL
<1> QED  BY <1>4 DEF NoTearing, Still

=============================================================================
