SPECIFICATION FairSpec
CONSTANTS
  hpixels = 799
  vlines = 524
  VVisible = 480
  HSyncOn = 656
  HSyncOff = 752
  VSyncOn = 490
INVARIANT
  SyncPulses
PROPERTIES
  NoTearing
  FramesGoOn
