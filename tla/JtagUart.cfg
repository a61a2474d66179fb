SPECIFICATION Spec
CONSTANTS
  BufLen = 3
  Depth = 2
  WriteThreshold = 1
  ReadThreshold = 0
  IntMax = 5
  DefaultTimeout = 2
  Timeouts = {2, 5}
  Settings <- SafetySettings
  NUL = NUL
  a = a
  b = b
INVARIANTS
  TypeOK
  NoSpurious
  NeverOverrun
  NoLostKick
  NoDeafness
  NoLostWakeup
  CopiedIsOldest
PROPERTIES
  ImplementsLine
