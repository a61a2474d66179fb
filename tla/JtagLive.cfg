SPECIFICATION FairSpec
CONSTANTS
  BufLen = 3
  Depth = 2
  WriteThreshold = 1
  ReadThreshold = 0
  IntMax = 5
  DefaultTimeout = 2
  Timeouts = {2, 5}
  Settings <- LiveSettings
  NUL = NUL
  a = a
  b = b
PROPERTIES
  TerminalFreesWriter
  TimeoutFreesProgram
