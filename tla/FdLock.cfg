SPECIFICATION Spec
CONSTANTS
  null = null  jtag = jtag  fs = fs
  None = None  Unknown = Unknown
  MaxFd = 6
  Devices = {null, jtag}
  FileSystems = {fs}
  Refusing = {fs}
  DevNull = null
  StdName <- AllJtag
  Flags <- SomeFlags
INVARIANT LockIsExclusive
