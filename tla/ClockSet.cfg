SPECIFICATION FairSpec
CONSTANTS
  a = a  b = b  c = c
  Head = Head  Null = Null  Off = Off
  Alarm = {a, b, c}
  Word = 4
  Delays <- AllDelays
  Periods <- AllPeriods
  Rate = 2
  US = 6
  Times <- SomeTimes
PROPERTY SetThenGet
