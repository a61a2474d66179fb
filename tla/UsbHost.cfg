SPECIFICATION FairSpec
CONSTANTS
  Requests = 9
  Keys = {0, 4, 7}
INVARIANTS
  OneAhead
  NoSecondAnswer
PROPERTIES
  KeyArrives
  RemovalNoticed
