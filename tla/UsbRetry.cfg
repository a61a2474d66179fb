SPECIFICATION FairSpec
CONSTANTS
  Requests = 9
  Keys = {0}
PROPERTY
  RetriedIsSentAgain
