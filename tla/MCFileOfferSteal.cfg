\* One file offered, asked for again while one failure may happen.
SPECIFICATION Spec
CONSTANTS
  MaxOffers = 2
  MaxFaults = 1
  FolderFiles = 1
  Kinds = {"File"}
  Dirs <- OneDir
  DefaultDir = "downloads"
INVARIANT DoneIsOwnOffer
CHECK_DEADLOCK FALSE
