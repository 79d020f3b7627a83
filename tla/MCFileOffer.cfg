\* Two offers of any kind, one failure of any kind at any moment.
SPECIFICATION FairSpec
CONSTANTS
  MaxOffers = 2
  MaxFaults = 1
  FolderFiles = 2
  Kinds <- AllKinds
  Dirs <- OneDir
  DefaultDir = "downloads"
INVARIANT TypeOK
INVARIANT EntryOwnedOnce
INVARIANT EntriesAccepted
INVARIANT EchoMatches
INVARIANT MatchedWithoutFaults
PROPERTY ReceiverLifecycle
PROPERTY SenderLifecycle
PROPERTY DataOnlyByConsent
PROPERTY AcceptedEnds
CHECK_DEADLOCK FALSE
