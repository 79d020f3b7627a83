\* Three messages, two failures, B at one of two addresses.
SPECIFICATION FairSpec
CONSTANTS
  Addrs <- TwoAddrs
  MaxMessages = 3
  MaxFaults = 2
INVARIANT TypeOK
INVARIANT AtMostOnce
INVARIANT InOrder
INVARIANT Identified
INVARIANT OutboxDrained
PROPERTY BlockedStoresNothing
PROPERTY SentArrives
CHECK_DEADLOCK FALSE
