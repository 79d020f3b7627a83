\* Two peers, two fingerprints, one failure or departure.
SPECIFICATION FairSpec
CONSTANTS
  Peers = {p, q}
  Prints = {f, g}
  NoPrint = NoPrint
  Expire = 1
  InboxSize = 2
  MaxFaults = 1
INVARIANT TypeOK
INVARIANT OnlineIsRecorded
PROPERTY EveryoneAsked
PROPERTY GoneIsDropped
PROPERTY StayingIsSeen
