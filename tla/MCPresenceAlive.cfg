\* Two peers, no failure: a dialog that stays open is enough.
SPECIFICATION Spec
CONSTANTS
  Peers = {p, q}
  Prints = {f, g}
  NoPrint = NoPrint
  Expire = 1
  InboxSize = 2
  MaxFaults = 0
INVARIANT AnnouncingStays
