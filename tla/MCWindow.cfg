\* Two peers, two messages; one flag set or strategy changed by the user.
SPECIFICATION Spec
CONSTANTS
  Peers = {1, 2}
  NoPeer = 0
  Filters <- MCFilters
  MaxMessages = 2
  MaxEdits = 1
INVARIANT TypeOK
INVARIANT HighlightIsOpen
INVARIANT UnseenIsBadged
INVARIANT ChatComplete

