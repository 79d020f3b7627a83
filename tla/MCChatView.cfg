\* Three images, a folder, one slot, one entry at a time.
SPECIFICATION Spec
CONSTANTS
  BulkSize = 1
  AutoExpand = 2
  Slots = 1
  Peers = {1, 2}
  Stores <- MCStores
  OnDisk <- Found
  Height <- MCHeight
  MaxTexts = 1
  MaxClears = 1
INVARIANT TypeOK
INVARIANT ThumbFresh
INVARIANT TreeShown
INVARIANT LayoutFresh
