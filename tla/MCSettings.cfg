\* Two folders, two peers; two changes by the user or new histories.
SPECIFICATION Spec
CONSTANTS
  Folders = {home, other}
  Home = home
  Peers = {p1, p2}
  MaxEdits = 2
INVARIANT TypeOK
INVARIANT RadioIsStored
PROPERTY OneIdentity
PROPERTY OnlyTicked
