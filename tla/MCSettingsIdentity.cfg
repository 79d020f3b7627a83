\* The user chooses another data folder, and a chat connection opens.
SPECIFICATION Spec
CONSTANTS
  Folders = {home, other}
  Home = home
  Peers = {p1}
  MaxEdits = 1
INVARIANT HelloIsAnnounced
