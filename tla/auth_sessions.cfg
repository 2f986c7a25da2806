SPECIFICATION Spec
CONSTANTS
  Users = {admin, user}
  Admin = admin
  NoUser = NoUser
  Tabs = {t1}
  Calls = {c1, c2}
  NoCall = NoCall
  NoTab = NoTab
  AccessTTL = 2
  RefreshTTL = 3
  TicksPerSecond = 2
  MaxTime = 6
  MaxPairs = 3
  MaxSends = 3
  MaxFaults = 1
SYMMETRY Symmetry
INVARIANTS RotatedOnce FreshPairsAreAccepted OldAccessEnds RefreshesDoNotCollide
