SPECIFICATION Spec
CONSTANTS
  Client = {c1, c2, c3}
  Player = {p1}
  Project = {home1, home2}
  Currency = {gold, gems}
  XP = XP
  gold = gold
  gems = gems
  energy = energy
  home1 = home1
  home2 = home2
  p1 = p1
  Requests <- MCRequests
  MaxStored = 3
  Misnamed = Misnamed
  Absent = Absent
  Nobody = Nobody
  Gone = Gone
  None = None
SYMMETRY Symmetry
INVARIANTS TypeOK BalanceIsSumOfCommits NoOrphanRows VersionsAgree
PROPERTIES ImplementsLedger WholeOrNothing
