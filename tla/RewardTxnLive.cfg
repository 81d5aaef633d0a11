SPECIFICATION FairSpec
CONSTANTS
  Client = {c1, c2, c3}
  Player = {p1}
  Project = {home1}
  Currency = {gold, gems, energy}
  XP = XP
  gold = gold
  gems = gems
  energy = energy
  home1 = home1
  home2 = home2
  p1 = p1
  Requests <- MCRingRequests
  MaxStored = 1
  Misnamed = Misnamed
  Absent = Absent
  Nobody = Nobody
  Gone = Gone
  None = None
PROPERTY EveryRequestAnswered
