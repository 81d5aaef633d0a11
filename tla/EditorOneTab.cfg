SPECIFICATION MCSpec
CONSTANTS
  Caller = {c1, c2}
  Tab = {t1}
  TabOf <- OneTab
  Account = {a1}
  MaxToken = 3
  Token <- MCToken
  c1 = c1
  c2 = c2
  t1 = t1
  t2 = t2
  w1 = w1
  w2 = w2
  here = here
  there = there
  Wave = {w1, w2}
  Text <- MCText
  MovementType = {"jump"}
  Configured = {}
  Config = {}
  Duration = {0, 2}
  MAX_BLOCKS = 1
  MAX_SCREENS = 2
  MAX_TEXTS = 2
  Absent = Absent
  Nobody = Nobody
  None = None
  Refused = Refused
  Lost = Lost
SYMMETRY Symmetry
INVARIANTS NoNeedlessSignOut NobodyWaitsAlone CookieIsLive
  NoWaveUnderAnothersName 
