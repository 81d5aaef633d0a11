SPECIFICATION MCSpec
CONSTANTS
  Caller = {c1, c2}
  Account = {a1}
  MaxToken = 3
  Token <- MCToken
  Absent = Absent
  Nobody = Nobody
  None = None
  Refused = Refused
  Lost = Lost
  ExternalId = {"x1", "x2", "x3"}
  PlayerId = {1, 2, 3}
  ApiKey = {"k1"}
  root = root
  writer = writer
  Staff = {root, writer}
  RoleOf <- MCRoleOf
  PLAYERS_PER_PAGE = 1
  MOST_PLAYERS_PER_PAGE = 2
  MaxTime = 2
  p1 = p1
  p1b = p1b
  p2 = p2
  q1 = q1
  p = p
  q = q
  v1 = v1
  v2 = v2
  good = good
  bad = bad
  Publisher = {w1}
  Archive = {p1, p1b, p2, q1}
  Name = {p, q}
  Version = {v1, v2}
  SigningKey = {good, bad}
  Declares <- MCDeclares
  Faults <- MCFaults
  Trusted = {good}
  Overlapping <- MCOverlapping
  Meddled <- MCMeddled
  ByHand = {p, q}
  th = th
  ts = ts
  ix = ix
  App = {"inventory", "inventory-item"}
  Object = {th, ts, ix}
  Prefixed <- MCPrefixed
  BelongsTo <- MCBelongsTo
  History = {th, ix}
  HANDED_OVER <- MCHandedOver
  Platform = Platform
  Unjudged = Unjudged
  MAX_STATEMENTS = 3
  Client = {m1}
  Id = {i1, i2}
  LIMIT = 2
  MAX_TRACKS = 2
SYMMETRY Symmetry
INVARIANTS LocksAreRevocations RotatedIsRevoked
  OnePlayerEach PlayersWalkedOnce  RunsWhatWasSigned ScreenIsVouched
   RowsHaveBytes 
PROPERTIES RevokedForGood 
