SPECIFICATION Spec
CONSTANTS
  Caller = {c1, c2}
  Account = {a1}
  MaxToken = 3
  Token <- MCToken
  Absent = Absent
  Nobody = Nobody
  None = None
  Refused = Refused
  Lost = Lost
SYMMETRY Symmetry
INVARIANT OneHeir
