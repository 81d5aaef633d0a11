SPECIFICATION Spec
CONSTANTS
  Client = {c1, c2}
  Level = {l1, l2}
  l1 = l1
  w1 = w1
  w2 = w2
  Wave = {w1, w2}
  Requests <- AllRequests
  Absent = Absent
  Nobody = Nobody
  None = None
SYMMETRY Symmetry
INVARIANTS RulesNeverReached 
PROPERTIES ImplementsLevelBook LoneActivationWorks
