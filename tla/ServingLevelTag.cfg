SPECIFICATION Spec
CONSTANTS
  w1 = w1
  w2 = w2
  Wave = {w1, w2}
  Level = {l1}
  Text = {t1, t2}
  Lists <- AllLists
  MaxStamp = 4
  Absent = Absent
PROPERTIES LevelCopyIsCurrent
