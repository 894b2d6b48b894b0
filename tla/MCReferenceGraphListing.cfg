SPECIFICATION Spec
CONSTANTS
  t1 = t1
  t2 = t2
  Files = {f1, f2}
  Texts = {t1, t2}
  Absent = Absent
  NoBuffer = NoBuffer
  GraphTtl = 2
  Requests = {r1}
  MaxEdits = 2
  MaxLenses = 2
SYMMETRY Symmetry
INVARIANT FreshGraphListsEverySurface
CHECK_DEADLOCK FALSE
