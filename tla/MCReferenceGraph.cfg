SPECIFICATION FairSpec
CONSTANTS
  Files = {f1, f2}
  Texts = {t1}
  Absent = Absent
  NoBuffer = NoBuffer
  GraphTtl = 2
  Requests = {r1}
  MaxEdits = 3
  MaxLenses = 1
  t1 = t1
  t2 = t2
INVARIANT TypeOK
INVARIANT FreshCacheSawEveryEdit
INVARIANT FreshCacheIsCurrent
INVARIANT ReportSeesWhatItIsOwed
PROPERTY LensIsNotForgotten
PROPERTY ReportIsAnswered
PROPERTY ServerFallsQuiet
CHECK_DEADLOCK FALSE
