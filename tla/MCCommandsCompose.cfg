SPECIFICATION MCSpec
CONSTANTS
  plain = plain
  neat = neat
  p1 = p1
  p2 = p2
  c1 = c1
  c2 = c2
  x = x
  y = y
  Pulses = {p1, p2}
  Files = {note, spec}
  Texts = {plain, neat}
  NoText = NoText
  Rewritten <- MCRewritten
  MaxIds = 3
  Commands = {p1, p2}
  Ids = {x, y}
  NoEntry = NoEntry
  MaxListed = 1
  Jobs = {p1, p2}
  MemFiles = {note, spec}
  note = note
  spec = spec
  Contents = {c1, c2, x}
  ContentsOf <- MCContentsOf
  Missing = Missing
  MaxKeep = 1
  MaxDumps = 2
  Lines = {plain, neat}
  Thrown = Thrown
  Sources <- MCSources
  Rewrites <- MCSources
  Insertions <- MCInsertions
  MaxSteps = 2
  MaxFirst = 2
  MaxSecond = 1
  s1 = s1
  s2 = s2
  s3 = s3
  Surfaces = {s1, s2, s3}
  Citing = {s1}
  Root <- MCRoot
  Places <- MCPlaces
  Cited <- MCCited
  Plans <- MCPlans
  NoCitation = NoCitation
  NoPlace = NoPlace
  MaxPlans = 2
  MaxRuns = 2
  Scanners = {p1, p2}
  ScanFiles = {note}
  ScanTexts = {x, y}
  Targets = {s1}
  TargetsOf <- MCTargetsOf
  NoSource = NoSource
  NoMemo = NoMemo
  TornMemo = TornMemo
  MaxRemembered = 1
  MaxEdits = 2
  MaxScans = 3
  Parts = {"edits"}
INVARIANT ComposeIsMerge
CHECK_DEADLOCK FALSE
