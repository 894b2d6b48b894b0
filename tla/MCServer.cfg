SPECIFICATION MCSpec
CONSTANTS
  u1 = u1
  u2 = u2
  t1 = t1
  t2 = t2
  Uris = {u1, u2}
  Texts = {t1, t2}
  NoDoc = NoDoc
  WarmTtl = 2
  ColdTtl = 8
  MaxEpoch = 22
  Documents = {u1, u2}
  Slots = {1, 2, 3}
  NoUri = NoUri
  MaxEdits = 5
  Requests = {t1}
  Strange = {t2}
  Opened = {u1}
  Size <- MCSize
  NoId = NoId
  MaxSent = 5
  lens = lens
  hint = hint
  Settings <- MCSettings
  Values = {Off, On}
  Off = Off
  On = On
  Unset = Unset
  MaxChanges = 2
  Positions = {1, 2}
  MaxMoves = 3
  Parts = {"store", "diagnostics", "life", "capture", "cursor"}
INVARIANT ServerTypeOK
INVARIANT RetentionIsBounded
PROPERTY KeepsPromise
INVARIANT QuietListsAreRight
PROPERTY EditIsDiagnosed
INVARIANT MessagesOnceInOrder
INVARIANT OneAnswerEach
INVARIANT OpenedIsHeld
PROPERTY EveryRequestAnswered
INVARIANT CaptureRestores
INVARIANT StripIsCurrent
CHECK_DEADLOCK FALSE
