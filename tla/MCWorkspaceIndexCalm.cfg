SPECIFICATION CalmSpec
CONSTANTS
  inner = inner
  outer = outer
  ignored = ignored
  plain = plain
  defining = defining
  s1 = s1
  s2 = s2
  Files = {inner, outer, ignored}
  Scope = {inner, outer}
  Folder = {inner}
  Texts = {plain, defining}
  Defining = {defining}
  Absent = Absent
  NoBuffer = NoBuffer
  NotRead = NotRead
  Nobody = Nobody
  Slots = {s1}
  MaxEdits = 3
INVARIANT TypeOK
INVARIANT IndexStaysInScope
INVARIANT QuietIndexIsDisk
CHECK_DEADLOCK FALSE
