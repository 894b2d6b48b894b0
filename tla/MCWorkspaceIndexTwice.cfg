SPECIFICATION Spec
CONSTANTS
  inner = inner
  outer = outer
  ignored = ignored
  plain = plain
  defining = defining
  s1 = s1
  s2 = s2
  Files = {inner}
  Scope = {inner}
  Folder = {inner}
  Texts = {plain, defining}
  Defining = {defining}
  Absent = Absent
  NoBuffer = NoBuffer
  NotRead = NotRead
  Nobody = Nobody
  Slots = {s1}
  MaxEdits = 2
INVARIANT EntriesAreHeldOnce
CHECK_DEADLOCK FALSE
