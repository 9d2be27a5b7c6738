SPECIFICATION Spec
CONSTANTS
  p1 = p1
  p2 = p2
  Proc = {p1, p2}
  File = {f, g}
  Text = {x, y}
  Branch = {m, d}
  Shared = Shared
  Absent = Absent
  None = None
  Worlds <- PlainlySwitched
  Events = 3
SYMMETRY Symmetric
INVARIANTS
  NoResultsOfOthers
CHECK_DEADLOCK FALSE
