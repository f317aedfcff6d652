SPECIFICATION Spec
CONSTANTS
  c1 = c1
  c2 = c2
  m = m
  d = d
  s = s
  g = g
  h = h
  n1 = n1
  n2 = n2
  Procs = {p1, p2}
  Serialized = FALSE
  Keys = {c1, s}
  Kind <- KindOf
  Targets = {n1, n2}
  TargetsOf <- Named
  Facts = {f1, f2}
  Cooldown = 1
  DeferDays = {1}
  IdLimit = 999
  ItemLimit = 2
  LastDay = 0
  NoteLimit = 2
  None = None
PROPERTIES
  Remembered
CHECK_DEADLOCK FALSE
