SPECIFICATION Spec
CONSTANTS
  c1 = c1
  c2 = c2
  m = m
  d = d
  s = s
  g = g
  h = h
  n1 = n1
  n2 = n2
  Procs = {p1}
  Serialized = TRUE
  Keys = {c1, c2, m, d, s, g, h}
  Kind <- KindOf
  Targets = {n1, n2}
  TargetsOf <- Named
  Facts = {f1, f2}
  Cooldown = 1
  DeferDays = {1}
  IdLimit = 999
  ItemLimit = 2
  LastDay = 1
  NoteLimit = 2
  None = None
INVARIANTS
  TypeOK
  IdsDistinct
  AcceptedMeansApplied
  MergedOnce
PROPERTIES
  SettledIsQuiet
  ImplementsReviewLife
CHECK_DEADLOCK FALSE
