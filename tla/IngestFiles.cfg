SPECIFICATION SceneSpec
CONSTANTS
  a = a
  b = b
  e = e
  u = u
  bad = bad
  x = x
  y = y
  Files = {a, b, e, u, bad}
  Path <- Paths
  Outside = {u}
  Unsupported = {u}
  Unreadable = {bad}
  Hashes = {x, y}
  Hash <- Contents
  Titles = {t1, t2}
  Reasons = {r1}
  Verdicts = {"identical", "adds_nuance", "contradicts"}
  None = None
SYMMETRY TitleSymmetry
INVARIANTS
  TypeOK
  NoDuplicateNotes
  DuplicateHasOriginal
  CompleteMeansDone
PROPERTIES
  ArchivedOnlyWhenDisposed
  RunsDescend
  KeepsSources
