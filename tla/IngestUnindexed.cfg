SPECIFICATION SceneSpec
CONSTANTS
  a = a
  b = b
  e = e
  u = u
  bad = bad
  x = x
  y = y
  Files = {a}
  Path <- Paths
  Outside = {}
  Unsupported = {}
  Unreadable = {}
  Hashes = {x}
  Hash <- Contents
  Titles = {t1}
  Reasons = {r1}
  Verdicts = {"identical", "adds_nuance", "contradicts"}
  None = None
INVARIANT CompleteMeansIndexed
