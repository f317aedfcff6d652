SPECIFICATION Spec
CONSTANTS
  Procs = {p1, p2, p3}
  Recovery = {"force", "resume"}
  Serialized = FALSE
  PidReuse = FALSE
  None = None
SYMMETRY Symmetry
INVARIANT MutualExclusion
