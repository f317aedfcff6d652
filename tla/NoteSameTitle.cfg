SPECIFICATION MCSpec
CHECK_DEADLOCK FALSE
CONSTANTS
  Topics <- Tree
  Described <- Roots
  Captured = {n1, n2}
  Drafts = {d1, d2}
  Families = {f}
  SameTitles = TRUE
  MaxNumber = 3
  MaxPending = 1
  None = None
SYMMETRY Symmetry
INVARIANTS
  IdsNameOneNote
