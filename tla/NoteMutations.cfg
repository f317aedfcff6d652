SPECIFICATION MCSpec
CHECK_DEADLOCK FALSE
CONSTANTS
  Topics <- Tree
  Described <- Roots
  Captured = {n1, n2}
  Drafts = {d}
  Families = {f}
  SameTitles = FALSE
  MaxNumber = 4
  MaxPending = 1
  None = None
SYMMETRY Symmetry
INVARIANTS
  TypeOK
  IdsNameOneNote
PROPERTIES
  StaysDescribed
  AcceptedIsApplied
ImplementsNoteLife
