SPECIFICATION Spec
CONSTANTS
  None = None
  Names = {"anthropic"}
INVARIANTS
  DoctorTells
CHECK_DEADLOCK FALSE
