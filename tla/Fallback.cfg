SPECIFICATION FallbackSpec
CONSTANTS
  None = None
  Providers = {"claude", "local"}
  Cloud = {"claude"}
  Backend <- Adapters
  Topics = {"plain"}
  Wordy = {}
  MaxRoutes = 2
  MaxAttempts = 2
INVARIANTS
  FallbackOnlyForPassing
CHECK_DEADLOCK FALSE
