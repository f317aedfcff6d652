SPECIFICATION MCSpec
CONSTANTS
  None = None
  Providers = {"claude", "codex", "local"}
  Cloud = {"claude", "codex"}
  Backend <- Adapters
  Topics = {"plain", "timeouts"}
  Wordy = {"timeouts"}
  MaxRoutes = 3
  MaxAttempts = 2
  Names = {"anthropic", "codex", "local", "mock", "other"}
  Data = {"note", "log"}
  Outside = {"other"}
  Raw = {"note"}
  Log = "log"
  Commands = 2
  Turns = 2
  Procs = {p, q}
  Indexed <- Pair
  IndexedNote <- Either
  FirstIndexed <- BothDrafts
  PageSize = 1
  OtherSize = 2
  Changes = 1
  Searches = 1
  Scanned <- Pair
  ScannedNote <- Ages
  FirstScanned <- OneAged
  Reasons = {"wrong", "old"}
  Disputing = {"wrong"}
  Correcting = {"wrong", "old"}
  StaleAfter = 30
  OrphanAfter = 14
  Jumps = {14}
  LastDay = 14
  Bursts = {1, 3}
  Events = 2
  Queries = {"q", "r"}
  Misses = 4
  Tears = 1
SYMMETRY Alike
INVARIANTS
  TypesOK
  PrivacyKept
  FallbackIsEarned
  DoctorPredicts
  Repairs
PROPERTIES
  ReindexQuietsDoctor
  RouteByRoute
  CommitIsOwn
  OutsideStays
  CommitIsWhole
  FlagIsHeard
  ScanSettles
  MissesPromoted
CHECK_DEADLOCK FALSE
