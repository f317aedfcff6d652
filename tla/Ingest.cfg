SPECIFICATION AllSpec
CONSTANTS
  Procs = {1, 2, 3}
  Two = {1, 2}
  Recovery = {"force", "resume"}
  Serialized = TRUE
  PidReuse = TRUE
  a = a
  b = b
  x = x
  None = None
INVARIANTS
  TypeOK
  MutualExclusion
  LockNamesHolder
  CheckpointStaysOwn
PROPERTIES
  PlainKeepsInterrupted
  ImplementsExclusiveLock
  PairEnds
  PairEnters
  RawIsEmptied
