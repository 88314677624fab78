\* Four jobs of several threads, every answer SQLite may give, a context that goes out of scope.
CONSTANTS
  p1 = p1  p2 = p2  s1 = s1  s2 = s2  NoJob = NoJob
  Plain <- PlainJobs
  Scoped <- ScopedJobs
  Pinning <- ScopedJobs
  Ephemeral = TRUE
  Faults <- AllFaults
SPECIFICATION FairSpec
INVARIANTS TypeOK TasksTellTheTruth ScopesAreAtomic
PROPERTIES JobsAnswered DestructionCompletes
CHECK_DEADLOCK FALSE
