\* A COMMIT that is busy, in a context that lives as long as the application.
CONSTANTS
  p1 = p1  p2 = p2  s1 = s1  s2 = s2  NoJob = NoJob
  Plain <- PlainJobs
  Scoped <- ScopedJobs
  Pinning <- ScopedJobs
  Ephemeral = FALSE
  Faults <- ErrorsAndBusy
SPECIFICATION Spec
INVARIANTS NotInterleaved
CHECK_DEADLOCK FALSE
