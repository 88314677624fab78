\* Three concurrent readers and the download coroutine.
CONSTANTS
  r1 = r1  r2 = r2  r3 = r3  w1 = w1  NoOne = NoOne
  Readers <- ThreeReaders
  Writers <- DownloadCoroutine
  MaxSize = 2
SPECIFICATION Spec
INVARIANTS TypeOK SingleOwner NoLostWakeup
PROPERTIES Served ExclusiveAccess
CHECK_DEADLOCK FALSE
