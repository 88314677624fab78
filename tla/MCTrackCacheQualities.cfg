\* Two qualities; the network fails and recovers for ever, nothing else fails.
CONSTANTS
  Qualities <- TwoQualities
  MaxStamp = 2
  Size <- SizesByQuality
  MaxBlocks = 3
  Chunk = 2
  CountModulus = 16
  MaxPending = 1
  Faults <- NoFaults
  Garbage = Garbage
  Blank = Blank
SPECIFICATION FairSpec
INVARIANTS RowCoherent
PROPERTIES DownloadCompletes ReadServed
CHECK_DEADLOCK FALSE
