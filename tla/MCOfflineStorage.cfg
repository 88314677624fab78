\* Two qualities, server files that change once each, every fault, with the clean-up and the player.
CONSTANTS
  Qualities <- TwoQualities
  MaxStamp = 2
  Size <- Sizes
  MaxBlocks = 2
  Chunk = 2
  NoRow = NoRow
  Garbage = Garbage
  Blank = Blank
  Faults <- AllFaults
SPECIFICATION StorageSpec
INVARIANTS StorageTypeOK ImportedCoherent JobCoherent
PROPERTIES FinishedIsWhole ResumesWhereItStopped JobsEnd
CHECK_DEADLOCK FALSE
