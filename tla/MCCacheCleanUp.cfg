\* One quality; everything may go wrong, changes of the server file in a session included, with the clean-up.
CONSTANTS
  Qualities <- OneQuality
  MaxStamp = 2
  Size <- SizesShrink
  MaxBlocks = 2
  Chunk = 2
  CountModulus = 16
  MaxPending = 1
  Faults <- AllFaults
  Garbage = Garbage
  Blank = Blank
SPECIFICATION CleanSpec
INVARIANTS CleanInv ReadsAreSafe
CHECK_DEADLOCK FALSE
