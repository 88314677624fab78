\* One quality; kills and failing writes; the server changes between sessions.
CONSTANTS
  Qualities <- OneQuality
  MaxStamp = 3
  Size <- SizesSameThenShort
  MaxBlocks = 3
  Chunk = 2
  CountModulus = 16
  MaxPending = 2
  Faults <- KillAndIo
  Garbage = Garbage
  Blank = Blank
SPECIFICATION Spec
INVARIANTS TypeOK TrackCoherent CompleteRowCoherent
CHECK_DEADLOCK FALSE
