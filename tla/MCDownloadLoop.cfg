\* Every fault, two overlapping requests, two reports, two messages under way.
CONSTANTS
  t1 = t1  t2 = t2  NoTrack = NoTrack
  album = album  playlist = playlist
  Tracks <- TwoTracks
  Batches <- TwoBatches
  TracksOf <- Overlapping
  MaxReports = 2
  MaxSends = 2
  Faults <- AllFaults
SPECIFICATION FairSpec
INVARIANTS Inv NoJobForgotten NoReportLost
PROPERTIES JobsHandled ReportsDelivered ShutdownCompletes
CHECK_DEADLOCK FALSE
