\* Two handlers of item changes at one time, two tracks of an album without an
\* image, one subscriber that comes and goes.
CONSTANTS
  t1 = t1  t2 = t2  album = album  s1 = s1  NoTrack = NoTrack  NoOne = NoOne
  Ui = Ui  Default = Default
  Threads <- TwoThreads
  StateThreads <- OneThread
  Callers <- TwoThreads
  Albums <- OneAlbum
  NoImage <- OneAlbum
  Tracks <- TwoTracks
  AlbumOf <- SameAlbum
  Subscribers <- OneSubscriber
SPECIFICATION Spec
INVARIANTS Inv
PROPERTIES HandlersReturn
CHECK_DEADLOCK FALSE
