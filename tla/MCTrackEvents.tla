--------------------------- MODULE MCTrackEvents ---------------------------
(* Values of the constants of TrackEvents for TLC. *)
EXTENDS TrackEvents, TLC

CONSTANTS t1, t2, album, s1

TwoThreads == {1, 2}
OneThread == {1}
OneAlbum == {album}
TwoTracks == {t1, t2}
SameAlbum == t1 :> album @@ t2 :> album
OneSubscriber == {s1}
=============================================================================
