--------------------------- MODULE MCDownloadLoop ---------------------------
(* Values of the constants of DownloadLoop for TLC. *)
EXTENDS DownloadLoop

CONSTANTS t1, t2, album, playlist

TwoTracks == {t1, t2}
TwoBatches == {album, playlist}

(* The requests overlap in one track, which the playlist has twice. *)
Overlapping == (album :> <<t1, t2>>) @@ (playlist :> <<t2, t2>>)
=============================================================================
