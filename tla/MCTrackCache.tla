---------------------------- MODULE MCTrackCache ----------------------------
(* Values of the constants of TrackCache for TLC. *)
EXTENDS TrackCache

(* SoundQuality::High and SoundQuality::Lossless. *)
OneQuality == {2}
TwoQualities == {2, 3}

(* Timestamps 1 and 2 differ in the date only; 3 has another size. *)
SizesSameThenShort == [v \in Versions |-> IF v[2] = 3 THEN 2 ELSE 3]

(* The two versions of quality 2 have the size of the first of quality 3.  *)
SizesByQuality == [v \in Versions |-> IF v[1] = 3 /\ v[2] = 2 THEN MaxBlocks ELSE 2]

NoFaults == {}
KillAndIo == {"crash", "io"}
=============================================================================
