--------------------------- MODULE MCCacheCleanUp ---------------------------
(* Values of the constants of CacheCleanUp for TLC. *)
EXTENDS CacheCleanUp

(* SoundQuality::High. *)
OneQuality == {2}

(* The second version of the file is shorter.                              *)
SizesShrink == [v \in Versions |-> IF v[2] = 2 THEN 1 ELSE MaxBlocks]
=============================================================================
