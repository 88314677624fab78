-------------------------- MODULE MCOfflineStorage --------------------------
(* Values of the constants of OfflineStorage for TLC. *)
EXTENDS OfflineStorage

(* SoundQuality::High and SoundQuality::Lossless. *)
TwoQualities == {2, 3}

(* Lossless files are longer; the second version of High differs from the  *)
(* first in its date only and has the size of the first Lossless one.      *)
Sizes == [v \in Versions |-> IF v = <<3, 2>> THEN 1 ELSE 2]
=============================================================================
