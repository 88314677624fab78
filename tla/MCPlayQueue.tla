---------------------------- MODULE MCPlayQueue ----------------------------
(* Values of the constants of PlayQueue for TLC. *)
EXTENDS PlayQueue

CONSTANTS p1

OneList == {p1}
TwoIndexes == {0, 1}
OneRequest == {<<p1, 1>>}
=============================================================================
