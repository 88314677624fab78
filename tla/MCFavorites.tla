---------------------------- MODULE MCFavorites ----------------------------
(* Values of the constants of Favorites for TLC. *)
EXTENDS Favorites

CONSTANTS u1, u2, i1, i2

OneUser == {u1}
TwoUsers == {u1, u2}
OneKind == <<"albums">>
TwoKinds == <<"albums", "tracks">>
OneItem == {i1}
TwoItems == {i1, i2}
=============================================================================
