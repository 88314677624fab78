--------------------------- MODULE MCSchemaDeploy ---------------------------
(* Values of the constants of SchemaDeploy for TLC: the application's own  *)
(* schema, to which a foreign key that appears with its table is added.    *)
EXTENDS SchemaDeploy, TidalSchema

OneKey == {<<"track_import_job", 3, "imported_album">>}
TidalOwner == [p \in TidalColumns \cup OneKey |-> p[1]]
TidalPartSince == [p \in TidalColumns \cup OneKey |-> p[2]]
=============================================================================
