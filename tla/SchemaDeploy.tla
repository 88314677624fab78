---------------------------- MODULE SchemaDeploy ----------------------------
(***************************************************************************)
(* How UWP-LocalDB brings a database to the schema of the application that *)
(* opens it (SchemaBase::initializeAsync and SchemaBuilder's buildSql):    *)
(* tables, columns and foreign keys in one transaction, indices after it.  *)
(*                                                                         *)
(* Releases of the application are numbered by the version of their        *)
(* schema; the definition of an older release is the part of the newest    *)
(* one that has at most its version.  The application may be killed at any *)
(* point and a newer or older release may be started next.                 *)
(***************************************************************************)
EXTENDS Naturals

CONSTANTS
  MaxVersion,
  Tables, Columns, Keys, Indices,   (* of the newest definition             *)
  TableSince, PartSince, IndexSince,(* the version each of them appears in  *)
  Owner,                            (* the table of a column or key         *)
  Faults                            (* what may happen, out of the set below*)

AllFaults == {"kill", "error"}

Versions == 1..MaxVersion
Parts == Columns \cup Keys

ASSUME SchemaAssumption ==
  /\ MaxVersion \in Nat \ {0}
  /\ TableSince \in [Tables -> Versions]
  /\ PartSince \in [Parts -> Versions]
  /\ IndexSince \in [Indices -> Versions]
  /\ Owner \in [Parts -> Tables]
  /\ \A p \in Parts : PartSince[p] >= TableSince[Owner[p]]
  /\ Faults \subseteq AllFaults

VARIABLES
  version,   (* row of schema_version_info, 0 without the table             *)
  tables, columns, keys, indices,   (* what the database has                *)
  release,   (* the release that is running, or 0                           *)
  step,      (* how far initializeAsync is                                  *)
  todo,      (* indices the script has still to create                      *)
  skipped    (* indices a script was ended before (for the properties only) *)

database == <<version, tables, columns, keys, indices>>
vars == <<database, release, step, todo, skipped>>

TypeOK ==
  /\ version \in 0..MaxVersion /\ release \in 0..MaxVersion
  /\ tables \subseteq Tables /\ columns \subseteq Columns
  /\ keys \subseteq Keys /\ indices \subseteq Indices
  /\ step \in {"off", "deploy", "indices", "running", "failed"}
  /\ (step = "off" <=> release = 0)
  /\ todo \subseteq Indices \ indices /\ skipped \subseteq Indices

Init ==
  /\ version = 0 /\ tables = {} /\ columns = {} /\ keys = {} /\ indices = {}
  /\ release = 0 /\ step = "off" /\ todo = {} /\ skipped = {}

-----------------------------------------------------------------------------
(* The scripts of buildSql for the versions in (current, target].          *)

TablesUpto(v) == {t \in Tables : TableSince[t] <= v}
PartsUpto(S, v) == {p \in S : PartSince[p] <= v}
IndicesUpto(v) == {i \in Indices : IndexSince[i] <= v}

(* The versions named in the definition of release r, and their maximum.   *)
NamedVersions(r) ==
  {v \in 1..r : \/ \E t \in Tables : TableSince[t] = v
                \/ \E p \in Parts : PartSince[p] = v
                \/ \E i \in Indices : IndexSince[i] = v}

TargetVersion(r) ==
  IF NamedVersions(r) = {} THEN 0
  ELSE CHOOSE v \in NamedVersions(r) : \A w \in NamedVersions(r) : w <= v

(* CREATE TABLE for the tables the database is too old for ... *)
Created(current, target) == TablesUpto(target) \ TablesUpto(current)

(* ... with these columns and keys; those of the other tables are added by *)
(* ALTER TABLE.                                                            *)
New(S, current, target) == {p \in S : current < PartSince[p] /\ PartSince[p] <= target}

Altered(S, current, target) ==
  {p \in New(S, current, target) : Owner[p] \notin Created(current, target)}

(* SQLite runs the script unless it creates or adds what exists, alters    *)
(* what does not, or adds a foreign key, for which it has no statement.    *)
Accepted(current, target) ==
  /\ Created(current, target) \cap tables = {}
  /\ New(Columns, current, target) \cap columns = {}
  /\ \A c \in Altered(Columns, current, target) : Owner[c] \in tables
  /\ Altered(Keys, current, target) = {}

(* Mutant: the version of the database is not looked at. *)
IndicesScriptOfAll(current, target) == IndicesUpto(target)

(* Mutant: the indices of the oldest new version are taken for created.    *)
IndicesScriptAfterNext(current, target) == IndicesUpto(target) \ IndicesUpto(current + 1)

IndicesScript(current, target) == IndicesUpto(target) \ IndicesUpto(current)

-----------------------------------------------------------------------------
(* initializeAsync *)

Start(r) ==
  /\ step = "off"
  /\ release' = r /\ step' = "deploy"
  /\ UNCHANGED <<database, todo, skipped>>

Target == TargetVersion(release)

(* Mutants: the version is set although there is nothing to deploy; the    *)
(* last version is taken for deployed.                                     *)
SetVersionAlways ==
  /\ step = "deploy" /\ version # 0 /\ Target <= version
  /\ step' = "running"
  /\ version' = Target
  /\ UNCHANGED <<tables, columns, keys, indices, release, todo, skipped>>

NothingToDeployLoose ==
  /\ step = "deploy" /\ version # 0 /\ Target <= version + 1
  /\ step' = "running"
  /\ UNCHANGED <<database, release, todo, skipped>>

(* The database is as new as the application, or newer. *)
NothingToDeploy ==
  /\ step = "deploy" /\ version # 0 /\ Target <= version
  /\ step' = "running"
  /\ UNCHANGED <<database, release, todo, skipped>>

(* One transaction: the version table, the script, the version.            *)
Deploy ==
  /\ step = "deploy" /\ Target > version
  /\ Accepted(version, Target)
  /\ version' = Target
  /\ tables' = tables \cup Created(version, Target)
  /\ columns' = columns \cup New(Columns, version, Target)
  /\ keys' = keys \cup New(Keys, version, Target)
  /\ todo' = IndicesScript(version, Target)
  /\ step' = "indices"
  /\ UNCHANGED <<indices, release, skipped>>

(* The exception rolls the transaction back and ends the initialization.   *)
DeployFails ==
  /\ step = "deploy"
  /\ "error" \in Faults \/ (Target > version /\ ~Accepted(version, Target))
  /\ step' = "failed"
  /\ UNCHANGED <<database, release, todo, skipped>>

(* The indices, one statement after the other, outside of the transaction. *)
CreateIndex(i) ==
  /\ step = "indices" /\ i \in todo
  /\ indices' = indices \cup {i}
  /\ todo' = todo \ {i}
  /\ UNCHANGED <<version, tables, columns, keys, release, step, skipped>>

(* The first error ends the script and is not looked at. *)
CreateIndexFails ==
  /\ step = "indices" /\ todo # {} /\ "error" \in Faults
  /\ todo' = {} /\ skipped' = skipped \cup todo
  /\ UNCHANGED <<database, release, step>>

Initialized ==
  /\ step = "indices" /\ todo = {}
  /\ step' = "running"
  /\ UNCHANGED <<database, release, todo, skipped>>

(* The user leaves the application ... *)
Quit ==
  /\ step \in {"running", "failed"}
  /\ release' = 0 /\ step' = "off"
  /\ UNCHANGED <<database, todo, skipped>>

(* ... or it is killed. *)
Kill ==
  /\ "kill" \in Faults /\ step \in {"deploy", "indices"}
  /\ release' = 0 /\ step' = "off" /\ todo' = {}
  /\ skipped' = skipped \cup todo
  /\ UNCHANGED database

Next ==
  \/ \E r \in Versions : Start(r)
  \/ NothingToDeploy \/ Deploy \/ DeployFails
  \/ \E i \in Indices : CreateIndex(i)
  \/ CreateIndexFails \/ Initialized \/ Quit \/ Kill

Spec == Init /\ [][Next]_vars

-----------------------------------------------------------------------------
(* Properties *)

(* Whatever releases a database has been through, upwards and downwards,   *)
(* with kills and errors, it has the tables and columns a new database of  *)
(* its version has.                                                        *)
MigratedLikeNew ==
  /\ tables = TablesUpto(version)
  /\ columns = PartsUpto(Columns, version)
  /\ keys = PartsUpto(Keys, version)

(* A release that runs finds its tables and columns, an older one on a     *)
(* newer database too.                                                     *)
RunningHasItsTables ==
  step \in {"indices", "running"} =>
    TablesUpto(release) \subseteq tables /\ PartsUpto(Columns, release) \subseteq columns

(* An index of the running release is missing only when a script that was  *)
(* to create it was cut off by a kill or an error after the version had    *)
(* been stored; such an index is never created, whatever release follows.  *)
IndicesUnlessSkipped ==
  step = "running" => IndicesUpto(release) \subseteq indices \cup skipped
=============================================================================
