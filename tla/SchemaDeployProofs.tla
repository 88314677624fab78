------------------------- MODULE SchemaDeployProofs -------------------------
(***************************************************************************)
(* The migration is right for every schema, whatever its tables, columns,  *)
(* keys and versions: a migrated database has what a new one has, and a    *)
(* release that runs finds its tables.                                     *)
(***************************************************************************)
EXTENDS SchemaDeploy, WellFoundedInduction, TLAPS

USE SchemaAssumption

(* A set of natural numbers with an upper bound has a greatest element.    *)
LEMMA Greatest ==
  ASSUME NEW r \in Nat, NEW T \in SUBSET (1..r), T # {}
  PROVE  \E v \in T : \A w \in T : w <= v
<1> DEFINE D == {r - v : v \in T}
           Below == OpToRel(<, Nat)
<1>1. D \subseteq Nat /\ D # {}
  <2>1. \A v \in T : v \in 1..r
    OBVIOUS
  <2>2. \A v \in 1..r : r - v \in Nat
    OBVIOUS
  <2>3. \A v \in T : r - v \in Nat
    BY <2>1, <2>2
  <2> QED
    BY <2>3
<1>2. IsWellFoundedOn(Below, Nat)
  BY NatLessThanWellFounded
<1>3. PICK x \in D : \A y \in D : <<y, x>> \notin Below
  <2> HIDE DEF D, Below
  <2> QED
    BY <1>1, <1>2, WFMin
<1>4. \A y \in D : ~(y < x)
  BY <1>1, <1>3 DEF OpToRel
<1>5. PICK v \in T : x = r - v
  OBVIOUS
<1>6. ASSUME NEW w \in T PROVE w <= v
  <2>1. ~(r - w < r - v)
    BY <1>4, <1>5
  <2> QED
    BY <2>1
<1> QED
  BY <1>6

(* The version a release deploys: at most its own, and at least that of    *)
(* everything its definition names.                                        *)
LEMMA TargetFacts ==
  ASSUME NEW r \in 0..MaxVersion
  PROVE  /\ TargetVersion(r) \in 0..r
         /\ \A v \in NamedVersions(r) : v <= TargetVersion(r)
<1>1. NamedVersions(r) \subseteq 1..r
  BY DEF NamedVersions
<1>2. CASE NamedVersions(r) = {}
  BY <1>2 DEF TargetVersion
<1>3. CASE NamedVersions(r) # {}
  <2>1. \E v \in NamedVersions(r) : \A w \in NamedVersions(r) : w <= v
    <3>1. r \in Nat /\ NamedVersions(r) \in SUBSET (1..r)
      BY <1>1
    <3> QED
      BY <3>1, <1>3, Greatest
  <2>2. TargetVersion(r) = CHOOSE v \in NamedVersions(r) : \A w \in NamedVersions(r) : w <= v
    BY <1>3 DEF TargetVersion
  <2>3. TargetVersion(r) \in NamedVersions(r) /\ \A w \in NamedVersions(r) : w <= TargetVersion(r)
    BY <2>1, <2>2
  <2> QED
    BY <1>1, <2>3
<1> QED
  BY <1>2, <1>3

(* What MigratedLikeNew and RunningHasItsTables rest on.  An index that is *)
(* there, or about to be, belongs to the version of the database, so that  *)
(* the next script does not create it again ...                            *)
IndicesKnown == indices \cup todo \subseteq IndicesUpto(version)

(* ... and the database is at least as new as what runs on it.             *)
NewEnough == step \in {"indices", "running"} => TargetVersion(release) <= version

(* Every index of the database's version has been created, is about to be, *)
(* or was skipped, and no script is left over once it has ended.           *)
IndicesAccounted ==
  /\ IndicesUpto(version) \subseteq indices \cup todo \cup skipped
  /\ step # "indices" => todo = {}

IInv == TypeOK /\ MigratedLikeNew /\ IndicesKnown /\ NewEnough /\ IndicesAccounted

LEMMA InitInv == Init => IInv
<1> SUFFICES ASSUME Init PROVE IInv
  OBVIOUS
<1> USE DEF Init
<1>1. TypeOK
  BY DEF TypeOK
<1>2. MigratedLikeNew
  <2>1. \A v \in Versions : ~(v <= 0)
    BY DEF Versions
  <2> QED
    BY <2>1 DEF MigratedLikeNew, TablesUpto, PartsUpto, Parts
<1>3. IndicesKnown /\ NewEnough
  BY DEF IndicesKnown, NewEnough
<1>4. IndicesAccounted
  <2>1. \A v \in Versions : ~(v <= 0)
    BY DEF Versions
  <2> QED
    BY <2>1 DEF IndicesAccounted, IndicesUpto
<1> QED
  BY <1>1, <1>2, <1>3, <1>4 DEF IInv

(* A step that leaves the database alone and does not begin to run.        *)
LEMMA StepIdle ==
  ASSUME IInv, UNCHANGED database,
         todo' = {} \/ UNCHANGED <<step, todo>>,
         skipped' \subseteq skipped \cup todo,
         todo \cup skipped \subseteq todo' \cup skipped',
         \/ step' \in {"deploy", "failed"} /\ release' \in Versions
         \/ step' = "off" /\ release' = 0
         \/ step' = "running" /\ UNCHANGED release /\ release # 0 /\ TargetVersion(release) <= version
         \/ UNCHANGED <<step, release>>
  PROVE  IInv'
<1> USE DEF IInv, database
<1>1. TypeOK'
  BY DEF TypeOK, Versions
<1>2. MigratedLikeNew' /\ IndicesKnown'
  BY DEF MigratedLikeNew, IndicesKnown
<1>3. NewEnough'
  BY DEF NewEnough, TargetVersion, NamedVersions
<1>4. IndicesAccounted'
  BY DEF IndicesAccounted, IndicesUpto
<1> QED
  BY <1>1, <1>2, <1>3, <1>4

LEMMA StepStart ==
  ASSUME IInv, NEW r \in Versions, Start(r)
  PROVE  IInv'
<1>1. todo = {}
  BY DEF IInv, IndicesAccounted, Start
<1> QED
  BY <1>1, StepIdle DEF Start

LEMMA StepNothingToDeploy == IInv /\ NothingToDeploy => IInv'
<1> SUFFICES ASSUME IInv, NothingToDeploy PROVE IInv'
  OBVIOUS
<1>1. release # 0 /\ todo = {}
  BY DEF IInv, TypeOK, IndicesAccounted, NothingToDeploy
<1> QED
  BY <1>1, StepIdle DEF NothingToDeploy, Target

(* The script adds exactly what the new version has and the old one has    *)
(* not: nothing is missing, and nothing that is there is created again.    *)
LEMMA StepDeploy == IInv /\ Deploy => IInv'
<1> SUFFICES ASSUME IInv, Deploy PROVE IInv'
  OBVIOUS
<1> USE DEF Deploy, IInv
<1>1. /\ Target \in 0..MaxVersion
      /\ version \in 0..MaxVersion
      /\ version < Target
  BY TargetFacts DEF Target, TypeOK
<1>2. /\ tables' = TablesUpto(Target)
      /\ columns' = PartsUpto(Columns, Target)
      /\ keys' = PartsUpto(Keys, Target)
  <2>1. /\ \A t \in Tables : TableSince[t] \in 1..MaxVersion
        /\ \A p \in Columns \cup Keys : PartSince[p] \in 1..MaxVersion
    BY DEF Versions, Parts
  <2>2. TablesUpto(Target) = TablesUpto(version) \cup Created(version, Target)
    BY <1>1, <2>1 DEF TablesUpto, Created
  <2>3. ASSUME NEW S, S \subseteq Columns \cup Keys
        PROVE  PartsUpto(S, Target) = PartsUpto(S, version) \cup New(S, version, Target)
    BY <1>1, <2>1, <2>3 DEF PartsUpto, New
  <2> QED
    BY <2>2, <2>3 DEF MigratedLikeNew
<1>3. /\ todo' \subseteq IndicesUpto(Target)
      /\ todo' \cap indices = {}
      /\ indices \subseteq IndicesUpto(Target)
  <2>1. \A i \in Indices : IndexSince[i] \in 1..MaxVersion
    BY DEF Versions
  <2> QED
    BY <1>1, <2>1 DEF IndicesKnown, IndicesScript, IndicesUpto
<1>4. TypeOK'
  BY <1>1, <1>2, <1>3 DEF TypeOK, TablesUpto, PartsUpto, IndicesUpto
<1>5. MigratedLikeNew'
  BY <1>2 DEF MigratedLikeNew
<1>6. IndicesKnown'
  BY <1>3 DEF IndicesKnown
<1>7. NewEnough'
  <2>1. TargetVersion(release)' = TargetVersion(release)
    BY DEF TargetVersion, NamedVersions
  <2> QED
    BY <1>1, <2>1 DEF NewEnough, Target
<1>8. IndicesAccounted'
  <2>1. todo = {}
    BY DEF IndicesAccounted
  <2>2. IndicesUpto(Target) \subseteq IndicesUpto(version) \cup todo'
    BY DEF IndicesScript
  <2>3. IndicesUpto(version)' = IndicesUpto(Target)
    BY <1>1 DEF IndicesUpto
  <2> QED
    BY <2>1, <2>2, <2>3 DEF IndicesAccounted
<1> QED
  BY <1>4, <1>5, <1>6, <1>7, <1>8

LEMMA StepCreateIndex ==
  ASSUME IInv, NEW i \in Indices, CreateIndex(i)
  PROVE  IInv'
<1> USE DEF IInv, CreateIndex
<1>1. TypeOK'
  BY DEF TypeOK
<1>2. MigratedLikeNew' /\ IndicesKnown'
  BY DEF MigratedLikeNew, IndicesKnown
<1>3. NewEnough'
  BY DEF NewEnough, TargetVersion, NamedVersions
<1>4. IndicesAccounted'
  BY DEF IndicesAccounted, IndicesUpto
<1> QED
  BY <1>1, <1>2, <1>3, <1>4

LEMMA StepInv == IInv /\ [Next]_vars => IInv'
<1> SUFFICES ASSUME IInv, [Next]_vars PROVE IInv'
  OBVIOUS
<1>t. /\ step = "off" <=> release = 0
      /\ release \in 0..MaxVersion
      /\ step # "indices" => todo = {}
  BY DEF IInv, TypeOK, IndicesAccounted
<1>1. ASSUME NEW r \in Versions, Start(r) PROVE IInv'
  BY <1>1, StepStart
<1>2. CASE NothingToDeploy
  BY <1>2, StepNothingToDeploy
<1>3. CASE Deploy
  BY <1>3, StepDeploy
<1>4. CASE DeployFails
  BY <1>t, <1>4, StepIdle DEF DeployFails, Versions
<1>5. ASSUME NEW i \in Indices, CreateIndex(i) PROVE IInv'
  BY <1>5, StepCreateIndex
<1>6. CASE CreateIndexFails
  BY <1>6, StepIdle DEF CreateIndexFails
<1>7. CASE Initialized
  <2>1. TargetVersion(release) <= version
    BY <1>7 DEF IInv, NewEnough, Initialized
  <2> QED
    BY <1>t, <1>7, <2>1, StepIdle DEF Initialized
<1>8. CASE Quit
  BY <1>t, <1>8, StepIdle DEF Quit
<1>9. CASE Kill
  BY <1>9, StepIdle DEF Kill
<1>10. CASE UNCHANGED vars
  BY <1>10, StepIdle DEF vars
<1> QED
  BY <1>1, <1>2, <1>3, <1>4, <1>5, <1>6, <1>7, <1>8, <1>9, <1>10 DEF Next

(* The strengthening of the three invariants is inductive.                 *)
THEOREM Inductive == Spec => []IInv
<1> QED
  BY InitInv, StepInv, PTL DEF Spec

(* The variables of initializeAsync have their types, and no script        *)
(* creates an index that is there (todo and indices are disjoint).         *)
THEOREM TypeCorrect == Spec => []TypeOK
<1>1. IInv => TypeOK
  BY DEF IInv
<1> QED
  BY <1>1, Inductive, PTL

(* SchemaBase::initializeAsync with SchemaBuilder's scripts: a database    *)
(* that has been through any releases, kills and errors has the tables,    *)
(* columns and keys of a new database of its version.                      *)
THEOREM MigrationIsExact == Spec => []MigratedLikeNew
<1>1. IInv => MigratedLikeNew
  BY DEF IInv
<1> QED
  BY <1>1, Inductive, PTL

(* The same code: a release whose initialization has committed finds every *)
(* table and column of its definition, on a newer database too.            *)
THEOREM ReleasesFindTheirTables == Spec => []RunningHasItsTables
<1>1. IInv => RunningHasItsTables
  <2> SUFFICES ASSUME IInv, step \in {"indices", "running"}
               PROVE  TablesUpto(release) \subseteq tables /\ PartsUpto(Columns, release) \subseteq columns
    BY DEF RunningHasItsTables
  <2>1. /\ release \in 0..MaxVersion
        /\ version \in 0..MaxVersion
    BY DEF IInv, TypeOK
  <2>2. /\ TargetVersion(release) \in 0..release
        /\ \A v \in NamedVersions(release) : v <= TargetVersion(release)
    BY <2>1, TargetFacts
  <2>3. \A v \in NamedVersions(release) : v <= version
    <3>1. TargetVersion(release) <= version
      BY DEF IInv, NewEnough
    <3>2. NamedVersions(release) \subseteq 1..release
      BY DEF NamedVersions
    <3> QED
      BY <2>1, <2>2, <3>1, <3>2
  <2>4. ASSUME NEW t \in TablesUpto(release) PROVE t \in TablesUpto(version)
    <3>1. TableSince[t] \in 1..MaxVersion /\ TableSince[t] <= release /\ t \in Tables
      BY DEF TablesUpto, Versions
    <3>2. TableSince[t] \in NamedVersions(release)
      BY <2>1, <3>1 DEF NamedVersions
    <3> QED
      BY <2>3, <3>1, <3>2 DEF TablesUpto
  <2>5. ASSUME NEW c \in PartsUpto(Columns, release) PROVE c \in PartsUpto(Columns, version)
    <3>1. PartSince[c] \in 1..MaxVersion /\ PartSince[c] <= release /\ c \in Columns
      BY DEF PartsUpto, Versions, Parts
    <3>2. PartSince[c] \in NamedVersions(release)
      BY <2>1, <3>1 DEF NamedVersions, Parts
    <3> QED
      BY <2>3, <3>1, <3>2 DEF PartsUpto
  <2> QED
    BY <2>4, <2>5 DEF IInv, MigratedLikeNew
<1> QED
  BY <1>1, Inductive, PTL

(* The same code: an index of the running release is missing only when a   *)
(* kill or an error cut off the script that was to create it.              *)
THEOREM IndicesAppear == Spec => []IndicesUnlessSkipped
<1>1. IInv => IndicesUnlessSkipped
  <2> SUFFICES ASSUME IInv, step = "running"
               PROVE  IndicesUpto(release) \subseteq indices \cup skipped
    BY DEF IndicesUnlessSkipped
  <2>1. /\ release \in 0..MaxVersion
        /\ version \in 0..MaxVersion
    BY DEF IInv, TypeOK
  <2>2. /\ TargetVersion(release) \in 0..release
        /\ \A v \in NamedVersions(release) : v <= TargetVersion(release)
    BY <2>1, TargetFacts
  <2>3. TargetVersion(release) <= version
    BY DEF IInv, NewEnough
  <2>4. ASSUME NEW i \in IndicesUpto(release) PROVE i \in IndicesUpto(version)
    <3>1. IndexSince[i] \in 1..MaxVersion /\ IndexSince[i] <= release /\ i \in Indices
      BY DEF IndicesUpto, Versions
    <3>2. IndexSince[i] \in NamedVersions(release)
      BY <2>1, <3>1 DEF NamedVersions
    <3> QED
      BY <2>1, <2>2, <2>3, <3>1, <3>2 DEF IndicesUpto
  <2>5. IndicesUpto(version) \subseteq indices \cup skipped
    BY DEF IInv, IndicesAccounted
  <2> QED
    BY <2>4, <2>5
<1> QED
  BY <1>1, Inductive, PTL
=============================================================================
