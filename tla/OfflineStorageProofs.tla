------------------------ MODULE OfflineStorageProofs ------------------------
(***************************************************************************)
(* Theorems about the import of a track with the clean-up and the player   *)
(* (OfflineStorage), for any number of qualities, versions and blocks, and *)
(* for every fault of ImportTrack, error pages that arrive as data among   *)
(* them.                                                                   *)
(***************************************************************************)
EXTENDS OfflineStorage, TLAPS

LEMMA Constants ==
  /\ MaxStamp \in Nat /\ MaxStamp >= 1 /\ MaxBlocks \in Nat /\ MaxBlocks >= 1
  /\ Chunk \in Nat /\ Chunk >= 1
  /\ \A v \in Versions : Size[v] \in 1..MaxBlocks
  /\ Garbage \notin Versions /\ Blank \notin Versions /\ Blank # Garbage /\ 0 \notin Qualities
  /\ NoRow \notin JobRows /\ NoRow \notin ImportedRows
BY ImportAssumption, NoRowAssumption

LEMMA VersionParts ==
  ASSUME NEW q \in Qualities, NEW s \in Stamps
  PROVE  <<q, s>> \in Versions /\ <<q, s>>[1] = q /\ <<q, s>>[2] = s
BY DEF Versions

-----------------------------------------------------------------------------
(* The attempt: what it knows, and how that compares with its job's row *)

Ver(j) == <<j.quality, j.stamp>>

(* A job counts no more than its size, and when it has one it names a      *)
(* version that the server has or had.                                     *)
Dated(j) == /\ j.quality \in Qualities /\ j.stamp \in 1..server[j.quality]
            /\ j.size = Size[Ver(j)]

JobShape == job # NoRow => job.local <= job.size /\ (job.size # 0 => Dated(job))

(* The attempt's copy is the row, except between a change and its record;  *)
(* its web stream reads the version the copy names, or an error page.      *)
AttemptShape ==
  /\ step \in {"between", "lookup", "url", "cancel"} => web = Blank /\ body = Blank /\ got = 0
  /\ body \in {Blank, Garbage, web} /\ (step \in {"write", "count"} => body # Blank)
  /\ step \in {"record", "read", "write", "count"} =>
       Dated(mine) /\ web = Ver(mine) /\ mine.quality = target
  /\ step \in {"info", "transform"} => Complete(mine)
  /\ step = "url" => ~Complete(mine)
  /\ step \notin {"between", "record", "count"} => job = mine
  /\ step = "record" => mine.local = 0 /\ body = Blank /\ got = 0 /\ ~Same(job, web)
  /\ step = "read" => mine.local < mine.size
  /\ step = "write" => mine.local + got <= mine.size
  /\ step = "count" => mine.local <= mine.size /\ mine = [job EXCEPT !.local = @ + got]

ImportInv == TypeOK /\ JobShape /\ AttemptShape

LEMMA NoJobIsOne == NoJob \in JobRows
BY Constants DEF NoJob, JobRows

LEMMA ServerStamps ==
  ASSUME TypeOK, NEW q \in Qualities
  PROVE  server[q] \in Stamps /\ server[q] \in Nat /\ server[q] >= 1
BY Constants DEF TypeOK, Stamps

LEMMA WrittenIsFile ==
  ASSUME TypeOK, NEW n
  PROVE  Written(n) \in [Blocks -> Versions \cup {Garbage, Blank}]
BY DEF TypeOK, Written

(* The attempt is over: nothing of it is left but what is stored.          *)
LEMMA AttemptEnds ==
  ASSUME ImportInv, AttemptOver, UNCHANGED <<server, setting>>,
         job' \in {job, NoRow}, imported' \in ImportedRows \cup {NoRow},
         file' \in [Blocks -> Versions \cup {Garbage, Blank}]
  PROVE  ImportInv'
<1>1. TypeOK'
  BY NoJobIsOne, Constants DEF ImportInv, TypeOK, AttemptOver, Steps
<1>2. JobShape'  BY DEF ImportInv, JobShape, Dated, Ver
<1>3. AttemptShape'  BY DEF AttemptShape, AttemptOver
<1> QED BY <1>1, <1>2, <1>3 DEF ImportInv

(* Others change the imported row and the file.                            *)
LEMMA AttemptStays ==
  ASSUME ImportInv, UNCHANGED <<server, setting, job, attempt>>,
         imported' \in ImportedRows \cup {NoRow},
         file' \in [Blocks -> Versions \cup {Garbage, Blank}]
  PROVE  ImportInv'
<1>1. TypeOK'  BY DEF ImportInv, TypeOK, attempt
<1>2. JobShape' /\ AttemptShape'
  BY DEF ImportInv, JobShape, AttemptShape, attempt, Dated, Ver, Complete, Same
<1> QED BY <1>1, <1>2 DEF ImportInv

LEMMA ImportWorld ==
  ASSUME ImportInv, Request \/ \E q \in Qualities : Select(q) \/ ServerChanges(q)
  PROVE  ImportInv'
<1>1. CASE Request
  <2>1. job' \in NewJobs /\ step = "between" /\ UNCHANGED <<server, setting, imported, file, attempt>>
        BY <1>1 DEF Request, ImportInv, TypeOK
  <2>2. job' \in JobRows /\ job'.local = 0 /\ job'.size = 0
        BY <2>1, Constants DEF NewJobs, JobRows
  <2>3. TypeOK'  BY <2>1, <2>2 DEF ImportInv, TypeOK, attempt
  <2>4. JobShape'  BY <2>2 DEF JobShape
  <2>5. AttemptShape'  BY <2>1 DEF ImportInv, AttemptShape, attempt
  <2> QED BY <2>3, <2>4, <2>5 DEF ImportInv
<1>2. ASSUME NEW q \in Qualities, Select(q) PROVE ImportInv'
  <2>1. TypeOK'  BY <1>2 DEF Select, ImportInv, TypeOK, attempt
  <2> QED BY <1>2, <2>1 DEF Select, ImportInv, JobShape, AttemptShape, attempt, Dated, Ver,
             Complete, Same
<1>3. ASSUME NEW q \in Qualities, ServerChanges(q) PROVE ImportInv'
  <2>1. server' = [server EXCEPT ![q] = @ + 1] /\ server[q] < MaxStamp
        /\ UNCHANGED <<setting, job, imported, file, attempt>>
        BY <1>3 DEF ServerChanges
  <2>2. \A p \in Qualities : server'[p] \in Stamps /\ 1..server[p] \subseteq 1..server'[p]
        BY <2>1, ServerStamps, Constants DEF ImportInv, TypeOK, Stamps
  <2>3. TypeOK'  BY <2>1, <2>2 DEF ImportInv, TypeOK, attempt
  <2>4. ASSUME NEW j, Dated(j) PROVE Dated(j)'
        BY <2>2, <2>4 DEF Dated, Ver
  <2>5. JobShape'  BY <2>1, <2>4 DEF ImportInv, JobShape, Dated, Ver
  <2>6. AttemptShape'
        BY <2>1, <2>2 DEF ImportInv, AttemptShape, attempt, Dated, Ver, Complete, Same
  <2> QED BY <2>3, <2>5, <2>6 DEF ImportInv
<1> QED BY <1>1, <1>2, <1>3

(* Numbers in a row are numbers.                                           *)
LEMMA RowNumbers ==
  ASSUME NEW j \in JobRows
  PROVE  j.size \in Nat /\ j.local \in Nat /\ j.size <= MaxBlocks /\ j.local <= MaxBlocks
BY Constants DEF JobRows

(* A row that names a version is one, and counts at least a block.         *)
LEMMA DatedIsOne ==
  ASSUME ImportInv, NEW j \in JobRows, Dated(j)
  PROVE  Ver(j) \in Versions /\ j.size \in 1..MaxBlocks /\ Ver(j)[1] = j.quality
         /\ Ver(j)[2] = j.stamp
<1>1. j.quality \in Qualities /\ j.stamp \in 1..server[j.quality]  BY DEF Dated
<1>2. server[j.quality] \in Stamps  BY <1>1, ServerStamps DEF ImportInv
<1>3. j.stamp \in Stamps  BY <1>1, <1>2, Constants DEF Stamps
<1> QED BY <1>1, <1>3, VersionParts, Constants DEF Dated, Ver

LEMMA ImportBegins ==
  ASSUME ImportInv, Begin \/ Lookup \/ Unauthorized \/ GetTrackInfo
  PROVE  ImportInv'
<1>1. CASE Begin
  <2>1. TypeOK'  BY <1>1 DEF Begin, ImportInv, TypeOK, Steps
  <2> QED BY <1>1, <2>1 DEF Begin, ImportInv, JobShape, AttemptShape, Dated, Ver
<1>2. CASE Lookup
  <2>1. job = mine /\ job # NoRow /\ web = Blank /\ body = Blank /\ got = 0
        BY <1>2 DEF Lookup, ImportInv, AttemptShape, TypeOK
  <2>2. step' \in {"info", "url"} /\ (step' = "info" <=> Complete(mine))
        /\ UNCHANGED <<server, setting, job, file, mine, target, web, body, got>>
        BY <1>2 DEF Lookup, Onwards
  <2>3. TypeOK'  BY <1>2, <2>1, <2>2 DEF Lookup, ImportInv, TypeOK, Steps
  <2>4. JobShape'  BY <2>2 DEF ImportInv, JobShape, Dated, Ver
  <2>5. AttemptShape'  BY <2>1, <2>2 DEF AttemptShape, Complete
  <2> QED BY <2>3, <2>4, <2>5 DEF ImportInv
<1>3. CASE Unauthorized
  <2>1. TypeOK'  BY <1>3, Constants DEF Unauthorized, ImportInv, TypeOK, Steps
  <2>2. /\ job = mine /\ step' = "cancel" /\ web' = Blank /\ body' = Blank /\ got' = 0
        /\ UNCHANGED <<server, job, mine>>
        BY <1>3 DEF Unauthorized, ImportInv, AttemptShape
  <2> QED BY <2>1, <2>2 DEF ImportInv, JobShape, AttemptShape, Dated, Ver
<1>4. CASE GetTrackInfo
  <2>1. TypeOK'  BY <1>4 DEF GetTrackInfo, ImportInv, TypeOK, Steps
  <2> QED BY <1>4, <2>1 DEF GetTrackInfo, ImportInv, JobShape, AttemptShape, Dated, Ver, Complete
<1> QED BY <1>1, <1>2, <1>3, <1>4

(* The server's file is the job's, and the download goes on, or another,   *)
(* and it starts again.                                                    *)
LEMMA ImportFinds ==
  ASSUME ImportInv, FindVersion
  PROVE  ImportInv'
<1> DEFINE v == <<target, server[target]>>
<1>1. step = "url" /\ job = mine /\ job # NoRow /\ body = Blank /\ got = 0 /\ target \in Qualities
      /\ mine \in JobRows
  BY DEF FindVersion, ImportInv, AttemptShape, TypeOK
<1>2. server[target] \in Stamps /\ server[target] \in 1..server[target]
  BY <1>1, ServerStamps DEF ImportInv
<1>3. v \in Versions /\ v[1] = target /\ v[2] = server[target] /\ Size[v] \in 1..MaxBlocks
  BY <1>1, <1>2, VersionParts, Constants
<1>4. UNCHANGED <<server, setting, job, imported, file, target, body, got>> /\ web' = v
  BY DEF FindVersion
<1>5. JobShape'  BY <1>4 DEF ImportInv, JobShape, Dated, Ver
<1>6. CASE Same(mine, v)
  <2>1. step' = "read" /\ mine' = mine  BY <1>6 DEF FindVersion
  <2>2. mine.quality = target /\ mine.stamp = server[target] /\ mine.size = Size[v]
        BY <1>3, <1>6 DEF Same
  <2>3. Dated(mine) /\ Ver(mine) = v  BY <1>1, <1>2, <2>2 DEF Dated, Ver
  <2>4. mine.local < mine.size
    <3>1. mine.local <= mine.size /\ ~Complete(mine) /\ mine.size >= 1
          BY <1>1, <1>3, <2>2, Constants DEF ImportInv, JobShape, AttemptShape
    <3> QED BY <1>1, <3>1, RowNumbers DEF Complete
  <2>5. TypeOK'  BY <1>1, <1>3, <1>4, <2>1 DEF ImportInv, TypeOK, Steps
  <2>6. AttemptShape'
        BY <1>1, <1>4, <2>1, <2>2, <2>3, <2>4 DEF AttemptShape, Dated, Ver
  <2> QED BY <1>5, <2>5, <2>6 DEF ImportInv
<1>7. CASE ~Same(mine, v)
  <2>1. step' = "record"
        /\ mine' = [quality |-> v[1], stamp |-> v[2], size |-> Size[v], local |-> 0]
        BY <1>7 DEF FindVersion
  <2>2. mine' \in JobRows /\ mine'.quality = target /\ mine'.stamp = server[target]
        /\ mine'.size = Size[v] /\ mine'.local = 0
        BY <1>1, <1>2, <1>3, <2>1, Constants DEF JobRows
  <2>3. Dated(mine)' /\ Ver(mine') = v
        BY <1>1, <1>2, <1>4, <2>2 DEF Dated, Ver
  <2>4. TypeOK'  BY <1>1, <1>3, <1>4, <2>1, <2>2 DEF ImportInv, TypeOK, Steps
  <2>5. AttemptShape'
        BY <1>1, <1>4, <1>7, <2>1, <2>2, <2>3 DEF AttemptShape, Same, Ver
  <2> QED BY <1>5, <2>4, <2>5 DEF ImportInv
<1> QED BY <1>6, <1>7

LEMMA ImportRecords ==
  ASSUME ImportInv, Record
  PROVE  ImportInv'
<1>1. /\ step = "record" /\ step' = "read" /\ job' = mine
      /\ UNCHANGED <<server, setting, imported, file, mine, target, web, body, got>>
  BY DEF Record
<1>2. Dated(mine) /\ web = Ver(mine) /\ mine.quality = target /\ mine.local = 0 /\ mine \in JobRows
  BY <1>1 DEF ImportInv, AttemptShape, TypeOK
<1>3. mine.size >= 1 /\ mine.size \in Nat /\ mine # NoRow
  BY <1>2, DatedIsOne, Constants
<1>4. TypeOK'  BY <1>1, <1>2, <1>3 DEF ImportInv, TypeOK, Steps
<1>5. JobShape'  BY <1>1, <1>2, <1>3 DEF JobShape, Dated, Ver
<1>6. AttemptShape'  BY <1>1, <1>2, <1>3 DEF ImportInv, AttemptShape, Dated, Ver
<1> QED BY <1>4, <1>5, <1>6 DEF ImportInv

LEMMA ImportReads ==
  ASSUME ImportInv, Read
  PROVE  ImportInv'
<1>1. /\ step = "read" /\ step' = "write" /\ body' \in Answers
      /\ got' \in 1..Wanted \cup {0} \cup 0..Wanted
      /\ UNCHANGED <<server, setting, job, imported, file, mine, target, web>>
  BY DEF Read
<1>2. /\ job = mine /\ mine.local < mine.size /\ mine \in JobRows /\ web = Ver(mine) /\ Dated(mine)
      /\ body \in {Blank, Garbage, web}
  BY <1>1 DEF ImportInv, AttemptShape, TypeOK
<1>3. got' \in 0..Chunk /\ mine.local + got' <= mine.size
  BY <1>1, <1>2, RowNumbers, Constants DEF Wanted
<1>4. body' \in {Garbage, web} /\ web \in Versions /\ body' # Blank
  BY <1>1, <1>2, DatedIsOne, Constants DEF Answers
<1>5. TypeOK'  BY <1>1, <1>3, <1>4 DEF ImportInv, TypeOK, Steps
<1>6. JobShape'  BY <1>1 DEF ImportInv, JobShape, Dated, Ver
<1>7. AttemptShape'
  BY <1>1, <1>2, <1>3, <1>4 DEF ImportInv, AttemptShape, Dated, Ver
<1> QED BY <1>5, <1>6, <1>7 DEF ImportInv

LEMMA ImportWrites ==
  ASSUME ImportInv, Write
  PROVE  ImportInv'
<1>1. /\ step = "write" /\ step' = "count" /\ file' = Written(got)
      /\ mine' = [mine EXCEPT !.local = @ + got]
      /\ UNCHANGED <<server, setting, job, imported, target, web, body, got>>
  BY DEF Write
<1>2. /\ job = mine /\ mine \in JobRows /\ mine.local + got <= mine.size
      /\ Dated(mine) /\ web = Ver(mine) /\ mine.quality = target /\ got \in Nat
      /\ body \in {Blank, Garbage, web} /\ body # Blank
  BY <1>1, Constants DEF ImportInv, AttemptShape, TypeOK
<1>3. /\ mine' \in JobRows /\ mine'.local = mine.local + got /\ mine'.size = mine.size
      /\ mine'.quality = mine.quality /\ mine'.stamp = mine.stamp
  BY <1>1, <1>2, RowNumbers, Constants DEF JobRows
<1>4. file' \in [Blocks -> Versions \cup {Garbage, Blank}]
  BY <1>1, WrittenIsFile DEF ImportInv
<1>5. TypeOK'  BY <1>1, <1>3, <1>4 DEF ImportInv, TypeOK, Steps
<1>6. JobShape'  BY <1>1 DEF ImportInv, JobShape, Dated, Ver
<1>7. AttemptShape'  BY <1>1, <1>2, <1>3 DEF AttemptShape, Dated, Ver
<1> QED BY <1>5, <1>6, <1>7 DEF ImportInv

LEMMA ImportCounts ==
  ASSUME ImportInv, Count
  PROVE  ImportInv'
<1>1. /\ step = "count" /\ job' = mine
      /\ step' = IF mine.local < mine.size THEN "read" ELSE "info"
      /\ UNCHANGED <<server, setting, imported, file, mine, target, web, body, got>>
  BY DEF Count
<1>2. /\ Dated(mine) /\ web = Ver(mine) /\ mine.quality = target /\ mine \in JobRows
      /\ mine.local <= mine.size
  BY <1>1 DEF ImportInv, AttemptShape, TypeOK
<1>3. mine.size >= 1 /\ mine.size \in Nat /\ mine.local \in Nat /\ mine # NoRow
  BY <1>2, DatedIsOne, RowNumbers, Constants
<1>4. TypeOK'  BY <1>1, <1>2, <1>3 DEF ImportInv, TypeOK, Steps
<1>5. JobShape'  BY <1>1, <1>2, <1>3 DEF JobShape, Dated, Ver
<1>6. AttemptShape'
  <2>1. ~(mine.local < mine.size) => Complete(mine)  BY <1>2, <1>3 DEF Complete
  <2> QED BY <1>1, <1>2, <1>3, <2>1 DEF ImportInv, AttemptShape, Dated, Ver, Complete
<1> QED BY <1>4, <1>5, <1>6 DEF ImportInv

(* What is written when a write fails, or is cut off by a kill.            *)
LEMMA TornIsFile ==
  ASSUME ImportInv, step = "write", NEW f \in {Written(n) : n \in 0..got}
  PROVE  f \in [Blocks -> Versions \cup {Garbage, Blank}]
BY WrittenIsFile DEF ImportInv

LEMMA ImportEnds ==
  ASSUME ImportInv, Transform \/ CancelJob \/ Fail \/ Crash
  PROVE  ImportInv'
<1>1. CASE Transform
  <2>1. step = "transform" /\ job = mine /\ job # NoRow /\ job \in JobRows /\ Complete(job)
        BY <1>1 DEF Transform, ImportInv, AttemptShape, TypeOK
  <2>2. job.quality \in Qualities /\ job.size \in 1..MaxBlocks
        BY <2>1, RowNumbers, Constants DEF ImportInv, JobShape, Dated, Complete
  <2>3. imported' \in ImportedRows  BY <1>1, <2>2 DEF Transform, ImportedRows
  <2> QED BY <1>1, <2>3, AttemptEnds DEF Transform, ImportInv, TypeOK
<1>2. CASE CancelJob
  BY <1>2, AttemptEnds DEF CancelJob, ImportInv, TypeOK
<1>3. CASE Fail
  <2>1. file' \in [Blocks -> Versions \cup {Garbage, Blank}]
    <3>1. CASE file' = file  BY <3>1 DEF ImportInv, TypeOK
    <3>2. CASE file' # file  BY <1>3, <3>2, TornIsFile DEF Fail
    <3> QED BY <3>1, <3>2
  <2> QED BY <1>3, <2>1, AttemptEnds DEF Fail, ImportInv, TypeOK
<1>4. CASE Crash
  <2>1. file' \in [Blocks -> Versions \cup {Garbage, Blank}]
    <3>1. CASE file' = file  BY <3>1 DEF ImportInv, TypeOK
    <3>2. CASE file' # file  BY <1>4, <3>2, TornIsFile DEF Crash
    <3> QED BY <3>1, <3>2
  <2> QED BY <1>4, <2>1, AttemptEnds DEF Crash, ImportInv, TypeOK
<1> QED BY <1>1, <1>2, <1>3, <1>4

LEMMA ImportInit == Init => ImportInv
<1> SUFFICES ASSUME Init PROVE ImportInv  OBVIOUS
<1>1. server \in [Qualities -> Stamps]  BY Constants DEF Init, Stamps
<1>2. TypeOK  BY <1>1, NoJobIsOne, Constants DEF Init, TypeOK, Steps
<1> QED BY <1>2 DEF Init, ImportInv, JobShape, AttemptShape

(* A step of the storage is one of the import, or leaves the attempt alone.*)
LEMMA ImportKept ==
  ASSUME ImportInv, seen \in ImportedRows \cup {NoRow}, [StorageNext]_storageVars,
         player = "row" => seen # NoRow
  PROVE  ImportInv'
<1>1. CASE ImportProgress \/ ImportEvent
  <2>1. CASE OpenRefused
        BY <2>1, AttemptEnds DEF OpenRefused, ImportInv, TypeOK
  <2> QED BY <1>1, <2>1, ImportBegins, ImportFinds, ImportRecords, ImportReads, ImportWrites,
             ImportCounts, ImportEnds, ImportWorld DEF ImportProgress, ImportEvent
<1>2. CASE KillAll  BY <1>2, ImportEnds DEF KillAll
<1>3. CASE TryDelete
  <2>1. file' \in [Blocks -> Versions \cup {Garbage, Blank}]
        BY <1>3 DEF TryDelete, NoFile, ImportInv, TypeOK
  <2> QED BY <1>3, <2>1, AttemptStays DEF TryDelete, ImportInv, TypeOK
<1>4. CASE DeleteRow \/ RecordPlayback
  BY <1>4, AttemptStays DEF DeleteRow, RecordPlayback, ImportInv, TypeOK
<1>5. CASE ListImports \/ LookupImported \/ OpenImported \/ StopPlaying \/ UNCHANGED storageVars
  <2>1. UNCHANGED vars
        BY <1>5 DEF ListImports, LookupImported, OpenImported, StopPlaying, storageVars
  <2> QED BY <2>1, AttemptStays DEF vars, ImportInv, TypeOK
<1> QED BY <1>1, <1>2, <1>3, <1>4, <1>5 DEF StorageNext

-----------------------------------------------------------------------------
(* The player's row, the file's users and the ghost *)

(* The file is open for the import or for the player, never for both.      *)
FileHasOneUser == ~(ImportHasFile /\ player = "open")

(* Only a job that counts something can be wronged.                        *)
JobWronged == "job" \in wronged => job # NoRow /\ job.local > 0

ShapeInv == ImportInv /\ StorageTypeOK /\ FileHasOneUser /\ JobWronged

LEMMA PassedSays ==
  /\ "job" \in Passed <=> job' # NoRow /\ job'.local > 0 /\ ("job" \in wronged \/ PageCounted)
  /\ "row" \in Passed <=> IF step = "transform" /\ job' = NoRow THEN "job" \in wronged
                          ELSE imported' # NoRow /\ ("row" \in wronged \/ PageWritten)
  /\ Passed \subseteq {"row", "job"}
BY DEF Passed

(* Each step of the import, and where it leaves the attempt, is one of     *)
(* these.                                                                  *)
LEMMA ImportSteps ==
  ASSUME ImportProgress \/ ImportEvent
  PROVE  /\ wronged' = Passed /\ UNCHANGED <<sweep, player, seen>>
         /\ \/ Begin \/ Lookup \/ FindVersion \/ Record
            \/ Read /\ (body = Blank => player # "open")
            \/ OpenRefused \/ Write \/ Count \/ GetTrackInfo \/ Transform \/ CancelJob
            \/ Request \/ Unauthorized \/ Fail
            \/ \E q \in Qualities : Select(q) \/ ServerChanges(q)
BY DEF ImportProgress, ImportEvent, Others

(* Without the file the attempt gets it only where the player has not.     *)
LEMMA ImportTakesFile ==
  ASSUME ImportInv, ImportProgress \/ ImportEvent, ImportHasFile'
  PROVE  ImportHasFile \/ player # "open"
<1> SUFFICES ASSUME ~ImportHasFile, player = "open" PROVE FALSE  OBVIOUS
<1>1. step' # "between"
  BY DEF ImportHasFile
<1>2. CASE \/ Request \/ \E q \in Qualities : Select(q) \/ ServerChanges(q)
  BY <1>2 DEF ImportHasFile, Request, Select, ServerChanges, attempt
<1>3. CASE Read /\ (body = Blank => player # "open")
  BY <1>3 DEF Read, ImportHasFile
<1>4. CASE Begin \/ Lookup \/ FindVersion \/ Record \/ Unauthorized \/ GetTrackInfo
  <2>1. step \in {"between", "lookup", "url", "record"} => body = Blank
        BY DEF ImportInv, AttemptShape
  <2>2. step \in {"between", "lookup", "url"} => web = Blank
        BY DEF ImportInv, AttemptShape
  <2> QED BY <1>4, <2>1, <2>2 DEF ImportHasFile, Begin, Lookup, Onwards, FindVersion, Record,
             Unauthorized, GetTrackInfo
<1>5. CASE Write \/ Count  BY <1>5 DEF Write, Count, ImportHasFile
<1>6. CASE OpenRefused \/ Transform \/ CancelJob \/ Fail
  BY <1>1, <1>6 DEF OpenRefused, Transform, CancelJob, Fail, AttemptOver
<1> QED BY <1>2, <1>3, <1>4, <1>5, <1>6, ImportSteps

LEMMA ShapeKept ==
  ASSUME ShapeInv, [StorageNext]_storageVars
  PROVE  ShapeInv'
<1>0. seen \in ImportedRows \cup {NoRow} /\ (player = "row" => seen # NoRow)
  BY DEF ShapeInv, StorageTypeOK
<1>1. ImportInv'  BY <1>0, ImportKept DEF ShapeInv
<1>2. TypeOK'  BY <1>1 DEF ImportInv
<1>3. CASE ImportProgress \/ ImportEvent
  <2>1. wronged' = Passed /\ UNCHANGED <<sweep, player, seen>>  BY <1>3, ImportSteps
  <2>2. StorageTypeOK'
        BY <1>2, <2>1, PassedSays DEF ShapeInv, StorageTypeOK
  <2>3. JobWronged'  BY <2>1, PassedSays DEF JobWronged
  <2>4. FileHasOneUser'
        BY <1>3, <2>1, ImportTakesFile DEF ShapeInv, FileHasOneUser
  <2> QED BY <1>1, <2>2, <2>3, <2>4 DEF ShapeInv
<1>4. CASE KillAll
  <2>1. StorageTypeOK'
        BY <1>2, <1>4, PassedSays DEF KillAll, ShapeInv, StorageTypeOK
  <2>2. JobWronged'  BY <1>4, PassedSays DEF KillAll, JobWronged
  <2>3. FileHasOneUser'  BY <1>4 DEF KillAll, FileHasOneUser
  <2> QED BY <1>1, <2>1, <2>2, <2>3 DEF ShapeInv
<1>5. CASE TryDelete
  <2>1. UNCHANGED <<job, attempt, player, seen>> /\ sweep' \in {"off", "row"}
        /\ wronged' \subseteq {"row", "job"}
        /\ ("job" \in wronged' => "job" \in wronged \/ (job # NoRow /\ job.local > 0))
        BY <1>5 DEF TryDelete, ShapeInv, StorageTypeOK
  <2>2. StorageTypeOK'  BY <1>2, <2>1 DEF ShapeInv, StorageTypeOK
  <2> QED BY <1>1, <2>1, <2>2 DEF ShapeInv, JobWronged, FileHasOneUser, ImportHasFile, attempt
<1>6. CASE ListImports \/ DeleteRow \/ RecordPlayback
  <2>1. /\ UNCHANGED <<job, attempt, seen>> /\ sweep' \in {"off", "file", "row"}
        /\ wronged' \subseteq {"row", "job"} /\ ("job" \in wronged' <=> "job" \in wronged)
        /\ player' = player \/ (player = "row" /\ player' = "opening")
        BY <1>6 DEF ListImports, DeleteRow, RecordPlayback, vars, ShapeInv, StorageTypeOK
  <2>2. StorageTypeOK'  BY <1>2, <2>1 DEF ShapeInv, StorageTypeOK
  <2> QED BY <1>1, <2>1, <2>2 DEF ShapeInv, JobWronged, FileHasOneUser, ImportHasFile, attempt
<1>7. CASE LookupImported \/ StopPlaying \/ OpenImported
  <2>1. /\ UNCHANGED <<job, attempt, sweep, wronged>>
        /\ player' \in {"off", "row", "open"} /\ seen' \in ImportedRows \cup {NoRow}
        /\ (player' = "row" <=> seen' # NoRow)
        /\ player' = "open" => ~ImportHasFile
        BY <1>7 DEF LookupImported, StopPlaying, OpenImported, vars, ShapeInv, StorageTypeOK,
           ImportInv, TypeOK
  <2>2. StorageTypeOK'  BY <1>2, <2>1 DEF ShapeInv, StorageTypeOK
  <2> QED BY <1>1, <2>1, <2>2 DEF ShapeInv, JobWronged, FileHasOneUser, ImportHasFile, attempt
<1>8. CASE UNCHANGED storageVars
  <2>1. StorageTypeOK'  BY <1>2, <1>8 DEF storageVars, others, vars, ShapeInv, StorageTypeOK
  <2> QED BY <1>1, <1>8, <2>1 DEF storageVars, others, vars, ShapeInv, JobWronged, FileHasOneUser,
             ImportHasFile, attempt
<1> QED BY <1>3, <1>4, <1>5, <1>6, <1>7, <1>8 DEF StorageNext

-----------------------------------------------------------------------------
(* The bytes a job counts *)

(* The blocks the row counts, and those the attempt is about to count in   *)
(* it unless they are an error page's, come from the version it names.     *)
JobHolds ==
  /\ job # NoRow /\ "job" \notin wronged => Holds(job.quality, job.local, job.stamp)
  /\ step = "count" /\ body # Garbage /\ "job" \notin wronged => Holds(mine.quality, mine.local, mine.stamp)

(* Row, file, attempt and ghost as they were.                              *)
LEMMA HoldsStays ==
  ASSUME JobHolds, UNCHANGED <<job, file>>, "job" \notin wronged' => "job" \notin wronged,
         step' = "count" => step = "count" /\ mine' = mine /\ body' = body
  PROVE  JobHolds'
BY DEF JobHolds, Holds

(* A write adds to the blocks that are counted and touches none of them,   *)
(* even if it is cut short.                                                *)
LEMMA WrittenBlocks ==
  ASSUME ImportInv, step = "write", NEW n \in 0..got, NEW b \in Blocks
  PROVE  /\ b < job.local => Written(n)[b] = file[b]
         /\ b >= job.local /\ b < job.local + n => Written(n)[b] = body
<1>1. job = mine /\ mine \in JobRows /\ got \in Nat
  BY Constants DEF ImportInv, AttemptShape, TypeOK
<1>2. mine.local \in Nat /\ n \in Nat /\ b \in Nat
  BY <1>1, RowNumbers, Constants DEF Blocks
<1>3. Written(n)[b] = IF b \in mine.local..(mine.local + n - 1) THEN body ELSE file[b]
  BY DEF Written
<1> QED BY <1>1, <1>2, <1>3

LEMMA TornKeepsJob ==
  ASSUME ImportInv, JobHolds, file' \in IF step = "write" THEN {Written(n) : n \in 0..got} ELSE {file},
         AttemptOver, job' = job, "job" \notin wronged' => "job" \notin wronged
  PROVE  JobHolds'
<1>1. step' # "count"  BY DEF AttemptOver
<1>2. ASSUME job # NoRow, "job" \notin wronged PROVE Holds(job.quality, job.local, job.stamp)'
  <2>1. CASE step = "write"
    <3>1. PICK n \in 0..got : file' = Written(n)  BY <2>1
    <3> QED BY <1>2, <2>1, <3>1, WrittenBlocks DEF JobHolds, Holds
  <2> QED BY <1>2, <2>1 DEF JobHolds, Holds
<1> QED BY <1>1, <1>2 DEF JobHolds

LEMMA WriteCounts ==
  ASSUME ShapeInv, JobHolds, Write, wronged' = Passed
  PROVE  JobHolds'
<1>1. /\ step = "write" /\ step' = "count" /\ job' = job /\ file' = Written(got)
      /\ mine' = [mine EXCEPT !.local = @ + got]
  BY DEF Write
<1>2. job # NoRow /\ job = mine /\ mine \in JobRows /\ got \in Nat /\ web = Ver(mine)
      /\ body \in {Garbage, web} /\ body' = body
  BY <1>1, Constants DEF Write, ShapeInv, ImportInv, AttemptShape, TypeOK
<1>3. /\ mine'.quality = job.quality /\ mine'.stamp = job.stamp /\ mine'.local = job.local + got
      /\ job.local \in Nat
  BY <1>1, <1>2, RowNumbers DEF JobRows
<1>4. SUFFICES ASSUME "job" \notin wronged'
               PROVE  /\ Holds(job.quality, job.local, job.stamp)'
                      /\ body # Garbage => Holds(mine.quality, mine.local, mine.stamp)'
  BY <1>2 DEF JobHolds
<1>5. "job" \notin wronged
  BY <1>1, <1>2, <1>4, PassedSays DEF ShapeInv, JobWronged
<1>6. \A b \in Blocks : b \in Nat /\ (b < job.local => file[b] = Ver(job))
  BY <1>2, <1>5, Constants DEF JobHolds, Holds, Ver, Blocks
<1>7. ASSUME NEW b \in Blocks, b < job.local PROVE file'[b] = Ver(job)
  BY <1>1, <1>2, <1>6, <1>7, WrittenBlocks DEF ShapeInv
<1>8. ASSUME body # Garbage, NEW b \in Blocks, b < job.local + got PROVE file'[b] = Ver(job)
  <2>1. CASE b < job.local  BY <1>7, <2>1
  <2>2. CASE ~(b < job.local)
    <3>1. b >= job.local  BY <1>3, <1>6, <2>2
    <3> QED BY <1>1, <1>2, <1>8, <3>1, WrittenBlocks DEF ShapeInv
  <2> QED BY <2>1, <2>2
<1> QED BY <1>1, <1>3, <1>7, <1>8 DEF Holds, Ver

LEMMA JobHoldsKept ==
  ASSUME ShapeInv, JobHolds, [StorageNext]_storageVars
  PROVE  JobHolds'
<1>1. CASE ImportProgress \/ ImportEvent
  <2>0. wronged' = Passed  BY <1>1, ImportSteps
  <2>1. ASSUME job' = job PROVE "job" \notin wronged' => "job" \notin wronged
        BY <2>0, <2>1, PassedSays DEF ShapeInv, JobWronged
  <2>2. CASE Begin \/ Lookup \/ FindVersion \/ Read \/ GetTrackInfo \/ Unauthorized
             \/ \E q \in Qualities : Select(q) \/ ServerChanges(q)
    <3>1. UNCHANGED <<job, file>> /\ (step' = "count" => step = "count" /\ mine' = mine /\ body' = body)
          BY <2>2 DEF Begin, Lookup, Onwards, FindVersion, Read, GetTrackInfo, Unauthorized,
             Select, ServerChanges, attempt
    <3> QED BY <2>1, <3>1, HoldsStays
  <2>3. CASE Record \/ Request
    <3>1. job'.local = 0 /\ step' # "count"
          BY <2>3, Constants DEF Record, Request, NewJobs, ShapeInv, ImportInv, AttemptShape, TypeOK,
             attempt
    <3>2. \A b \in Blocks : ~(b < 0)  BY Constants DEF Blocks
    <3> QED BY <3>1, <3>2 DEF JobHolds, Holds
  <2>4. CASE OpenRefused \/ Fail
    <3>1. /\ AttemptOver /\ job' = job
          /\ file' \in IF step = "write" THEN {Written(n) : n \in 0..got} ELSE {file}
          BY <2>4 DEF OpenRefused, Fail
    <3> QED BY <2>1, <3>1, TornKeepsJob DEF ShapeInv
  <2>5. CASE Transform \/ CancelJob
        BY <2>5 DEF Transform, CancelJob, AttemptOver, JobHolds
  <2>6. CASE Write  BY <2>0, <2>6, WriteCounts
  <2>7. CASE Count
    <3>1. /\ step = "count" /\ step' # "count" /\ job' = mine /\ file' = file /\ job' # NoRow
          /\ mine = [job EXCEPT !.local = @ + got] /\ job \in JobRows /\ got \in Nat
      <4>1. mine \in JobRows  BY DEF ShapeInv, ImportInv, TypeOK
      <4> QED BY <2>7, <4>1, Constants DEF Count, ShapeInv, ImportInv, AttemptShape, TypeOK
    <3>2. mine.local = job.local + got /\ job.local \in Nat
          BY <3>1, RowNumbers DEF JobRows
    <3>3. CASE got = 0
      <4>0. job.local + got = job.local  BY <3>2, <3>3
      <4>1. job' = job  BY <3>1, <4>0 DEF JobRows
      <4> QED BY <2>1, <3>1, <4>1, HoldsStays
    <3>4. CASE got # 0
      <4>0. job.local + got > job.local /\ job.local + got > 0 /\ job.local + got # job.local
            BY <3>1, <3>2, <3>4
      <4>1. job' # job /\ job'.local > 0
        <5>1. job'.local = job.local + got  BY <3>1, <3>2
        <5> QED BY <4>0, <5>1
      <4>2. "job" \notin wronged' => "job" \notin wronged /\ body # Garbage
            BY <2>0, <3>1, <4>1, PassedSays DEF PageCounted
      <4> QED BY <3>1, <4>2 DEF JobHolds, Holds
    <3> QED BY <3>3, <3>4
  <2> QED BY <1>1, <2>2, <2>3, <2>4, <2>5, <2>6, <2>7, ImportSteps
<1>2. CASE KillAll
  <2>1. AttemptOver /\ job' = job /\ wronged' = Passed
        /\ file' \in IF step = "write" THEN {Written(n) : n \in 0..got} ELSE {file}
        BY <1>2 DEF KillAll, Crash
  <2>2. "job" \notin wronged' => "job" \notin wronged
        BY <2>1, PassedSays DEF ShapeInv, JobWronged
  <2> QED BY <2>1, <2>2, TornKeepsJob DEF ShapeInv
<1>3. CASE TryDelete
  <2>1. CASE ImportHasFile \/ player = "open"
        BY <1>3, <2>1, HoldsStays DEF TryDelete, attempt
  <2>2. CASE ~(ImportHasFile \/ player = "open")
    <3>1. step # "count" /\ step' = step /\ job' = job
          /\ ("job" \notin wronged' => job = NoRow \/ ~(job.local > 0))
          BY <1>3, <2>2 DEF TryDelete, ImportHasFile, attempt
    <3>2. job # NoRow /\ ~(job.local > 0) => \A b \in Blocks : ~(b < job.local)
          BY RowNumbers, Constants DEF ShapeInv, ImportInv, TypeOK, Blocks
    <3> QED BY <3>1, <3>2 DEF JobHolds, Holds
  <2> QED BY <2>1, <2>2
<1>4. CASE ListImports \/ DeleteRow \/ LookupImported \/ RecordPlayback \/ OpenImported
           \/ StopPlaying \/ UNCHANGED storageVars
  <2>1. UNCHANGED <<job, file, step, mine, body>> /\ ("job" \in wronged' <=> "job" \in wronged)
        BY <1>4 DEF ListImports, DeleteRow, LookupImported, RecordPlayback, OpenImported,
           StopPlaying, storageVars, vars, others, attempt
  <2> QED BY <2>1, HoldsStays
<1> QED BY <1>1, <1>2, <1>3, <1>4 DEF StorageNext

-----------------------------------------------------------------------------
(* The bytes below the imported row *)

Still == \A q \in Qualities : server[q] = 1

(* An attempt writes into the file of an imported track only when it has   *)
(* the quality of the row: Lookup has deleted every other row.             *)
TargetKept ==
  step \in {"url", "record", "read", "write", "count"} /\ imported # NoRow /\ "row" \notin wronged
    => imported.quality = target

(* While the server's files stay, the file is the first version of the     *)
(* quality the row names.                                                  *)
RowHolds ==
  Still /\ imported # NoRow /\ "row" \notin wronged =>
    /\ Holds(imported.quality, imported.size, 1)
    /\ imported.size = Size[<<imported.quality, 1>>]

LEMMA StillBefore ==
  ASSUME TypeOK, \/ UNCHANGED server
                 \/ \E q \in Qualities : server' = [server EXCEPT ![q] = @ + 1],
         Still'
  PROVE  Still /\ server' = server
<1>1. SUFFICES ASSUME NEW q \in Qualities, server' = [server EXCEPT ![q] = @ + 1]
               PROVE  FALSE
  BY DEF Still
<1>2. server'[q] = server[q] + 1 /\ server'[q] = 1  BY <1>1 DEF Still, TypeOK
<1> QED BY <1>2, ServerStamps

(* The row stays what it was, or goes.                                     *)
LEMMA RowStays ==
  ASSUME TypeOK, RowHolds, UNCHANGED <<file, server>>,
         imported' # NoRow /\ "row" \notin wronged' => imported' = imported /\ "row" \notin wronged
  PROVE  RowHolds'
BY DEF RowHolds, Still, Holds

(* A step leaves the row its mark and writes no error page below it.       *)
RowUnmarked ==
  "row" \notin wronged' =>
    imported = NoRow \/ ("row" \notin wronged /\ (body = Garbage => file' = file))

(* What the import writes under the row is what was there.                 *)
LEMMA WrittenKeepsRow ==
  ASSUME ImportInv, RowHolds, TargetKept, step = "write", UNCHANGED <<server, imported>>,
         NEW n \in 0..got, file' = Written(n), RowUnmarked
  PROVE  RowHolds'
<1>1. SUFFICES ASSUME Still, imported # NoRow, "row" \notin wronged, body # Garbage
               PROVE  \A b \in Blocks : b < imported.size => file'[b] = <<imported.quality, 1>>
  BY DEF RowHolds, RowUnmarked, Still, Holds
<1>2. /\ imported.quality = target /\ body = Ver(mine) /\ mine.quality = target
      /\ mine.stamp \in 1..server[target] /\ target \in Qualities
  BY <1>1 DEF ImportInv, AttemptShape, Dated, TargetKept, TypeOK
<1>3. mine.stamp = 1  BY <1>1, <1>2 DEF Still
<1>4. body = <<imported.quality, 1>>  BY <1>2, <1>3 DEF Ver
<1>5. ASSUME NEW b \in Blocks, b < imported.size PROVE file'[b] = <<imported.quality, 1>>
  <2>1. file[b] = <<imported.quality, 1>>  BY <1>1, <1>5 DEF RowHolds, Holds
  <2>2. file'[b] = IF b \in mine.local..(mine.local + n - 1) THEN body ELSE file[b]
        BY DEF Written
  <2> QED BY <1>4, <2>1, <2>2
<1> QED BY <1>5

LEMMA TornKeepsRow ==
  ASSUME ImportInv, RowHolds, TargetKept, UNCHANGED <<server, imported>>,
         file' \in IF step = "write" THEN {Written(n) : n \in 0..got} ELSE {file},
         RowUnmarked
  PROVE  RowHolds'
<1>1. CASE step = "write"
  <2>1. PICK n \in 0..got : file' = Written(n)  BY <1>1
  <2> QED BY <1>1, <2>1, WrittenKeepsRow
<1>2. CASE step # "write"
  BY <1>2, RowStays DEF ImportInv, RowUnmarked
<1> QED BY <1>1, <1>2

(* The job of a finished import counts the whole of one server file.       *)
LEMMA FinishedJob ==
  ASSUME ImportInv, JobHolds, Transform, "job" \notin wronged
  PROVE  \E s \in Stamps :
           /\ job.quality \in Qualities /\ s \in 1..server[job.quality]
           /\ imported'.quality = job.quality /\ imported'.size = Size[<<imported'.quality, s>>]
           /\ Holds(imported.quality, imported.size, s)'
<1>1. /\ step = "transform" /\ job = mine /\ job # NoRow /\ job \in JobRows /\ Complete(job)
      /\ imported' = [quality |-> job.quality, size |-> job.size] /\ file' = file
  BY DEF Transform, ImportInv, AttemptShape, TypeOK
<1>2. Dated(job) /\ job.local = job.size
  BY <1>1 DEF ImportInv, JobShape, Complete
<1>3. /\ Ver(job) \in Versions /\ job.size \in 1..MaxBlocks /\ Ver(job)[2] = job.stamp
      /\ job.quality \in Qualities
  BY <1>1, <1>2, DatedIsOne DEF Dated
<1>4. job.stamp \in Stamps  BY <1>3 DEF Versions
<1>5. \A b \in Blocks : b < job.size => file[b] = Ver(job)
  BY <1>1, <1>2 DEF JobHolds, Holds, Ver
<1>6. \A b \in Blocks : b < job.size => file'[b] = <<job.quality, job.stamp>>
  BY <1>1, <1>5 DEF Ver
<1>7. imported'.quality = job.quality /\ imported'.size = job.size /\ imported' \in ImportedRows
  BY <1>1, <1>3 DEF ImportedRows
<1>8. PICK s \in Stamps : s = job.stamp  BY <1>4
<1>9. \A b \in Blocks : b < imported'.size => file'[b] = <<imported'.quality, s>>
  BY <1>6, <1>7, <1>8
<1>10. Holds(imported.quality, imported.size, s)'  BY <1>9 DEF Holds
<1>11. job.size = Size[<<job.quality, s>>] /\ s \in 1..server[job.quality]
  BY <1>2, <1>8 DEF Dated, Ver
<1> QED BY <1>3, <1>7, <1>10, <1>11

BytesInv == JobHolds /\ RowHolds /\ TargetKept

(* A step that leaves the row and its mark to the ghost alone.             *)
LEMMA RowMark ==
  ASSUME wronged' = Passed, UNCHANGED imported, step # "transform" \/ job' # NoRow
  PROVE  RowUnmarked
BY PassedSays DEF PageWritten, RowUnmarked

LEMMA TargetStays ==
  ASSUME ShapeInv, TargetKept, [StorageNext]_storageVars
  PROVE  TargetKept'
<1>1. CASE Lookup /\ wronged' = Passed
  <2>1. imported' # NoRow => imported'.quality = target /\ target' = target
        BY <1>1 DEF Lookup
  <2> QED BY <2>1 DEF TargetKept
<1>2. CASE (ImportProgress \/ ImportEvent) /\ ~Lookup
  <2>1. wronged' = Passed  BY <1>2, ImportSteps
  <2>2. CASE FindVersion \/ Record \/ Read \/ Write \/ Count \/ Request
             \/ \E q \in Qualities : Select(q) \/ ServerChanges(q)
    <3>1. /\ UNCHANGED <<imported, target>>
          /\ step' \in {"url", "record", "read", "write", "count"} =>
               step \in {"url", "record", "read", "write", "count"}
          /\ step # "transform" \/ job' = job
          BY <2>2 DEF FindVersion, Record, Read, Write, Count, Request, Select, ServerChanges, attempt,
             ShapeInv, ImportInv, TypeOK
    <3>2. step = "transform" => job' # NoRow
          BY <3>1 DEF ShapeInv, ImportInv, TypeOK
    <3> QED BY <2>1, <3>1, <3>2, RowMark DEF RowUnmarked, TargetKept
  <2>3. CASE Begin \/ Unauthorized \/ GetTrackInfo \/ OpenRefused \/ Transform \/ CancelJob \/ Fail
    <3>1. step' \notin {"url", "record", "read", "write", "count"}
          BY <2>3 DEF Begin, Unauthorized, GetTrackInfo, OpenRefused, Transform, CancelJob, Fail,
             AttemptOver
    <3> QED BY <3>1 DEF TargetKept
  <2> QED BY <1>2, <2>2, <2>3, ImportSteps
<1>3. CASE KillAll
  BY <1>3 DEF KillAll, Crash, AttemptOver, TargetKept
<1>4. CASE TryDelete
  <2>1. UNCHANGED <<imported, step, target>>
        /\ ("row" \notin wronged' => imported = NoRow \/ "row" \notin wronged)
        BY <1>4 DEF TryDelete, attempt
  <2> QED BY <2>1 DEF TargetKept
<1>5. CASE RecordPlayback
  <2>1. UNCHANGED <<step, target>>
        /\ (imported' # NoRow /\ "row" \notin wronged' => imported' = imported /\ "row" \notin wronged)
        BY <1>5 DEF RecordPlayback, attempt
  <2> QED BY <2>1 DEF TargetKept
<1>6. CASE DeleteRow
  BY <1>6 DEF DeleteRow, TargetKept
<1>7. CASE ListImports \/ LookupImported \/ OpenImported \/ StopPlaying \/ UNCHANGED storageVars
  <2>1. UNCHANGED <<imported, step, target, wronged>>
        BY <1>7 DEF ListImports, LookupImported, OpenImported, StopPlaying, storageVars, vars,
           others, attempt
  <2> QED BY <2>1 DEF TargetKept
<1> QED BY <1>1, <1>2, <1>3, <1>4, <1>5, <1>6, <1>7, ImportSteps DEF StorageNext

LEMMA RowHoldsKept ==
  ASSUME ShapeInv, BytesInv, [StorageNext]_storageVars
  PROVE  RowHolds'
<1>0. TypeOK /\ ImportInv /\ RowHolds /\ TargetKept /\ JobHolds
  BY DEF ShapeInv, ImportInv, BytesInv
<1>1. CASE ImportProgress \/ ImportEvent
  <2>1. wronged' = Passed  BY <1>1, ImportSteps
  <2>2. CASE Transform
    <3>1. UNCHANGED server  BY <2>2 DEF Transform
    <3>2. "row" \in wronged' <=> "job" \in wronged
          BY <2>1, <2>2, PassedSays DEF Transform
    <3>3. SUFFICES ASSUME Still, "job" \notin wronged
                   PROVE  /\ Holds(imported.quality, imported.size, 1)'
                          /\ imported'.size = Size[<<imported'.quality, 1>>]
          BY <3>1, <3>2 DEF RowHolds, Still
    <3>4. PICK s \in Stamps :
           /\ job.quality \in Qualities /\ s \in 1..server[job.quality]
           /\ imported'.quality = job.quality /\ imported'.size = Size[<<imported'.quality, s>>]
           /\ Holds(imported.quality, imported.size, s)'
          BY <1>0, <2>2, <3>3, FinishedJob
    <3>5. s = 1  BY <3>3, <3>4 DEF Still
    <3> QED BY <3>4, <3>5
  <2>3. CASE \E q \in Qualities : Select(q) \/ ServerChanges(q)
    <3>1. /\ UNCHANGED <<imported, file, job, step>>
          /\ UNCHANGED server \/ \E q \in Qualities : server' = [server EXCEPT ![q] = @ + 1]
          BY <2>3 DEF Select, ServerChanges, attempt
    <3>2. RowUnmarked
          BY <1>0, <2>1, <3>1, RowMark DEF TypeOK
    <3>3. SUFFICES ASSUME Still' PROVE RowHolds'  BY DEF RowHolds
    <3>4. UNCHANGED server  BY <1>0, <3>1, <3>3, StillBefore
    <3> QED BY <1>0, <3>1, <3>2, <3>4, RowStays DEF RowUnmarked
  <2>4. CASE \/ Begin \/ FindVersion \/ Record \/ Read \/ Count \/ GetTrackInfo \/ CancelJob
             \/ Request \/ Unauthorized
    <3>1. UNCHANGED <<server, imported, file>> /\ (step # "transform" \/ job' # NoRow)
          BY <2>4 DEF Begin, FindVersion, Record, Read, Count, GetTrackInfo, CancelJob, Request,
             Unauthorized, ShapeInv, ImportInv, TypeOK
    <3>2. RowUnmarked
          BY <2>1, <3>1, RowMark
    <3> QED BY <1>0, <3>1, <3>2, RowStays DEF RowUnmarked
  <2>5. CASE Lookup
    <3>1. /\ UNCHANGED <<server, file>> /\ step # "transform"
          /\ imported' = NoRow \/ imported' = imported
          BY <2>5 DEF Lookup
    <3>2. "row" \notin wronged' => imported' = NoRow \/ "row" \notin wronged
          BY <2>1, <3>1, PassedSays
    <3> QED BY <1>0, <3>1, <3>2, RowStays
  <2>6. CASE Write \/ OpenRefused \/ Fail
    <3>1. /\ UNCHANGED <<server, imported, job>>
          /\ file' \in IF step = "write" THEN {Written(n) : n \in 0..got} ELSE {file}
          /\ step = "transform" => job' # NoRow
          BY <1>0, <2>6, Constants DEF Write, OpenRefused, Fail, ImportInv, TypeOK
    <3>2. RowUnmarked
          BY <2>1, <3>1, RowMark
    <3> QED BY <1>0, <3>1, <3>2, TornKeepsRow
  <2> QED BY <1>1, <2>2, <2>3, <2>4, <2>5, <2>6, ImportSteps
<1>2. CASE KillAll
  <2>1. /\ UNCHANGED <<server, imported, job>> /\ wronged' = Passed
        /\ file' \in IF step = "write" THEN {Written(n) : n \in 0..got} ELSE {file}
        /\ step = "transform" => job' # NoRow
        BY <1>0, <1>2 DEF KillAll, Crash, TypeOK
  <2>2. RowUnmarked
        BY <2>1, RowMark
  <2> QED BY <1>0, <2>1, <2>2, TornKeepsRow
<1>3. CASE TryDelete
  <2>1. CASE UNCHANGED <<file, wronged>>
        BY <1>0, <1>3, <2>1, RowStays DEF TryDelete
  <2>2. CASE imported = NoRow \/ "row" \in wronged'
        BY <1>3, <2>2 DEF TryDelete, RowHolds
  <2> QED BY <1>3, <2>1, <2>2 DEF TryDelete
<1>4. CASE DeleteRow \/ RecordPlayback
  BY <1>0, <1>4, RowStays DEF DeleteRow, RecordPlayback
<1>5. CASE ListImports \/ LookupImported \/ OpenImported \/ StopPlaying \/ UNCHANGED storageVars
  <2>1. UNCHANGED <<server, imported, file, wronged>>
        BY <1>5 DEF ListImports, LookupImported, OpenImported, StopPlaying, storageVars, vars, others
  <2> QED BY <1>0, <2>1, RowStays
<1> QED BY <1>1, <1>2, <1>3, <1>4, <1>5 DEF StorageNext

-----------------------------------------------------------------------------
(* The inductive invariant, and what follows from it *)

IInv == ShapeInv /\ BytesInv

LEMMA Inductive == StorageSpec => []IInv
<1>1. StorageInit => IInv
  <2> SUFFICES ASSUME StorageInit PROVE IInv  OBVIOUS
  <2>1. ImportInv  BY ImportInit DEF StorageInit
  <2>2. ShapeInv
        BY <2>1 DEF StorageInit, Init, ShapeInv, ImportInv, StorageTypeOK, FileHasOneUser, JobWronged
  <2>3. BytesInv  BY DEF StorageInit, Init, BytesInv, JobHolds, RowHolds, TargetKept
  <2> QED BY <2>2, <2>3 DEF IInv
<1>2. IInv /\ [StorageNext]_storageVars => IInv'
  BY ShapeKept, JobHoldsKept, RowHoldsKept, TargetStays DEF IInv, BytesInv
<1> QED BY <1>1, <1>2, PTL DEF StorageSpec

(* Type correctness of rows, file and attempt, whatever fails.             *)
THEOREM TypeCorrect == StorageSpec => []StorageTypeOK
<1>1. IInv => StorageTypeOK  BY DEF IInv, ShapeInv
<1> QED BY <1>1, Inductive, PTL

(* TryDeleteTrackFile, handleJobAsync and the player never have the file   *)
(* of a track open together: who finds it open fails and leaves the row.   *)
THEOREM OneUserAtATime == StorageSpec => []FileHasOneUser
<1>1. IInv => FileHasOneUser  BY DEF IInv, ShapeInv
<1> QED BY <1>1, Inductive, PTL

(* The blocks a job counts come from the version it names: a download that *)
(* handleJobAsync resumes after any failure mixes no two files of the      *)
(* server, although the file is never truncated.  It holds until the       *)
(* clean-up deletes what is counted or an error page is counted.           *)
THEOREM JobsCountTheirVersion == StorageSpec => []JobCoherent
<1>1. ASSUME IInv, job # NoRow, job.local > 0, "job" \notin wronged
      PROVE  Holds(job.quality, job.local, job.stamp) /\ job.size = Size[<<job.quality, job.stamp>>]
  <2>1. job \in JobRows  BY <1>1 DEF IInv, ShapeInv, ImportInv, TypeOK
  <2>2. Dated(job)
        BY <1>1, <2>1, RowNumbers DEF IInv, ShapeInv, ImportInv, JobShape
  <2> QED BY <1>1, <2>2 DEF IInv, BytesInv, JobHolds, Dated, Ver
<1>2. IInv => JobCoherent  BY <1>1 DEF JobCoherent
<1> QED BY <1>2, Inductive, PTL

(* While the server's files stay, the file of an imported track is one     *)
(* whole file of the server, of the quality the row says: what the user    *)
(* plays offline is what was asked for.  The exceptions are the clean-up   *)
(* between file and row, an old row put back by the player, and an error   *)
(* page that handleJobAsync has written into the file.                     *)
THEOREM ImportedRowsAreWhole == StorageSpec => []ImportedCoherent
<1>1. 1 \in Stamps  BY Constants DEF Stamps
<1>2. IInv => ImportedCoherent
      BY <1>1 DEF IInv, BytesInv, RowHolds, ImportedCoherent, Whole, Still
<1> QED BY <1>2, Inductive, PTL

(* With a server that replaces its files at any time, the import makes a   *)
(* row only of a whole file, unless the clean-up has deleted blocks its    *)
(* job counts or an error page is among them.                              *)
THEOREM FinishedOnlyWhole == StorageSpec => FinishedIsWhole
<1>1. ASSUME IInv, [StorageNext]_storageVars, step = "transform", job' = NoRow, "job" \notin wronged
      PROVE  Whole(imported)'
  <2>0. ImportInv /\ JobHolds /\ job # NoRow
        BY <1>1 DEF IInv, ShapeInv, BytesInv, ImportInv, TypeOK
  <2>1. Transform
    <3>1. ~UNCHANGED job  BY <1>1, <2>0
    <3>2. CASE ImportProgress \/ ImportEvent
          BY <1>1, <3>1, <3>2, ImportSteps DEF Begin, Lookup, FindVersion, Record, Read, OpenRefused,
             Write, Count, GetTrackInfo, CancelJob, Request, Unauthorized, Fail, Select, ServerChanges
    <3> QED BY <1>1, <3>1, <3>2 DEF StorageNext, ListImports, TryDelete, DeleteRow, LookupImported,
               RecordPlayback, OpenImported, StopPlaying, KillAll, Crash, storageVars, vars
  <2>2. PICK s \in Stamps : Holds(imported.quality, imported.size, s)'
                            /\ imported'.size = Size[<<imported'.quality, s>>]
        BY <1>1, <2>0, <2>1, FinishedJob
  <2> QED BY <2>2 DEF Whole
<1>2. IInv /\ [StorageNext]_storageVars =>
        [step = "transform" /\ job' = NoRow /\ "job" \notin wronged => Whole(imported)']_storageVars
  BY <1>1
<1> QED BY <1>2, Inductive, PTL DEF StorageSpec, FinishedIsWhole

(* The count of a job falls only when it is begun anew for another file of *)
(* the server: no failure and no kill costs what was downloaded.           *)
THEOREM ProgressIsKept == StorageSpec => ResumesWhereItStopped
<1>1. ASSUME IInv, [StorageNext]_storageVars, job # NoRow, job' # NoRow, job'.local < job.local
      PROVE  <<job'.quality, job'.stamp>> # <<job.quality, job.stamp>>
  <2>0. /\ ImportInv /\ job \in JobRows /\ job.local \in Nat /\ job.size \in Nat
        BY <1>1, RowNumbers DEF IInv, ShapeInv, ImportInv, TypeOK
  <2>1. ~UNCHANGED job  BY <1>1, <2>0
  <2>2. CASE Record
    <3>1. /\ mine \in JobRows /\ job' = mine /\ mine.local = 0 /\ ~Same(job, web)
          /\ Dated(mine) /\ web = Ver(mine)
          BY <2>0, <2>2 DEF Record, ImportInv, AttemptShape, TypeOK
    <3>2. Dated(job)  BY <1>1, <2>0, <3>1 DEF ImportInv, JobShape
    <3>3. web[1] = mine.quality /\ web[2] = mine.stamp
          BY <2>0, <3>1, DatedIsOne
    <3> QED BY <3>1, <3>2, <3>3 DEF Same, Dated, Ver
  <2>3. CASE Count
    <3>1. /\ job' = mine /\ mine = [job EXCEPT !.local = @ + got] /\ got \in Nat
          BY <2>0, <2>3, Constants DEF Count, ImportInv, AttemptShape, TypeOK
    <3>2. mine.local = job.local + got  BY <2>0, <3>1 DEF JobRows
    <3> QED BY <1>1, <2>0, <3>1, <3>2
  <2>4. ~Record /\ ~Count => FALSE
    <3>1. CASE ImportProgress \/ ImportEvent
          BY <1>1, <2>1, <3>1, ImportSteps DEF Begin, Lookup, FindVersion, Read, OpenRefused, Write,
             GetTrackInfo, Transform, CancelJob, Request, Unauthorized, Fail, Select, ServerChanges
    <3> QED BY <1>1, <2>1, <3>1 DEF StorageNext, ListImports, TryDelete, DeleteRow, LookupImported,
               RecordPlayback, OpenImported, StopPlaying, KillAll, Crash, storageVars, vars
  <2> QED BY <2>2, <2>3, <2>4
<1>2. IInv /\ [StorageNext]_storageVars =>
        [job # NoRow /\ job' # NoRow /\ job'.local < job.local
           => <<job'.quality, job'.stamp>> # <<job.quality, job.stamp>>]_storageVars
  BY <1>1
<1> QED BY <1>2, Inductive, PTL DEF StorageSpec, ResumesWhereItStopped
=============================================================================
