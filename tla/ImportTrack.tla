---------------------------- MODULE ImportTrack ----------------------------
(***************************************************************************)
(* The import of one track for offline use: its row in track_import_job,   *)
(* its row in imported_track, its file in the folder imports, and          *)
(* handleJobAsync (BackgroundDownloader.cpp), which the download loop      *)
(* calls again and again until it has succeeded once.                      *)
(*                                                                         *)
(* As in TrackCache a block of the file is known by the version            *)
(* <<quality, timestamp>> of the server file it comes from, and the URL of *)
(* one attempt names one version.  The status of the GET is not tested: an *)
(* error page is read like a file.  What is in memory belongs to one       *)
(* attempt; rows and file survive the attempt and the application.  The    *)
(* actions here are composed with the other users of rows and file, and    *)
(* given their properties, in OfflineStorage.                              *)
(***************************************************************************)
EXTENDS Naturals

CONSTANTS
  Qualities,   (* values of the setting importQuality                       *)
  MaxStamp,    (* server timestamps are 1..MaxStamp                         *)
  Size,        (* number of blocks of each version                          *)
  MaxBlocks,   (* the largest of them                                       *)
  Chunk,       (* blocks one read returns at most (128 KiB)                 *)
  NoRow,
  Garbage,     (* bytes that come from no version: an HTTP error page       *)
  Blank,       (* a block never written                                     *)
  Faults       (* what the environment may do, out of the set below         *)

AllFaults == {"crash", "io", "network", "unauthorized", "select", "change",
              "error_body"}

Stamps == 1..MaxStamp
Versions == Qualities \X Stamps
Blocks == 0..(MaxBlocks - 1)

ASSUME ImportAssumption ==
  /\ Qualities # {} /\ 0 \notin Qualities
  /\ MaxStamp \in Nat \ {0} /\ MaxBlocks \in Nat \ {0} /\ Chunk \in Nat \ {0}
  /\ Size \in [Versions -> 1..MaxBlocks]
  /\ Garbage \notin Versions /\ Blank \notin Versions \cup {Garbage}
  /\ Faults \subseteq AllFaults

VARIABLES
  server,    (* timestamp of the server's file, for each quality (external) *)
  setting,   (* importQuality in the settings                               *)
  job,       (* row of track_import_job, or NoRow                           *)
  imported,  (* row of imported_track, or NoRow                             *)
  file,      (* origin of each block of imports/<id>                        *)
  step,      (* the await handleJobAsync is at                              *)
  mine,      (* its own copy of the job                                     *)
  target,    (* its importQuality                                           *)
  web,       (* version its web stream reads                                *)
  body,      (* what the answer to its GET carries, or Blank without one    *)
  got        (* blocks in readBuffer                                        *)

attempt == <<step, mine, target, web, body, got>>
vars == <<server, setting, job, imported, file, attempt>>

JobRows == [quality : Qualities \cup {0}, stamp : Stamps \cup {0},
            size : 0..MaxBlocks, local : 0..MaxBlocks]
ImportedRows == [quality : Qualities, size : 1..MaxBlocks]

(* No row is none of the rows. *)
ASSUME NoRowAssumption == NoRow \notin JobRows \cup ImportedRows

Steps == {"between", "lookup", "url", "record", "read", "write", "count",
          "info", "transform", "cancel"}

TypeOK ==
  /\ server \in [Qualities -> Stamps] /\ setting \in Qualities
  /\ job \in JobRows \cup {NoRow}
  /\ imported \in ImportedRows \cup {NoRow}
  /\ file \in [Blocks -> Versions \cup {Garbage, Blank}]
  /\ step \in Steps
  /\ (step \notin {"between"} => job # NoRow)
  /\ mine \in JobRows /\ target \in Qualities
  /\ web \in Versions \cup {Blank} /\ body \in Versions \cup {Garbage, Blank}
  /\ got \in 0..Chunk

(* DownloadService leaves the quality of a new job uninitialized. *)
NewJobs == [quality : Qualities \cup {0}, stamp : {0}, size : {0}, local : {0}]
NoJob == [quality |-> 0, stamp |-> 0, size |-> 0, local |-> 0]
Complete(j) == j.local = j.size /\ j.size # 0

Init ==
  /\ server = [q \in Qualities |-> 1]
  /\ setting \in Qualities
  /\ job = NoRow /\ imported = NoRow
  /\ file = [b \in Blocks |-> Blank]
  /\ step = "between" /\ mine = NoJob
  /\ target = setting /\ web = Blank /\ body = Blank /\ got = 0

-----------------------------------------------------------------------------
(* The user *)

(* A job is inserted unless there is one already. *)
Request ==
  /\ job = NoRow
  /\ job' \in NewJobs
  /\ UNCHANGED <<server, setting, imported, file, attempt>>

Select(q) ==
  /\ "select" \in Faults
  /\ setting' = q
  /\ UNCHANGED <<server, job, imported, file, attempt>>

-----------------------------------------------------------------------------
(* One attempt *)

(* What the attempt knows is gone with it. *)
AttemptOver ==
  /\ step' = "between" /\ mine' = NoJob
  /\ target' = setting /\ web' = Blank /\ body' = Blank /\ got' = 0

(* Mutant: a job that has been begun is not begun again. *)
BeginOnce ==
  /\ step = "between" /\ job # NoRow /\ job.local = 0
  /\ mine' = job
  /\ target' = setting
  /\ step' = "lookup"
  /\ UNCHANGED <<server, setting, job, imported, file, web, body, got>>

Begin ==
  /\ step = "between" /\ job # NoRow
  /\ mine' = job
  /\ target' = setting
  /\ step' = "lookup"
  /\ UNCHANGED <<server, setting, job, imported, file, web, body, got>>

Onwards == step' = IF Complete(mine) THEN "info" ELSE "url"

(* The imported track of another quality is deleted before its file is     *)
(* overwritten; one of the same quality stays, and is downloaded again.    *)
Lookup ==
  /\ step = "lookup"
  /\ imported' = IF imported # NoRow /\ imported.quality # target THEN NoRow ELSE imported
  /\ Onwards
  /\ UNCHANGED <<server, setting, job, file, mine, target, web, body, got>>

(* Mutant: the date of the server file is not compared. *)
SameUndated(j, v) == j.size = Size[v] /\ j.quality = v[1]

(* Mutant: the dates are compared the wrong way round. *)
SameInverted(j, v) == j.size = Size[v] /\ j.quality = v[1] /\ j.stamp # v[2]

Same(j, v) == j.size = Size[v] /\ j.quality = v[1] /\ j.stamp = v[2]

(* The address and the HEAD of the track.  Another file than the job's     *)
(* starts again from nothing.                                              *)
FindVersion ==
  LET v == <<target, server[target]>>
  IN  /\ step = "url"
      /\ web' = v
      /\ IF Same(mine, v)
         THEN step' = "read" /\ UNCHANGED mine
         ELSE /\ step' = "record"
              /\ mine' = [quality |-> v[1], stamp |-> v[2], size |-> Size[v], local |-> 0]
      /\ UNCHANGED <<server, setting, job, imported, file, target, body, got>>

(* The server refuses the address, or the description that is asked for at *)
(* the end of a download; a job found complete is outside the try block.   *)
Unauthorized ==
  /\ "unauthorized" \in Faults
  /\ step = "url" \/ (step = "info" /\ web # Blank)
  /\ step' = "cancel"
  /\ web' = Blank /\ body' = Blank /\ got' = 0
  /\ UNCHANGED <<server, setting, job, imported, file, mine, target>>

(* Mutant: the new start is only kept in memory. *)
RecordNothing ==
  /\ step = "record"
  /\ step' = "read"
  /\ UNCHANGED <<server, setting, job, imported, file, mine, target, web, body, got>>

Record ==
  /\ step = "record"
  /\ job' = mine
  /\ step' = "read"
  /\ UNCHANGED <<server, setting, imported, file, mine, target, web, body, got>>

(* Mutant: the read is not limited to what is left of the file. *)
WantedUnlimited == Chunk

Wanted == IF mine.size - mine.local < Chunk THEN mine.size - mine.local ELSE Chunk

(* The answer to the GET of this attempt, which the first read sends.      *)
Answers ==
  IF body # Blank THEN {body}
  ELSE {web} \cup (IF "error_body" \in Faults THEN {Garbage} ELSE {})

(* The file is open; blocks of the answer arrive.  An error page may end   *)
(* before the file would, and gives nothing any more then.                 *)
Read ==
  /\ step = "read"
  /\ body' \in Answers
  /\ got' \in IF body' # Garbage THEN 1..Wanted
              ELSE IF body = Garbage /\ got = 0 THEN {0} ELSE 0..Wanted
  /\ step' = "write"
  /\ UNCHANGED <<server, setting, job, imported, file, mine, target, web>>

(* The file when n of the blocks have reached it. *)
Written(n) == [b \in Blocks |-> IF b \in mine.local..(mine.local + n - 1) THEN body ELSE file[b]]

(* Write and flush at local_size; nothing ever shortens the file. *)
Write ==
  /\ step = "write"
  /\ file' = Written(got)
  /\ mine' = [mine EXCEPT !.local = @ + got]
  /\ step' = "count"
  /\ UNCHANGED <<server, setting, job, imported, target, web, body, got>>

Count ==
  /\ step = "count"
  /\ job' = mine
  /\ step' = IF mine.local < mine.size THEN "read" ELSE "info"
  /\ UNCHANGED <<server, setting, imported, file, mine, target, web, body, got>>

(* transformTrackImportJobToImportedTrackAsync asks for the track's        *)
(* description ...                                                         *)
GetTrackInfo ==
  /\ step = "info"
  /\ step' = "transform"
  /\ UNCHANGED <<server, setting, job, imported, file, mine, target, web, body, got>>

(* ... and in one transaction makes the job, as the database has it, an    *)
(* imported track.                                                         *)
Transform ==
  /\ step = "transform"
  /\ imported' = [quality |-> job.quality, size |-> job.size]
  /\ job' = NoRow
  /\ AttemptOver
  /\ UNCHANGED <<server, setting, file>>

CancelJob ==
  /\ step = "cancel"
  /\ job' = NoRow
  /\ AttemptOver
  /\ UNCHANGED <<server, setting, imported, file>>

(* Every exception ends the attempt; retryWithDelays makes another.        *)
Fail ==
  /\ \/ step \in {"url", "read", "info"} /\ "network" \in Faults /\ UNCHANGED file
     \/ step \in {"lookup", "record", "count", "transform", "cancel"}
        /\ "io" \in Faults /\ UNCHANGED file
     \/ step = "write" /\ "io" \in Faults /\ file' \in {Written(n) : n \in 0..got}
  /\ AttemptOver
  /\ UNCHANGED <<server, setting, job, imported>>

-----------------------------------------------------------------------------
(* The rest of the world *)

(* The application is killed; a transaction is there or is not, a write    *)
(* may have reached the file in part.                                      *)
Crash ==
  /\ "crash" \in Faults
  /\ file' \in IF step = "write" THEN {Written(n) : n \in 0..got} ELSE {file}
  /\ AttemptOver
  /\ UNCHANGED <<server, setting, job, imported>>

ServerChanges(q) ==
  /\ "change" \in Faults /\ server[q] < MaxStamp
  /\ server' = [server EXCEPT ![q] = @ + 1]
  /\ UNCHANGED <<setting, job, imported, file, attempt>>

-----------------------------------------------------------------------------
(* What the rows claim; the properties are in OfflineStorage. *)

Holds(q, n, s) == \A b \in Blocks : b < n => file[b] = <<q, s>>

Whole(i) ==
  \E s \in Stamps : Holds(i.quality, i.size, s) /\ i.size = Size[<<i.quality, s>>]
=============================================================================
