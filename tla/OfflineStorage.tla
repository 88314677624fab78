--------------------------- MODULE OfflineStorage ---------------------------
(***************************************************************************)
(* The offline storage of one track with everybody who uses it: the import *)
(* of ImportTrack, the player, which opens an imported track and writes    *)
(* the time into its row (resolveCachedStreamAsync), and the clean-up of   *)
(* the page of settings (StorageStatistics.cpp, LocalFileManager.cpp),     *)
(* which works through a list of identifiers it has read before.           *)
(*                                                                         *)
(* Windows opens a file for one user at a time here: the import writes it, *)
(* and what is open can be neither opened for writing nor deleted.  A file *)
(* of blank blocks stands for one that is not there.                       *)
(***************************************************************************)
EXTENDS ImportTrack

VARIABLES
  sweep,     (* what clearImportsAndGetStorageStatisticsAsync does next     *)
  player,    (* the await resolveCachedStreamAsync is at, or "open"         *)
  seen,      (* the row it has read                                         *)
  wronged    (* which of row and job counts bytes that the clean-up has     *)
             (* deleted or that an error page gave, or was overwritten by   *)
             (* the player (for the properties only)                        *)

others == <<sweep, player, seen, wronged>>
storageVars == <<vars, others>>

StorageTypeOK ==
  /\ TypeOK
  /\ sweep \in {"off", "file", "row"}
  /\ player \in {"off", "row", "opening", "open"}
  /\ seen \in ImportedRows \cup {NoRow} /\ (player \in {"row", "opening"} <=> seen # NoRow)
  /\ wronged \subseteq {"row", "job"}

StorageInit ==
  /\ Init
  /\ sweep = "off" /\ player = "off" /\ seen = NoRow /\ wronged = {}

(* handleJobAsync opens the file before the first read and closes it at    *)
(* the end of the block that asks for the web stream.                      *)
ImportHasFile ==
  \/ step = "read" /\ body # Blank
  \/ step \in {"write", "count"}
  \/ step \in {"info", "transform"} /\ web # Blank

NoFile == [b \in Blocks |-> Blank]

(* An error page is counted, or overwrites blocks of the file.             *)
PageCounted == body = Garbage /\ job' # NoRow /\ job' # job
PageWritten == body = Garbage /\ file' # file

(* What a step of the import does to the claims of row and job. *)
Passed ==
  (IF job' # NoRow /\ job'.local > 0 /\ ("job" \in wronged \/ PageCounted) THEN {"job"} ELSE {})
  \cup (IF IF step = "transform" /\ job' = NoRow THEN "job" \in wronged
           ELSE imported' # NoRow /\ ("row" \in wronged \/ PageWritten)
        THEN {"row"} ELSE {})

-----------------------------------------------------------------------------
(* The import, as ImportTrack has it *)

(* The player has the file: the attempt fails. *)
OpenRefused ==
  /\ step = "read" /\ body = Blank /\ player = "open"
  /\ AttemptOver
  /\ UNCHANGED <<server, setting, job, imported, file>>

Others == wronged' = Passed /\ UNCHANGED <<sweep, player, seen>>

(* The steps that go on by themselves. *)
ImportProgress ==
  \/ Begin /\ Others
  \/ Lookup /\ Others
  \/ FindVersion /\ Others
  \/ Record /\ Others
  \/ Read /\ (body = Blank => player # "open") /\ Others
  \/ OpenRefused /\ Others
  \/ Write /\ Others
  \/ Count /\ Others
  \/ GetTrackInfo /\ Others
  \/ Transform /\ Others
  \/ CancelJob /\ Others

ImportEvent ==
  \/ Request /\ Others
  \/ Unauthorized /\ Others
  \/ Fail /\ Others
  \/ \E q \in Qualities : (Select(q) \/ ServerChanges(q)) /\ Others

-----------------------------------------------------------------------------
(* The clean-up of imports *)

(* The identifier is on the list. *)
ListImports ==
  /\ sweep = "off" /\ imported # NoRow
  /\ sweep' = "file"
  /\ UNCHANGED <<vars, player, seen, wronged>>

(* TryDeleteTrackFile: a file in use is left, and its row with it. *)
TryDelete ==
  /\ sweep = "file"
  /\ IF ImportHasFile \/ player = "open"
     THEN sweep' = "off" /\ UNCHANGED <<file, wronged>>
     ELSE /\ sweep' = "row"
          /\ file' = NoFile
          /\ wronged' = {c \in {"row", "job"} :
                           IF c = "row" THEN imported # NoRow ELSE job # NoRow /\ job.local > 0}
  /\ UNCHANGED <<server, setting, job, imported, attempt, player, seen>>

DeleteRow ==
  /\ sweep = "row"
  /\ sweep' = "off"
  /\ imported' = NoRow /\ wronged' = wronged \ {"row"}
  /\ UNCHANGED <<server, setting, job, file, attempt, player, seen>>

-----------------------------------------------------------------------------
(* The player: the branch of resolveCachedStreamAsync for imported tracks  *)

LookupImported ==
  /\ player = "off" /\ imported # NoRow
  /\ player' = "row" /\ seen' = imported
  /\ UNCHANGED <<vars, sweep, wronged>>

(* Mutant: INSERT OR REPLACE instead of UPDATE. *)
RecordPlaybackReplacing ==
  /\ player = "row"
  /\ player' = "opening"
  /\ imported' = seen
  /\ wronged' = IF imported \in {NoRow, seen} THEN wronged ELSE wronged \cup {"row"}
  /\ UNCHANGED <<server, setting, job, file, attempt, sweep, seen>>

(* The whole row as it was read, with another time of playing. An UPDATE   *)
(* of a row that is gone does nothing.                                     *)
RecordPlayback ==
  /\ player = "row"
  /\ player' = "opening"
  /\ imported' = IF imported = NoRow THEN NoRow ELSE seen
  /\ wronged' = IF imported \in {NoRow, seen} THEN wronged ELSE wronged \cup {"row"}
  /\ UNCHANGED <<server, setting, job, file, attempt, sweep, seen>>

OpenImported ==
  /\ player = "opening"
  /\ player' = IF ImportHasFile \/ file = NoFile THEN "off" ELSE "open"
  /\ seen' = NoRow
  /\ UNCHANGED <<vars, sweep, wronged>>

StopPlaying ==
  /\ player = "open"
  /\ player' = "off"
  /\ UNCHANGED <<vars, sweep, seen, wronged>>

-----------------------------------------------------------------------------

(* The application is killed with everything it was doing. *)
KillAll ==
  /\ Crash
  /\ wronged' = Passed
  /\ sweep' = "off" /\ player' = "off" /\ seen' = NoRow

StorageNext ==
  \/ ImportProgress \/ ImportEvent
  \/ ListImports \/ TryDelete \/ DeleteRow
  \/ LookupImported \/ RecordPlayback \/ OpenImported \/ StopPlaying
  \/ KillAll

(* The thread pool runs the download loop, which tries a job again and     *)
(* again; nothing is assumed of the clean-up or of the player.             *)
StorageSpec ==
  /\ StorageInit /\ [][StorageNext]_storageVars
  /\ WF_storageVars(ImportProgress)

-----------------------------------------------------------------------------
(* Properties *)

(* While the server's files stay, the file of an imported track is one     *)
(* whole server file of the quality its row says, through kills, retries,  *)
(* changes of quality, further downloads, clean-ups and playback.  A row   *)
(* is wrong only in three cases: the clean-up has deleted the file below   *)
(* it and has not come to the row; the player has put its old copy in      *)
(* place of a row that changed after it was read; an error page was        *)
(* written into the file, below the row or as part of the download that    *)
(* became the row.                                                         *)
ImportedCoherent ==
  (\A q \in Qualities : server[q] = 1) /\ imported # NoRow /\ "row" \notin wronged
    => Whole(imported)

(* The blocks a job counts come from the server file the job names, so a   *)
(* download that is resumed does not mix two files.  The exceptions are a  *)
(* clean-up that finds the file closed between two attempts, and an error  *)
(* page that is counted like the file (BackgroundDownloader.cpp 78-82).    *)
JobCoherent ==
  job # NoRow /\ job.local > 0 /\ "job" \notin wronged =>
    Holds(job.quality, job.local, job.stamp) /\ job.size = Size[<<job.quality, job.stamp>>]

(* With server files that change at any time, a track is at least whole    *)
(* when its import is finished, under the same two exceptions.             *)
FinishedIsWhole ==
  [][step = "transform" /\ job' = NoRow /\ "job" \notin wronged => Whole(imported)']_storageVars

(* Progress is given up only for another file: whatever fails or is killed *)
(* in between, a job of the same version resumes where it stopped.         *)
ResumesWhereItStopped ==
  [][job # NoRow /\ job' # NoRow /\ job'.local < job.local
     => <<job'.quality, job'.stamp>> # <<job.quality, job.stamp>>]_storageVars

(* If from some time on no attempt fails before its end, a requested track *)
(* is eventually imported, or refused by the server, or its attempt is in  *)
(* the loop that reads nothing: no sequence of failures, kills, clean-ups  *)
(* and changes leaves a job that is never taken up again or never          *)
(* finished.  An error page shorter than the file is read for ever (lines  *)
(* 72-90 have no test for a read of length 0), and only that is excepted.  *)
Spinning == body = Garbage /\ got = 0

AttemptsSucceed ==
  [][step # "between" /\ step' = "between" => job' = NoRow]_storageVars

JobsEnd == <>AttemptsSucceed => (job # NoRow ~> job = NoRow \/ Spinning)
=============================================================================
