---------------------------- MODULE CacheCleanUp ----------------------------
(***************************************************************************)
(* The cache of one streamed track with the clean-up of the page of        *)
(* settings (StorageStatistics.cpp, LocalFileManager.cpp), which works     *)
(* through a list of identifiers it has read before: for each it deletes   *)
(* the file, then the row.  Playing and downloading go on meanwhile.       *)
(*                                                                         *)
(* Windows refuses to delete a file that is open.  A file of blank blocks  *)
(* stands for one that is not there.                                       *)
(***************************************************************************)
EXTENDS TrackCache

VARIABLES
  sweep,    (* what the clean-up does next to this track                    *)
  stored,   (* the row is in the table; it is `row` then                    *)
  wronged,  (* which records count bytes the clean-up has deleted, and the  *)
            (* read that was let in by one (ghost)                          *)
  misled    (* the requests that have read such a row (ghost)               *)

others == <<sweep, stored, wronged, misled>>
cleanVars == <<vars, others>>

NoFile == [b \in Blocks |-> Blank]

CleanTypeOK ==
  /\ TypeOK
  /\ sweep \in {"off", "file", "row"} /\ stored \in BOOLEAN
  /\ wronged \subseteq {"row", "track", "copy", "read"} /\ misled \subseteq pending

CleanInit == Init /\ sweep = "off" /\ stored = FALSE /\ wronged = {} /\ misled = {}

(* The file is given to the read. *)
LetIn == (user # "reader" /\ user' = "reader") \/ (reading = "no" /\ reading' = "yes")

(* What a step of the cache does to the claims of row, _track and copy.    *)
Deceived ==
  LET was(r) == IF r \in wronged THEN {r} ELSE {}
      from(r, s) == IF s \in wronged THEN {r} ELSE {}
  IN  (IF track'.local = 0 THEN {}
       ELSE IF dl = "write" /\ dl' = "update" THEN from("track", "copy")
       ELSE was("track"))
      \cup (IF dl' \in {"off", "retry"} THEN {}
            ELSE IF dl = "retry" THEN from("copy", "track") ELSE was("copy"))
      \cup (IF reading' = "no" THEN {} ELSE IF LetIn THEN from("read", "track") ELSE was("read"))
      \cup (IF dl = "update" /\ row' = copy THEN from("row", "copy")
            ELSE IF mode = "touching" /\ row' = track THEN from("row", "track") ELSE was("row"))

-----------------------------------------------------------------------------
(* The cache, as TrackCache has it *)

Others == wronged' = Deceived /\ UNCHANGED <<sweep, stored, misled>>

(* The row is inserted when there is none.                                 *)
ReadTrackRow(q) ==
  /\ ReadRow(q)
  /\ stored' = TRUE
  /\ misled' = IF "row" \in wronged THEN misled \cup {[quality |-> q, seen |-> row]} ELSE misled
  /\ UNCHANGED <<sweep, wronged>>

GiveUpRequest(r) ==
  /\ RequestFails(r)
  /\ misled' = misled \ {r}
  /\ UNCHANGED <<sweep, stored, wronged>>

(* A complete track is opened only if its file exists; any other file is   *)
(* created when it is missing.                                             *)
OpenTrackFile(r) ==
  /\ OpenFile(r)
  /\ r.seen.quality = r.quality /\ Complete(r.seen) => file # NoFile
  /\ wronged' = IF r \in misled THEN wronged \cup {"track"} ELSE wronged
  /\ misled' = misled \cap pending'
  /\ UNCHANGED <<sweep, stored>>

PutBackMisses ==
  /\ mode = "touching" /\ ~cancelled /\ ~stored
  /\ mode' = IF Playable THEN "complete" ELSE "opening"
  /\ UNCHANGED <<opens, server, row, file, wanted, track, web, dl, copy, buffer, position, reading,
                 cancelled, lock>>

(* An UPDATE of a row that is gone does nothing. *)
UpdateMisses ==
  /\ dl = "update" /\ ~stored
  /\ dl' = "loop"
  /\ buffer' = NoBuffer
  /\ UNCHANGED <<opens, server, row, file, mode, wanted, track, web, copy, position, reading, cancelled>>
  /\ Access!Finish

Kill ==
  /\ Crash /\ (stored \/ row' = row)
  /\ sweep' = "off" /\ wronged' = Deceived /\ misled' = {}
  /\ UNCHANGED stored

-----------------------------------------------------------------------------
(* clearCacheAndGetStorageStatisticsAsync, and its variant for what was    *)
(* not played for 8 days                                                   *)

(* The identifier is on the list. *)
ListTrack ==
  /\ sweep = "off" /\ stored
  /\ sweep' = "file"
  /\ UNCHANGED <<vars, stored, wronged, misled>>

(* TryDeleteTrackFile: a file in use is left, and its row with it. *)
LeaveFile ==
  /\ sweep = "file" /\ mode # "closed"
  /\ sweep' = "off"
  /\ UNCHANGED <<vars, stored, wronged, misled>>

(* Requests that have read the row and not yet opened the file go on.      *)
DeleteFile ==
  /\ sweep = "file" /\ mode = "closed"
  /\ sweep' = "row"
  /\ file' = NoFile
  /\ wronged' = IF row.local > 0 THEN {"row"} ELSE {}
  /\ misled' = {r \in pending : r.seen.local > 0}
  /\ UNCHANGED <<opens, server, row, session, stored>>

DeleteRow ==
  /\ sweep = "row"
  /\ sweep' = "off" /\ stored' = FALSE
  /\ row' = NewTrack /\ wronged' = wronged \ {"row"}
  /\ UNCHANGED <<opens, server, file, session, misled>>

KillSweep ==
  /\ "crash" \in Faults /\ mode = "closed" /\ sweep # "off"
  /\ sweep' = "off"
  /\ UNCHANGED <<vars, stored, wronged, misled>>

-----------------------------------------------------------------------------

CacheStep ==
  \/ \E q \in Qualities : ServerChanges(q) /\ Others
  \/ PutBack /\ stored /\ Others
  \/ PutBackMisses /\ Others
  \/ OpenSucceeds /\ Others
  \/ OpenFails /\ Others
  \/ StartCoroutine /\ Others
  \/ LoopHead /\ Others
  \/ ReinitializeSucceeds /\ Others
  \/ ReinitializeFails /\ Others
  \/ CancelledAwait /\ Others
  \/ ReadSucceeds /\ Others
  \/ ReadFails /\ Others
  \/ OwnFile /\ Others
  \/ WriteSucceeds /\ Others
  \/ WriteFails /\ Others
  \/ UpdateSucceeds /\ stored /\ Others
  \/ UpdateMisses /\ Others
  \/ UpdateFails /\ Others
  \/ RetryAbandoned /\ Others
  \/ Play /\ Others
  \/ Close /\ Others
  \/ Cancel /\ Others

CleanNext ==
  \/ CacheStep
  \/ \E q \in Qualities : ReadTrackRow(q)
  \/ \E r \in pending : GiveUpRequest(r) \/ OpenTrackFile(r)
  \/ Kill
  \/ KillSweep
  \/ ListTrack
  \/ LeaveFile
  \/ DeleteFile
  \/ DeleteRow

CleanSpec == CleanInit /\ [][CleanNext]_cleanVars

-----------------------------------------------------------------------------
(* Properties *)

(* Whatever fails, and whatever the server and the clean-up do, neither    *)
(* the row nor the record in memory counts a block that is not in the      *)
(* file.  The one exception is a track whose clean-up has deleted the file *)
(* and has not come to the row, or was killed there, or that is opened by  *)
(* a request that has read the row before (continueDownloadingAsync,       *)
(* clearCacheAndGet...).                                                   *)
PromisesKept ==
  \A b \in Blocks :
    /\ b < row.local => file[b] # Blank \/ "row" \in wronged
    /\ b < track.local => file[b] # Blank \/ "track" \in wronged

(* Every variable has its type, and promises are kept. *)
CleanInv == CleanTypeOK /\ PromisesKept

(* A read never overlaps a write of the same stream and finds its bytes in *)
(* the file, unless it was let in by such a track (ReadBlockAsync).        *)
ReadsAreSafe ==
  ReadsAlone /\ (ReadsAreBacked \/ "read" \in wronged)
=============================================================================
