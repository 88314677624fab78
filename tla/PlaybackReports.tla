-------------------------- MODULE PlaybackReports --------------------------
(***************************************************************************)
(* PlaybackReportStateMachine.cpp: the entry of the track being played and *)
(* its commit to a report, each operation whole under the mutex _mut.      *)
(***************************************************************************)
CONSTANTS Tracks, NoTrack

VARIABLES
  currentTrackId,  (* _currentTrackId                                       *)
  isPlaying,       (* _isPlaying                                            *)
  entry,           (* the track of _currentEntry, NoTrack when there is none *)
  owed             (* tracks heard and not reported since (ghost)           *)

reportVars == <<currentTrackId, isPlaying, entry, owed>>

ReportTypeOK ==
  /\ currentTrackId \in Tracks \cup {NoTrack} /\ isPlaying \in BOOLEAN
  /\ entry \in Tracks \cup {NoTrack} /\ owed \subseteq Tracks

ReportInit ==
  /\ currentTrackId = NoTrack /\ isPlaying = FALSE
  /\ entry = NoTrack /\ owed = {}

(* The entry's report goes to a job nobody waits for. *)
CommitCurrentPlaybackEntry == owed' = owed \ {entry}

(* Mutant: a track that does not play yet is not remembered. *)
OnActiveTrackChangedPlaying(t) ==
  /\ CommitCurrentPlaybackEntry
  /\ currentTrackId' = IF isPlaying THEN t ELSE currentTrackId
  /\ entry' = IF isPlaying THEN t ELSE NoTrack
  /\ UNCHANGED isPlaying

OnActiveTrackChanged(t) ==
  /\ CommitCurrentPlaybackEntry
  /\ currentTrackId' = t
  /\ entry' = IF isPlaying THEN t ELSE NoTrack
  /\ UNCHANGED isPlaying

OnMediaPlayerStateChanged(state) ==
  /\ CommitCurrentPlaybackEntry
  /\ isPlaying' = state
  /\ entry' = IF state THEN currentTrackId ELSE NoTrack
  /\ UNCHANGED currentTrackId

KillReports ==
  /\ currentTrackId' = NoTrack /\ isPlaying' = FALSE
  /\ entry' = NoTrack /\ owed' = {}

(* A second of the track that plays. *)
Hear(t) == owed' = owed \cup {t} /\ UNCHANGED <<currentTrackId, isPlaying, entry>>

(* What was heard is reported, or its entry is running. *)
HeardIsReported == owed \subseteq {entry}
=============================================================================
