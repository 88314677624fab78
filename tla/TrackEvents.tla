---------------------------- MODULE TrackEvents ----------------------------
(***************************************************************************)
(* What happens when the player goes on to another track or changes its    *)
(* state (MusicPlayer.cpp): an event's handler runs on a thread of the     *)
(* pool, beside those of earlier events that have not returned.  For a     *)
(* track it waits for the cover (then shows it on the tile and in the      *)
(* settings), raises getCurrentPlaybackTrackIdMediator() and tells the     *)
(* report state machine.                                                   *)
(***************************************************************************)
EXTENDS Naturals, CoverCache, Mediator, PlaybackReports

CONSTANTS
  AlbumOf,       (* the cover of each track                               *)
  StateThreads   (* bound: handlers of CurrentStateChanged at one time    *)

ASSUME TrackEventsAssumption ==
  /\ Threads \subseteq Nat /\ StateThreads \subseteq Nat
  /\ Callers = Threads /\ AlbumOf \in [Tracks -> Albums] /\ NoTrack \notin Tracks
  /\ {Ui, NoOne} \cap Threads = {} /\ Ui # NoOne /\ NoOne \notin Subscribers

VARIABLES
  track,      (* the player's item                                          *)
  playing,    (* and whether it plays                                       *)
  item,       (* handlers of CurrentItemChanged, one a thread               *)
  state,      (* handlers of CurrentStateChanged                            *)
  sure        (* of what no two handlers overlapped (ghost)                 *)

handlers == <<item, state>>
vars == <<track, playing, item, state, sure, coverVars, mediatorVars, reportVars>>

NoItem == [at |-> "none", track |-> NoTrack]
NoState == [at |-> "none", playing |-> FALSE]
ItemsIdle == \A h \in Threads : item[h] = NoItem
StatesIdle == \A h \in StateThreads : state[h] = NoState

TypeOK ==
  /\ CoverTypeOK /\ MediatorTypeOK /\ ReportTypeOK
  /\ track \in Tracks \cup {NoTrack} /\ playing \in BOOLEAN
  /\ item \in [Threads -> [at : {"none", "cover", "raising", "report"},
                           track : Tracks \cup {NoTrack}]]
  /\ state \in [StateThreads -> [at : {"none", "read", "apply"}, playing : BOOLEAN]]
  /\ sure \subseteq {"track", "state"}

Init ==
  /\ CoverInit /\ MediatorInit /\ ReportInit
  /\ track = NoTrack /\ playing = FALSE
  /\ item = [h \in Threads |-> NoItem] /\ state = [h \in StateThreads |-> NoState]
  /\ sure = {"track", "state"}

-----------------------------------------------------------------------------
(* OnCurrentPlaylistItemChanged *)

(* The player's track changes; without one there is nothing to show.       *)
CurrentItemChanged(h, t) ==
  /\ item[h] = NoItem /\ \A g \in Threads : g < h => item[g] # NoItem
  /\ t # track
  /\ track' = t
  /\ sure' = IF ItemsIdle THEN sure \cup {"track"} ELSE sure \ {"track"}
  /\ item' = [item EXCEPT ![h] = [at |-> IF t = NoTrack THEN "report" ELSE "cover", track |-> t]]
  /\ IF t = NoTrack THEN UNCHANGED coverVars ELSE Ensure(h, AlbumOf[t])
  /\ UNCHANGED <<playing, state, mediatorVars, reportVars>>

Goes(h, at) == item' = [item EXCEPT ![h].at = at]

(* EnsureCoverInCacheAsync(...).get() has returned. *)
RaiseTrack(h) ==
  /\ item[h].at = "cover" /\ TakeCover(h) /\ Raise(h)
  /\ Goes(h, "raising")
  /\ UNCHANGED <<track, playing, state, sure, reportVars>>

TrackRaised(h) ==
  /\ item[h].at = "raising" /\ Raised(h)
  /\ Goes(h, "report")
  /\ UNCHANGED <<track, playing, state, sure, coverVars, reportVars>>

ReportTrack(h) ==
  /\ item[h].at = "report"
  /\ OnActiveTrackChanged(item[h].track)
  /\ item' = [item EXCEPT ![h] = NoItem]
  /\ UNCHANGED <<track, playing, state, sure, coverVars, mediatorVars>>

-----------------------------------------------------------------------------
(* onWmpStateChanged *)

CurrentStateChanged(h) ==
  /\ state[h] = NoState /\ \A g \in StateThreads : g < h => state[g] # NoState
  /\ playing' = ~playing
  /\ sure' = IF StatesIdle THEN sure \cup {"state"} ELSE sure \ {"state"}
  /\ state' = [state EXCEPT ![h].at = "read"]
  /\ UNCHANGED <<track, item, coverVars, mediatorVars, reportVars>>

(* _wmp->CurrentState is read before the mutex is taken. *)
ReadState(h) ==
  /\ state[h].at = "read"
  /\ state' = [state EXCEPT ![h] = [at |-> "apply", playing |-> playing]]
  /\ UNCHANGED <<track, playing, item, sure, coverVars, mediatorVars, reportVars>>

ApplyState(h) ==
  /\ state[h].at = "apply"
  /\ OnMediaPlayerStateChanged(state[h].playing)
  /\ state' = [state EXCEPT ![h] = NoState]
  /\ UNCHANGED <<track, playing, item, sure, coverVars, mediatorVars>>

-----------------------------------------------------------------------------
(* The user listens while all events have been handled as they came. *)
Settled == ItemsIdle /\ StatesIdle /\ sure = {"track", "state"}

Listen ==
  /\ Settled /\ playing /\ track # NoTrack
  /\ Hear(track)
  /\ UNCHANGED <<track, playing, handlers, sure, coverVars, mediatorVars>>

Covers(A) == A /\ UNCHANGED <<track, playing, handlers, sure, mediatorVars, reportVars>>
Pages(A) == A /\ UNCHANGED <<track, playing, handlers, sure, coverVars, reportVars>>

(* What the thread of handler h does next. *)
Step(h) ==
  \/ RaiseTrack(h) \/ TrackRaised(h) \/ ReportTrack(h)
  \/ Covers(LookForCover(h)) \/ Covers(CoverNotFound(h))
  \/ Covers(CreateCover(h)) \/ Covers(WriteCover(h))
  \/ \E s \in Subscribers : Pages(Invoke(h, s))
  \/ Pages(Return(h)) \/ Pages(Destroy(h))

Kill ==
  /\ KillCovers /\ KillMediator /\ KillReports
  /\ track' = NoTrack /\ playing' = FALSE
  /\ item' = [h \in Threads |-> NoItem] /\ state' = [h \in StateThreads |-> NoState]
  /\ sure' = {"track", "state"}

Next ==
  \/ \E h \in Threads, t \in Tracks \cup {NoTrack} : CurrentItemChanged(h, t)
  \/ \E h \in Threads : Step(h) \/ Covers(CoverFails(h))
  \/ \E h \in StateThreads : CurrentStateChanged(h) \/ ReadState(h) \/ ApplyState(h)
  \/ \E s \in Subscribers : Pages(Create(s)) \/ Pages(Drop(s))
  \/ Pages(Claim) \/ Pages(Enter)
  \/ Listen \/ Kill

(* Threads run on, and a thread that waits for a lock which is free again  *)
(* and again gets it; the network and the disk work again and again.       *)
Fairness ==
  /\ \A h \in Threads : SF_vars(Step(h)) /\ SF_vars(Covers(WriteCover(h)))
  /\ WF_vars(Pages(Enter))

Spec == Init /\ [][Next]_vars /\ Fairness

-----------------------------------------------------------------------------
(* Properties *)

(* When the handlers have returned, the report state machine follows the   *)
(* player - unless the last event came while a handler of an earlier one   *)
(* was at work, which can then overtake.                                   *)
FollowsThePlayer ==
  /\ ItemsIdle /\ "track" \in sure => currentTrackId = track
  /\ StatesIdle /\ "state" \in sure => isPlaying = playing
  /\ entry = IF isPlaying THEN currentTrackId ELSE NoTrack

(* Every variable has its type; the machine follows the player; what was   *)
(* heard is in an entry or a report; covers do not stay empty; raise()     *)
(* iterates over what is registered.                                       *)
Inv ==
  /\ TypeOK /\ FollowsThePlayer /\ HeardIsReported
  /\ EmptyIsBeingWritten /\ RaisedAreRegistered

(* Every handler returns, through failures of network and disk, covers     *)
(* fetched twice and subscribers coming and going - unless a callback has  *)
(* dropped the last reference to its subscriber, whose thread then waits   *)
(* for itself and every later one for that thread.                         *)
HandlersReturn ==
  \A h \in Threads : (item[h] # NoItem) ~> (item[h] = NoItem \/ \E g \in Threads : Stuck(g))
=============================================================================
