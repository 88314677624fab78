----------------------------- MODULE PlayQueue -----------------------------
(***************************************************************************)
(* What is played: AudioService.cpp writes current_playlist.json, the      *)
(* player (MusicPlayer.cpp) drops its queue, reads the file and builds the *)
(* next one.  Requests come on the thread of the user interface; the       *)
(* continuation that builds a queue runs on the pool, outside the mutex,   *)
(* and never looks at the cancellation token it was given.                 *)
(***************************************************************************)
EXTENDS Naturals, FiniteSets

CONSTANTS
  Lists,     (* playlists the pages show                                    *)
  Local,     (* the imported tracks in random order                         *)
  Empty,     (* no text: a file just created                                *)
  Indexes,   (* positions in a list, from 0                                 *)
  Requests,  (* what the pages ask for: a list and where to start           *)
  Resumed,   (* the position of the setting CurrentPlaybackTrackId          *)
  Null,
  MaxCalls,  (* bound: calls of resetPlaylistAndPlay at one time            *)
  MaxLoads   (* bound: queues loaded at one time                            *)

ASSUME PlayQueueAssumption ==
  /\ 0 \in Indexes /\ Indexes \subseteq Nat /\ Resumed \notin Indexes
  /\ Requests \subseteq Lists \X Indexes
  /\ {Local, Empty, Null} \cap Lists = {} /\ Cardinality({Local, Empty, Null}) = 3
  /\ MaxCalls \in Nat /\ MaxLoads \in Nat

VARIABLES
  file,     (* the list in current_playlist.json                            *)
  call,     (* the coroutines of resetPlaylistAndPlay                       *)
  load,     (* load...JsonAsync and their continuations                     *)
  object,   (* the MediaPlaybackList each of them has built                 *)
  queue,    (* _currentPlayList: the load that has built it, 0 for nullptr  *)
  source,   (* _wmp->Source likewise, 0 for the empty list                  *)
  told,     (* the list the pages have been told of last                    *)
  ask,      (* the last request, if it is alone (for the properties only)   *)
  modes     (* the queue has been told its mode (for the properties only)   *)

player == <<object, queue, source>>
queueVars == <<file, call, load, player, told, ask, modes>>

Contents == Lists \cup {Local, Empty}
Positions == Indexes \cup {Resumed}

NoCall == [at |-> "none", list |-> Null, index |-> 0]
NoLoad == [at |-> "none", kind |-> "index", index |-> 0, list |-> Null]
Gone == [NoLoad EXCEPT !.at = "gone"]  (* without result, for the properties only *)
NoObject == [list |-> Empty, index |-> 0, follows |-> TRUE]

Calls == {c \in DOMAIN call : call[c].at # "none"}
Loads == {l \in DOMAIN load : load[l].at \notin {"none", "gone"}}
Idle == Calls \cup Loads = {}

QueueTypeOK ==
  /\ file \in Contents
  /\ call \in [1..MaxCalls -> [at : {"none", "create", "write", "play"},
                               list : Lists \cup {Null}, index : Indexes]]
  /\ load \in [1..MaxLoads -> [at : {"none", "gone", "query", "write", "read", "build", "queue", "sound", "raise"},
                               kind : {"index", "resume", "local"}, index : Positions,
                               list : Contents \cup {Null}]]
  /\ object \in [1..MaxLoads -> [list : Contents, index : Positions, follows : BOOLEAN]]
  /\ queue \in 0..MaxLoads /\ source \in 0..MaxLoads
  /\ modes \in BOOLEAN /\ told \in Contents \cup {Null}
  /\ ask \in [list : Contents, index : Positions, raises : BOOLEAN] \cup {Null}

QueueInit ==
  /\ file \in Contents
  /\ call = [c \in 1..MaxCalls |-> NoCall] /\ load = [l \in 1..MaxLoads |-> NoLoad]
  /\ object = [l \in 1..MaxLoads |-> NoObject] /\ queue = 0 /\ source = 0
  /\ told = Null /\ ask = Null /\ modes = FALSE

-----------------------------------------------------------------------------
(* AudioService::resetPlaylistAndPlay *)

First(slots, S) == CHOOSE s \in slots \ S : \A t \in slots \ S : s <= t

Ask(p, i, raises) == ask' = IF Idle THEN [list |-> p, index |-> i, raises |-> raises] ELSE Null

StartCall(p, i) ==
  /\ Calls # DOMAIN call
  /\ call' = [call EXCEPT ![First(DOMAIN call, Calls)] = [at |-> "create", list |-> p, index |-> i]]
  /\ Ask(p, i, TRUE)
  /\ UNCHANGED <<file, load, player, told, modes>>

(* CreateFileAsync with ReplaceExisting. *)
CreateFile(c) ==
  /\ call[c].at = "create"
  /\ call' = [call EXCEPT ![c].at = "write"]
  /\ file' = Empty
  /\ UNCHANGED <<load, player, told, ask, modes>>

Write(c) ==
  /\ call[c].at = "write"
  /\ call' = [call EXCEPT ![c].at = "play"]
  /\ file' = call[c].list
  /\ UNCHANGED <<load, player, told, ask, modes>>

(* An exception nobody looks at. *)
CallFails(c) ==
  /\ call[c].at \in {"create", "write"}
  /\ call' = [call EXCEPT ![c] = NoCall]
  /\ ask' = Null
  /\ UNCHANGED <<file, load, player, told, modes>>

-----------------------------------------------------------------------------
(* The player *)

(* The queue is dropped and the next one loaded. *)
Reload(kind, i) ==
  /\ Loads # DOMAIN load
  /\ queue' = 0 /\ source' = 0 /\ modes' = FALSE
  /\ object' = [l \in DOMAIN object |-> IF l \in Loads THEN object[l] ELSE NoObject]
  /\ load' = [load EXCEPT ![First(DOMAIN load, Loads)] =
       [NoLoad EXCEPT !.at = IF kind = "local" THEN "query" ELSE "read", !.kind = kind, !.index = i]]

(* resetPlayqueueAndPlay, when the text is written. *)
Play(c) ==
  /\ call[c].at = "play"
  /\ Reload("index", call[c].index)
  /\ call' = [call EXCEPT ![c] = NoCall]
  /\ UNCHANGED <<file, told, ask>>

PlayAllLocalMusic ==
  /\ Reload("local", 0)
  /\ Ask(Local, 0, TRUE)
  /\ UNCHANGED <<file, call, told>>

(* MoveTo on the queue there is, which may be what sounds. *)
MoveTo(i) ==
  /\ queue # 0
  /\ object' = [object EXCEPT ![queue].index = i]
  /\ ask' = IF Idle /\ ask # Null THEN [ask EXCEPT !.index = i] ELSE Null
  /\ UNCHANGED <<file, call, load, queue, source, told, modes>>

(* playAtIndex, moveNext, movePrevious with a queue, and without one.      *)
PlayAtIndex(i) ==
  \/ MoveTo(i)
  \/ /\ queue = 0
     /\ Reload("index", i)
     /\ Ask(file, i, TRUE)
     /\ UNCHANGED <<file, call, told>>

(* With a queue it only plays on. *)
Resume ==
  /\ queue = 0
  /\ Reload("resume", Resumed)
  /\ Ask(file, Resumed, FALSE)
  /\ UNCHANGED <<file, call, told>>

-----------------------------------------------------------------------------
(* Loads *)

Moves(l, at) == load' = [load EXCEPT ![l].at = at]

Read(l) ==
  /\ load[l].at = "read"
  /\ load' = [load EXCEPT ![l].at = "build", ![l].list = file]
  /\ UNCHANGED <<file, call, player, told, ask, modes>>

(* The imported tracks come from the database and go to the file.          *)
Query(l) ==
  /\ load[l].at = "query"
  /\ load' = [load EXCEPT ![l].at = "write", ![l].list = Local]
  /\ UNCHANGED <<file, call, player, told, ask, modes>>

WriteLocal(l) ==
  /\ load[l].at = "write"
  /\ Moves(l, "build")
  /\ file' = load[l].list
  /\ UNCHANGED <<call, player, told, ask, modes>>

(* A file in use, or a text cut short that does not parse. *)
LoadFails(l) ==
  /\ load[l].at \in {"query", "read", "write", "build"}
  /\ load' = [load EXCEPT ![l] = Gone]
  /\ ask' = Null
  /\ UNCHANGED <<file, call, player, told, modes>>

(* Mutant: the starting item is not set. *)
BuildFromStart(l) ==
  /\ load[l].at = "build"
  /\ Moves(l, "queue")
  /\ object' = [object EXCEPT ![l] = [list |-> load[l].list, index |-> 0, follows |-> TRUE]]
  /\ UNCHANGED <<file, call, queue, source, told, ask, modes>>

(* A list of items, with the modes of the settings.                        *)
Build(l) ==
  /\ load[l].at = "build"
  /\ Moves(l, "queue")
  /\ object' = [object EXCEPT ![l] =
       [list |-> load[l].list, index |-> load[l].index, follows |-> TRUE]]
  /\ UNCHANGED <<file, call, queue, source, told, ask, modes>>

(* Mutant: the list goes to the player only. *)
SetNoQueue(l) ==
  /\ load[l].at = "queue"
  /\ Moves(l, "sound")
  /\ UNCHANGED <<file, call, player, told, ask, modes>>

SetQueue(l) ==
  /\ load[l].at = "queue"
  /\ Moves(l, "sound")
  /\ queue' = l
  /\ modes' = object[l].follows
  /\ UNCHANGED <<file, call, object, source, told, ask>>

(* The source, and Play().                                                 *)
SetSource(l) ==
  /\ load[l].at = "sound"
  /\ load' = [load EXCEPT ![l] = IF @.kind = "resume" THEN NoLoad ELSE [@ EXCEPT !.at = "raise"]]
  /\ source' = l
  /\ UNCHANGED <<file, call, object, queue, told, ask, modes>>

(* getCurrentPlaylistMediator() is raised, but not for a resumed queue.    *)
RaisePlaylist(l) ==
  /\ load[l].at = "raise"
  /\ load' = [load EXCEPT ![l] = NoLoad]
  /\ told' = load[l].list
  /\ UNCHANGED <<file, call, player, ask, modes>>

-----------------------------------------------------------------------------
InUse(l) == l \in {queue, source} \/ load[l].at \in {"queue", "sound"}

(* The setting is changed, then the queue there is.  A list built before,  *)
(* with the old value, no longer follows it; one changed twice does again. *)
OnRepeatModeChanged ==
  /\ object' = [l \in DOMAIN object |->
       [object[l] EXCEPT !.follows = IF l = queue THEN TRUE ELSE IF InUse(l) THEN ~@ ELSE @]]
  /\ modes' = (queue # 0)
  /\ UNCHANGED <<file, call, load, queue, source, told, ask>>

(* Killed and launched again: initialize() loads nothing.                  *)
Restart ==
  /\ call' = [c \in DOMAIN call |-> NoCall] /\ load' = [l \in DOMAIN load |-> Gone]
  /\ object' = [l \in DOMAIN object |-> NoObject] /\ queue' = 0 /\ source' = 0
  /\ told' = Null /\ ask' = Null /\ modes' = FALSE
  /\ UNCHANGED file

Load(l) ==
  \/ Read(l) \/ Query(l) \/ WriteLocal(l)
  \/ Build(l) \/ SetQueue(l) \/ SetSource(l) \/ RaisePlaylist(l)

QueueNext ==
  \/ \E request \in Requests : StartCall(request[1], request[2])
  \/ \E c \in DOMAIN call : CreateFile(c) \/ Write(c) \/ CallFails(c) \/ Play(c)
  \/ \E l \in DOMAIN load : Load(l) \/ LoadFails(l)
  \/ \E i \in Indexes : PlayAtIndex(i)
  \/ PlayAllLocalMusic \/ Resume
  \/ OnRepeatModeChanged \/ Restart

(* The pool and the file system go on with each load.                      *)
QueueSpec == QueueInit /\ [][QueueNext]_queueVars /\ \A l \in 1..MaxLoads : WF_queueVars(Load(l))

-----------------------------------------------------------------------------
(* Properties *)

(* However requests, loads, failures and kills have overlapped before, a   *)
(* request that ran alone gets what it asked for: the queue has its list   *)
(* and starts at its index, it is what sounds, the file says the same for  *)
(* the next launch, and the pages have been told (a resumed queue is not   *)
(* announced).                                                             *)
AsAsked ==
  Idle /\ ask # Null =>
    /\ queue # 0 /\ source = queue
    /\ object[queue].list = ask.list /\ object[queue].index = ask.index
    /\ file = ask.list
    /\ ask.raises => told = ask.list

(* The queue repeats (and shuffles) as the setting says, unless it was     *)
(* changed after a load had read it and before it replaced the queue.      *)
RepeatsAsSet == queue # 0 /\ modes => object[queue].follows

(* What each variable holds, and the two above: AudioService and           *)
(* MusicPlayer give the user what the last request asked for.              *)
PlaysAsAsked == QueueTypeOK /\ AsAsked /\ RepeatsAsSet

(* Silence ends: every load ends the time without a queue that it began    *)
(* (resetPlayqueueAndPlay, playAllLocalMusic, resume), whatever calls and  *)
(* loads do beside it, unless it fails or the application is killed.       *)
QueueComes ==
  \A l \in 1..MaxLoads :
    (l \in Loads /\ load[l].at \notin {"sound", "raise"}) ~> (queue # 0 \/ load[l] = Gone)
=============================================================================
