------------------------- MODULE MusicPlayerProofs -------------------------
(***************************************************************************)
(* Theorems about the music player: what is played, and what the handlers  *)
(* of the player's events do.                                              *)
(*                                                                         *)
(* PlayQueue: for any playlists, indexes and requests, and any number of   *)
(* calls and loads at one time.                                            *)
(*                                                                         *)
(* TrackEvents: for any number of tracks, covers, handlers and subscribers.*)
(* The system is composed of three parts that share no variable - the      *)
(* covers, the mediator, and the player with the report state machine - so *)
(* each has an inductive invariant of its own, and every step of the       *)
(* system is shown to be a step of each part.                              *)
(***************************************************************************)
EXTENDS PlayQueue, TrackEvents, WellFoundedInduction, TLAPS

LEMMA QueueConstants ==
  /\ 0 \in Indexes /\ Indexes \subseteq Nat
  /\ \A request \in Requests : request[1] \in Lists /\ request[2] \in Indexes
  /\ MaxCalls \in Nat /\ MaxLoads \in Nat
BY PlayQueueAssumption

(* The slot a new call or load takes is a free one.                        *)
LEMMA FirstIsFree ==
  ASSUME NEW n \in Nat, NEW S, S \subseteq 1..n, S # 1..n
  PROVE  First(1..n, S) \in 1..n /\ First(1..n, S) \notin S
<1> DEFINE free == (1..n) \ S
           Below == OpToRel(<, Nat)
<1>1. free # {} /\ free \subseteq Nat
  <2>1. PICK s \in 1..n : s \notin S  BY Zenon
  <2>2. 1..n \subseteq Nat  OBVIOUS
  <2> QED BY <2>1, <2>2
<1>2. IsWellFoundedOn(Below, Nat)  BY NatLessThanWellFounded
<1>3. \A s, t \in Nat : <<t, s>> \in Below <=> t < s  BY DEF OpToRel
<1> HIDE DEF Below, free
<1>4. PICK s \in free : \A t \in free : ~(<<t, s>> \in Below)
  BY <1>1, <1>2, WFMin
<1>5. \A t \in free : s <= t
  <2> TAKE t \in free
  <2>1. s \in Nat /\ t \in Nat /\ ~(t < s)  BY <1>1, <1>3, <1>4
  <2> QED BY <2>1
<1>6. First(1..n, S) \in free
  BY <1>5 DEF First, free
<1> QED BY <1>6 DEF free

-----------------------------------------------------------------------------
(* The request that ran alone *)

(* What a call or a load is about, at each await.                          *)
CallShape == \A c \in 1..MaxCalls : call[c].at # "none" => call[c].list \in Lists

LoadShape ==
  \A l \in 1..MaxLoads :
    /\ load[l].at = "write" => load[l].list = Local
    /\ load[l].at \in {"query", "write"} => load[l].kind = "local"
    /\ load[l].at \in {"build", "queue", "sound", "raise"} => load[l].list \in Contents

(* A call carries the request until it is a load.                          *)
CallAsks(c) ==
  /\ call[c].list = ask.list /\ call[c].index = ask.index /\ ask.raises
  /\ call[c].at = "play" => file = ask.list

(* What is already done of the request when its load is at an await.       *)
LoadAsks(l) ==
  /\ load[l].index = ask.index /\ ask.raises = (load[l].kind # "resume")
  /\ load[l].at \in {"query", "write"} => ask.list = Local
  /\ load[l].at \notin {"query", "read"} => load[l].list = ask.list
  /\ load[l].at \notin {"query", "write"} => file = ask.list
  /\ load[l].at \in {"queue", "sound", "raise"} =>
       object[l].list = ask.list /\ object[l].index = ask.index
  /\ load[l].at \in {"sound", "raise"} => queue = l
  /\ load[l].at = "raise" => source = l

Granted ==
  /\ queue # 0 /\ source = queue
  /\ object[queue].list = ask.list /\ object[queue].index = ask.index
  /\ file = ask.list
  /\ ask.raises => told = ask.list

(* It is one call, then one load, then granted; nothing else is under way. *)
AskInv ==
  ask # Null =>
    \/ Idle /\ Granted
    \/ \E c \in 1..MaxCalls : Calls = {c} /\ Loads = {} /\ CallAsks(c)
    \/ \E l \in 1..MaxLoads : Calls = {} /\ Loads = {l} /\ LoadAsks(l)

ShapeInv == QueueTypeOK /\ CallShape /\ LoadShape

QueueInv == ShapeInv /\ AskInv /\ RepeatsAsSet

LEMMA Slots ==
  ASSUME QueueTypeOK
  PROVE  /\ DOMAIN call = 1..MaxCalls /\ DOMAIN load = 1..MaxLoads /\ DOMAIN object = 1..MaxLoads
         /\ Calls = {c \in 1..MaxCalls : call[c].at # "none"}
         /\ Loads = {l \in 1..MaxLoads : load[l].at \notin {"none", "gone"}}
         /\ Idle <=> Calls = {} /\ Loads = {}
BY DEF QueueTypeOK, Calls, Loads, Idle

LEMMA Blanks ==
  /\ NoCall \in [at : {"none"}, list : {Null}, index : Indexes]
  /\ NoLoad \in [at : {"none"}, kind : {"index"}, index : Positions, list : {Null}]
  /\ Gone \in [at : {"gone"}, kind : {"index"}, index : Positions, list : {Null}]
  /\ NoObject \in [list : Contents, index : Positions, follows : BOOLEAN]
BY QueueConstants DEF NoCall, NoLoad, Gone, NoObject, Positions, Contents

LEMMA AskTypes ==
  ASSUME NEW p \in Contents, NEW i \in Positions, NEW raises \in BOOLEAN, Ask(p, i, raises)
  PROVE  ask' \in [list : Contents, index : Positions, raises : BOOLEAN] \cup {Null}
BY DEF Ask

(* The queue that is dropped leaves every load that is under way alone,    *)
(* and the new one takes a free slot.                                      *)
Reloads(l, kind, i) ==
  /\ l \notin Loads
  /\ load' = [load EXCEPT ![l] = [NoLoad EXCEPT
       !.at = IF kind = "local" THEN "query" ELSE "read", !.kind = kind, !.index = i]]
  /\ load'[l] \in [at : {IF kind = "local" THEN "query" ELSE "read"}, kind : {kind},
                   index : {i}, list : {Null}]
  /\ Loads' = Loads \cup {l}
  /\ object' \in [1..MaxLoads -> [list : Contents, index : Positions, follows : BOOLEAN]]
  /\ queue' = 0 /\ source' = 0 /\ modes' = FALSE

LEMMA ReloadTakes ==
  ASSUME QueueTypeOK, NEW kind \in {"index", "resume", "local"}, NEW i \in Positions, Reload(kind, i)
  PROVE  \E l \in 1..MaxLoads : Reloads(l, kind, i)
<1>1. Loads \subseteq 1..MaxLoads /\ Loads # 1..MaxLoads  BY Slots DEF Reload
<1> DEFINE l == First(1..MaxLoads, Loads)
<1>2. l \in 1..MaxLoads /\ l \notin Loads  BY <1>1, FirstIsFree, QueueConstants
<1>3. load' = [load EXCEPT ![l] = [NoLoad EXCEPT
        !.at = IF kind = "local" THEN "query" ELSE "read", !.kind = kind, !.index = i]]
  BY Slots DEF Reload
<1> HIDE DEF l
<1>4. load'[l] \in [at : {IF kind = "local" THEN "query" ELSE "read"}, kind : {kind},
                    index : {i}, list : {Null}]
  BY <1>2, <1>3 DEF QueueTypeOK, NoLoad
<1>5. Loads' = Loads \cup {l}
  <2>1. DOMAIN load' = 1..MaxLoads /\ \A m \in 1..MaxLoads : m # l => load'[m] = load[m]
        BY <1>2, <1>3, Slots DEF QueueTypeOK
  <2>2. load'[l].at \notin {"none", "gone"}  BY <1>4
  <2> QED BY <1>2, <2>1, <2>2, Slots DEF Loads
<1>6. object' \in [1..MaxLoads -> [list : Contents, index : Positions, follows : BOOLEAN]]
  BY Slots, Blanks DEF Reload, QueueTypeOK
<1> QED BY <1>2, <1>3, <1>4, <1>5, <1>6 DEF Reload, Reloads

-----------------------------------------------------------------------------
(* Types, and what calls and loads are about *)

LEMMA CallsShaped ==
  ASSUME ShapeInv,
         \/ \E request \in Requests : StartCall(request[1], request[2])
         \/ \E c \in DOMAIN call : CreateFile(c) \/ Write(c) \/ CallFails(c)
  PROVE  ShapeInv'
<1>1. ASSUME NEW p \in Lists, NEW i \in Indexes, StartCall(p, i) PROVE ShapeInv'
  <2>1. Calls \subseteq 1..MaxCalls /\ Calls # 1..MaxCalls
        BY <1>1, Slots DEF StartCall, ShapeInv
  <2> DEFINE c == First(1..MaxCalls, Calls)
  <2>2. c \in 1..MaxCalls  BY <2>1, FirstIsFree, QueueConstants
  <2>3. call' = [call EXCEPT ![c] = [at |-> "create", list |-> p, index |-> i]]
        /\ UNCHANGED <<file, load, player, told, modes>>
        BY <1>1, Slots DEF StartCall, ShapeInv
  <2>4. ask' \in [list : Contents, index : Positions, raises : BOOLEAN] \cup {Null}
        BY <1>1, AskTypes DEF StartCall, Contents, Positions
  <2> HIDE DEF c
  <2>5. QueueTypeOK'  BY <2>2, <2>3, <2>4 DEF ShapeInv, QueueTypeOK, player
  <2> QED BY <2>2, <2>3, <2>5 DEF ShapeInv, CallShape, LoadShape, QueueTypeOK
<1>2. ASSUME NEW c \in 1..MaxCalls, CreateFile(c) \/ Write(c) \/ CallFails(c) PROVE ShapeInv'
  <2>1. /\ UNCHANGED <<load, player, told, modes>>
        /\ ask' \in {ask, Null} /\ file' \in {file, Empty, call[c].list}
        /\ call' \in {[call EXCEPT ![c].at = "write"], [call EXCEPT ![c].at = "play"],
                      [call EXCEPT ![c] = NoCall]}
        /\ call[c].list \in Lists
        BY <1>2 DEF CreateFile, Write, CallFails, ShapeInv, CallShape
  <2>2. QueueTypeOK'  BY <2>1, Blanks DEF ShapeInv, QueueTypeOK, player, Contents
  <2>3. /\ \A d \in 1..MaxCalls : d # c => call'[d] = call[d]
        /\ call'[c].at = "none" \/ call'[c].list = call[c].list
    <3>1. CASE call' = [call EXCEPT ![c] = NoCall]
          BY <3>1 DEF ShapeInv, QueueTypeOK, NoCall
    <3>2. CASE call' \in {[call EXCEPT ![c].at = "write"], [call EXCEPT ![c].at = "play"]}
          BY <3>2 DEF ShapeInv, QueueTypeOK
    <3> QED BY <2>1, <3>1, <3>2
  <2>4. CallShape'  BY <2>1, <2>3 DEF ShapeInv, CallShape
  <2>5. LoadShape'  BY <2>1 DEF ShapeInv, LoadShape
  <2> QED BY <2>2, <2>4, <2>5 DEF ShapeInv
<1> QED BY <1>1, <1>2, QueueConstants, Slots DEF ShapeInv

LEMMA ReloadsShaped ==
  ASSUME ShapeInv, NEW kind \in {"index", "resume", "local"}, NEW i \in Positions, Reload(kind, i),
         UNCHANGED <<file, told>>,
         call' \in [1..MaxCalls -> [at : {"none", "create", "write", "play"},
                                    list : Lists \cup {Null}, index : Indexes]],
         CallShape',
         ask' \in [list : Contents, index : Positions, raises : BOOLEAN] \cup {Null}
  PROVE  ShapeInv'
<1>0. QueueTypeOK  BY DEF ShapeInv
<1>1. PICK l \in 1..MaxLoads : Reloads(l, kind, i)  BY <1>0, ReloadTakes
<1> USE DEF Reloads
<1>2. \A m \in 1..MaxLoads : m # l => load'[m] = load[m]  BY <1>1 DEF ShapeInv, QueueTypeOK
<1>3. load' \in [1..MaxLoads -> [at : {"none", "gone", "query", "write", "read", "build", "queue",
                                       "sound", "raise"},
                                 kind : {"index", "resume", "local"}, index : Positions,
                                 list : Contents \cup {Null}]]
  BY <1>1, Blanks DEF ShapeInv, QueueTypeOK
<1>4. QueueTypeOK'
  <2>1. 0 \in 0..MaxLoads /\ FALSE \in BOOLEAN  BY QueueConstants
  <2> QED BY <1>0, <1>1, <1>3, <2>1 DEF QueueTypeOK
<1>5. LoadShape'  BY <1>1, <1>2 DEF ShapeInv, LoadShape
<1> QED BY <1>4, <1>5 DEF ShapeInv

LEMMA RequestsShaped ==
  ASSUME ShapeInv,
         \/ \E c \in DOMAIN call : Play(c)
         \/ \E i \in Indexes : PlayAtIndex(i)
         \/ PlayAllLocalMusic \/ Resume
  PROVE  ShapeInv'
<1>0. /\ QueueTypeOK /\ CallShape /\ file \in Contents
      /\ 0 \in Positions /\ Resumed \in Positions /\ Indexes \subseteq Positions /\ Local \in Contents
  BY QueueConstants DEF ShapeInv, QueueTypeOK, Positions, Contents
<1>1. ASSUME NEW c \in 1..MaxCalls, Play(c) PROVE ShapeInv'
  <2>1. /\ call' = [call EXCEPT ![c] = NoCall] /\ UNCHANGED <<file, told, ask>>
        /\ Reload("index", call[c].index) /\ call[c].index \in Positions
        BY <1>0, <1>1 DEF Play, QueueTypeOK
  <2>2. CallShape'  BY <1>0, <2>1, Blanks DEF CallShape, QueueTypeOK
  <2>3. call' \in [1..MaxCalls -> [at : {"none", "create", "write", "play"},
                                   list : Lists \cup {Null}, index : Indexes]]
        BY <1>0, <2>1, Blanks DEF QueueTypeOK
  <2> QED BY <1>0, <2>1, <2>2, <2>3, ReloadsShaped DEF QueueTypeOK
<1>2. ASSUME NEW kind \in {"index", "resume", "local"}, NEW i \in Positions, NEW p \in Contents,
             NEW raises \in BOOLEAN, Reload(kind, i), Ask(p, i, raises), UNCHANGED <<file, call, told>>
      PROVE  ShapeInv'
  <2>1. CallShape'  BY <1>0, <1>2 DEF CallShape
  <2> QED BY <1>0, <1>2, <2>1, AskTypes, ReloadsShaped DEF QueueTypeOK
<1>3. ASSUME NEW i \in Indexes, MoveTo(i) PROVE ShapeInv'
  <2>1. ask' \in [list : Contents, index : Positions, raises : BOOLEAN] \cup {Null}
        BY <1>0, <1>3 DEF MoveTo, QueueTypeOK
  <2>2. object' \in [1..MaxLoads -> [list : Contents, index : Positions, follows : BOOLEAN]]
        BY <1>0, <1>3 DEF MoveTo, QueueTypeOK
  <2> QED BY <1>0, <1>3, <2>1, <2>2 DEF MoveTo, ShapeInv, QueueTypeOK, CallShape, LoadShape
<1>4. CASE \E i \in Indexes : PlayAtIndex(i)
  BY <1>0, <1>2, <1>3, <1>4 DEF PlayAtIndex
<1>5. CASE PlayAllLocalMusic  BY <1>0, <1>2, <1>5 DEF PlayAllLocalMusic
<1>6. CASE Resume  BY <1>0, <1>2, <1>6 DEF Resume
<1> QED BY <1>0, <1>1, <1>4, <1>5, <1>6, Slots

LEMMA LoadsShaped ==
  ASSUME ShapeInv, NEW l \in 1..MaxLoads, Load(l) \/ LoadFails(l)
  PROVE  ShapeInv'
<1>0. QueueTypeOK /\ Local \in Contents  BY DEF ShapeInv, Contents
<1>1. CASE Read(l) \/ Query(l) \/ LoadFails(l)
  <2>1. /\ UNCHANGED <<file, call, player, told, modes>> /\ ask' \in {ask, Null}
        /\ load' \in {[load EXCEPT ![l].at = "build", ![l].list = file],
                      [load EXCEPT ![l].at = "write", ![l].list = Local], [load EXCEPT ![l] = Gone]}
        BY <1>1 DEF Read, Query, LoadFails
  <2>2. QueueTypeOK'  BY <1>0, <2>1, Blanks DEF QueueTypeOK, player
  <2>3. \A m \in 1..MaxLoads : m # l => load'[m] = load[m]
        BY <1>0, <2>1 DEF QueueTypeOK
  <2>4. /\ load'[l].at = "write" => load'[l].list = Local /\ load'[l].kind = "local"
        /\ load'[l].at # "query"
        /\ load'[l].at \in {"build", "queue", "sound", "raise"} => load'[l].list \in Contents
    <3>1. CASE Read(l)  BY <1>0, <3>1 DEF Read, QueueTypeOK
    <3>2. CASE Query(l)  BY <1>0, <3>2 DEF Query, ShapeInv, LoadShape, QueueTypeOK
    <3>3. CASE LoadFails(l)  BY <1>0, <3>3, Blanks DEF LoadFails, QueueTypeOK
    <3> QED BY <1>1, <3>1, <3>2, <3>3
  <2>5. LoadShape'  BY <2>3, <2>4 DEF ShapeInv, LoadShape
  <2> QED BY <2>1, <2>2, <2>5 DEF ShapeInv, CallShape
<1>2. CASE WriteLocal(l) \/ SetQueue(l) \/ SetSource(l) \/ RaisePlaylist(l)
  <2>1. /\ UNCHANGED <<call, object, ask>>
        /\ file' \in {file, load[l].list} /\ told' \in {told, load[l].list}
        /\ queue' \in {queue, l} /\ source' \in {source, l} /\ modes' \in {modes, object[l].follows}
        /\ load' \in {[load EXCEPT ![l].at = "build"], [load EXCEPT ![l].at = "sound"],
                      [load EXCEPT ![l].at = "raise"], [load EXCEPT ![l] = NoLoad]}
        /\ load[l].list \in Contents
        BY <1>0, <1>2 DEF WriteLocal, SetQueue, SetSource, RaisePlaylist, Moves, player,
                          ShapeInv, LoadShape, QueueTypeOK
  <2>2. load' \in [1..MaxLoads -> [at : {"none", "gone", "query", "write", "read", "build", "queue",
                                         "sound", "raise"},
                                   kind : {"index", "resume", "local"}, index : Positions,
                                   list : Contents \cup {Null}]]
        BY <1>0, <2>1, Blanks DEF QueueTypeOK
  <2>3. /\ file' \in Contents /\ told' \in Contents \cup {Null} /\ modes' \in BOOLEAN
        /\ queue' \in 0..MaxLoads /\ source' \in 0..MaxLoads
        BY <1>0, <2>1, QueueConstants DEF QueueTypeOK
  <2>4. QueueTypeOK'  BY <1>0, <2>1, <2>2, <2>3 DEF QueueTypeOK
  <2>5. /\ \A m \in 1..MaxLoads : m # l => load'[m] = load[m]
        /\ load'[l].at \notin {"write", "query"}
        /\ load'[l].at # "none" => load'[l].list = load[l].list
    <3>1. CASE load' = [load EXCEPT ![l] = NoLoad]
          BY <1>0, <3>1 DEF QueueTypeOK, NoLoad
    <3>2. ASSUME NEW at \in {"build", "sound", "raise"}, load' = [load EXCEPT ![l].at = at]
          PROVE  /\ \A m \in 1..MaxLoads : m # l => load'[m] = load[m]
                 /\ load'[l].at = at /\ load'[l].list = load[l].list
          BY <1>0, <3>2 DEF QueueTypeOK
    <3> QED BY <2>1, <3>1, <3>2
  <2>6. LoadShape'  BY <2>1, <2>5 DEF ShapeInv, LoadShape
  <2> QED BY <2>1, <2>4, <2>6 DEF ShapeInv, CallShape
<1>3. CASE Build(l)
  <2>1. /\ UNCHANGED <<file, call, queue, source, told, ask, modes>>
        /\ load' = [load EXCEPT ![l].at = "queue"] /\ load[l].list \in Contents
        /\ object' = [object EXCEPT ![l] =
             [list |-> load[l].list, index |-> load[l].index, follows |-> TRUE]]
        BY <1>0, <1>3 DEF Build, Moves, ShapeInv, LoadShape
  <2>2. QueueTypeOK'  BY <1>0, <2>1 DEF QueueTypeOK
  <2>3. LoadShape'  BY <1>0, <2>1 DEF ShapeInv, LoadShape, QueueTypeOK
  <2> QED BY <2>1, <2>2, <2>3 DEF ShapeInv, CallShape
<1> QED BY <1>1, <1>2, <1>3 DEF Load

LEMMA OthersShaped ==
  ASSUME ShapeInv, OnRepeatModeChanged \/ Restart \/ UNCHANGED queueVars
  PROVE  ShapeInv'
<1>1. CASE OnRepeatModeChanged
  <2>1. object' \in [1..MaxLoads -> [list : Contents, index : Positions, follows : BOOLEAN]]
    <3>1. ASSUME NEW l \in 1..MaxLoads
          PROVE  {[object[l] EXCEPT !.follows = TRUE], [object[l] EXCEPT !.follows = ~@],
                  [object[l] EXCEPT !.follows = @]}
                   \subseteq [list : Contents, index : Positions, follows : BOOLEAN]
          BY DEF ShapeInv, QueueTypeOK
    <3>2. object' = [l \in 1..MaxLoads |->
             [object[l] EXCEPT !.follows = IF l = queue THEN TRUE ELSE IF InUse(l) THEN ~@ ELSE @]]
          BY <1>1, Slots DEF OnRepeatModeChanged, ShapeInv
    <3> QED BY <3>1, <3>2
  <2> QED BY <1>1, <2>1 DEF OnRepeatModeChanged, ShapeInv, QueueTypeOK, CallShape, LoadShape
<1>2. CASE Restart
  <2>1. call' = [c \in 1..MaxCalls |-> NoCall] /\ load' = [l \in 1..MaxLoads |-> Gone]
        /\ object' = [l \in 1..MaxLoads |-> NoObject]
        BY <1>2, Slots DEF Restart, ShapeInv
  <2>2. QueueTypeOK'
    <3>1. UNCHANGED file /\ queue' = 0 /\ source' = 0 /\ told' = Null /\ ask' = Null /\ modes' = FALSE
          BY <1>2 DEF Restart
    <3>2. 0 \in 0..MaxLoads  BY QueueConstants
    <3>3. call' \in [1..MaxCalls -> [at : {"none", "create", "write", "play"},
                                     list : Lists \cup {Null}, index : Indexes]]
          BY <2>1, Blanks
    <3>4. load' \in [1..MaxLoads -> [at : {"none", "gone", "query", "write", "read", "build", "queue",
                                           "sound", "raise"},
                                     kind : {"index", "resume", "local"}, index : Positions,
                                     list : Contents \cup {Null}]]
          BY <2>1, Blanks
    <3>5. object' \in [1..MaxLoads -> [list : Contents, index : Positions, follows : BOOLEAN]]
          BY <2>1, Blanks
    <3> QED BY <3>1, <3>2, <3>3, <3>4, <3>5 DEF ShapeInv, QueueTypeOK
  <2> QED BY <2>1, <2>2, Blanks DEF ShapeInv, CallShape, LoadShape
<1>3. CASE UNCHANGED queueVars
  BY <1>3 DEF queueVars, player, ShapeInv, QueueTypeOK, CallShape, LoadShape
<1> QED BY <1>1, <1>2, <1>3

LEMMA ShapeKept ==
  ASSUME ShapeInv, [QueueNext]_queueVars
  PROVE  ShapeInv'
BY CallsShaped, RequestsShaped, LoadsShaped, OthersShaped, Slots DEF QueueNext, ShapeInv

-----------------------------------------------------------------------------
(* The steps of a request *)

(* A request counts only when nothing else is under way.                   *)
LEMMA AskAlone ==
  ASSUME NEW p, NEW i, NEW raises, Ask(p, i, raises), ask' # Null
  PROVE  Idle /\ ask'.list = p /\ ask'.index = i /\ ask'.raises = raises
BY DEF Ask

LEMMA CallsAsk ==
  ASSUME ShapeInv, AskInv,
         \/ \E request \in Requests : StartCall(request[1], request[2])
         \/ \E c \in DOMAIN call : CreateFile(c) \/ Write(c) \/ CallFails(c)
  PROVE  AskInv'
<1>0. QueueTypeOK /\ QueueTypeOK'  BY CallsShaped DEF ShapeInv
<1>1. ASSUME NEW p \in Lists, NEW i \in Indexes, StartCall(p, i), ask' # Null PROVE AskInv'
  <2>1. Calls = {} /\ Loads = {} /\ ask'.list = p /\ ask'.index = i /\ ask'.raises = TRUE
        BY <1>0, <1>1, AskAlone, Slots DEF StartCall
  <2>2. Calls \subseteq 1..MaxCalls /\ Calls # 1..MaxCalls
        BY <1>0, <1>1, Slots DEF StartCall
  <2>3. PICK c \in 1..MaxCalls : c = First(1..MaxCalls, Calls)
        BY <2>2, FirstIsFree, QueueConstants
  <2>4. call' = [call EXCEPT ![c] = [at |-> "create", list |-> p, index |-> i]] /\ load' = load
        BY <1>0, <1>1, <2>3, Slots DEF StartCall
  <2>5. /\ call'[c] = [at |-> "create", list |-> p, index |-> i]
        /\ \A d \in 1..MaxCalls : d # c => call'[d].at = "none"
        BY <1>0, <2>1, <2>3, <2>4, Slots DEF QueueTypeOK
  <2>6. Calls' = {c} /\ Loads' = {}
        BY <1>0, <2>1, <2>3, <2>4, <2>5, Slots DEF Calls, Loads, QueueTypeOK
  <2>7. CallAsks(c)'  BY <2>1, <2>5 DEF CallAsks
  <2> QED BY <2>3, <2>6, <2>7 DEF AskInv
<1>2. ASSUME NEW c \in 1..MaxCalls, CreateFile(c) \/ Write(c), ask' # Null PROVE AskInv'
  <2>1. c \in Calls /\ ask' = ask /\ load' = load
        BY <1>0, <1>2, Slots DEF CreateFile, Write
  <2>2. Calls = {c} /\ Loads = {} /\ CallAsks(c)
        BY <1>0, <1>2, <2>1, Slots DEF AskInv
  <2>3. /\ \A d \in 1..MaxCalls : d # c => call'[d] = call[d]
        /\ call'[c].list = call[c].list /\ call'[c].index = call[c].index
        /\ \/ call'[c].at = "write"
           \/ call'[c].at = "play" /\ file' = call[c].list
        BY <1>0, <1>2 DEF CreateFile, Write, QueueTypeOK
  <2>4. Calls' = {c} /\ Loads' = {}
        BY <1>0, <2>1, <2>2, <2>3, Slots DEF Calls, Loads, QueueTypeOK
  <2>5. CallAsks(c)'  BY <2>1, <2>2, <2>3 DEF CallAsks
  <2> QED BY <2>4, <2>5 DEF AskInv
<1>3. ASSUME NEW c \in 1..MaxCalls, CallFails(c) PROVE AskInv'
  BY <1>3 DEF CallFails, AskInv
<1>4. CASE ask' = Null  BY <1>4 DEF AskInv
<1> QED BY <1>0, <1>1, <1>2, <1>3, <1>4, QueueConstants, Slots

LEMMA ReloadsAsk ==
  ASSUME QueueTypeOK, NEW kind \in {"index", "resume", "local"}, NEW i \in Positions, Reload(kind, i),
         UNCHANGED file, Loads = {}, Calls' = {},
         ask'.index = i, ask'.raises = (kind # "resume"),
         ask'.list = IF kind = "local" THEN Local ELSE file
  PROVE  AskInv'
<1>1. PICK l \in 1..MaxLoads : Reloads(l, kind, i)  BY ReloadTakes
<1>2. Loads' = {l} /\ load'[l].at = (IF kind = "local" THEN "query" ELSE "read")
      /\ load'[l].kind = kind /\ load'[l].index = i
  BY <1>1 DEF Reloads
<1>3. LoadAsks(l)'  BY <1>2 DEF LoadAsks
<1> QED BY <1>1, <1>2, <1>3 DEF AskInv

LEMMA RequestsAsk ==
  ASSUME ShapeInv, AskInv,
         \/ \E c \in DOMAIN call : Play(c)
         \/ \E i \in Indexes : PlayAtIndex(i)
         \/ PlayAllLocalMusic \/ Resume
  PROVE  AskInv'
<1>0. QueueTypeOK /\ QueueTypeOK' /\ 0 \in Positions /\ Resumed \in Positions /\ Indexes \subseteq Positions
  BY RequestsShaped, QueueConstants DEF ShapeInv, Positions
<1>1. ASSUME NEW c \in 1..MaxCalls, Play(c), ask' # Null PROVE AskInv'
  <2>1. /\ c \in Calls /\ ask' = ask /\ UNCHANGED file /\ Reload("index", call[c].index)
        /\ call' = [call EXCEPT ![c] = NoCall] /\ call[c].at = "play" /\ call[c].index \in Positions
        BY <1>0, <1>1, Slots DEF Play, QueueTypeOK
  <2>2. Calls = {c} /\ Loads = {} /\ CallAsks(c)
        BY <1>0, <1>1, <2>1, Slots DEF AskInv
  <2>3. \A d \in 1..MaxCalls : call'[d].at = "none"
        BY <1>0, <2>1, <2>2, Slots DEF QueueTypeOK, NoCall
  <2>4. Calls' = {}  BY <1>0, <2>3, Slots DEF Calls, QueueTypeOK
  <2> QED BY <1>0, <2>1, <2>2, <2>4, ReloadsAsk DEF CallAsks, QueueTypeOK
<1>2. ASSUME NEW kind \in {"index", "resume", "local"}, NEW i \in Positions, Reload(kind, i),
             Ask(IF kind = "local" THEN Local ELSE file, i, kind # "resume"),
             UNCHANGED <<file, call, told>>, ask' # Null
      PROVE  AskInv'
  <2>1. /\ Idle /\ ask'.list = (IF kind = "local" THEN Local ELSE file)
        /\ ask'.index = i /\ ask'.raises = (kind # "resume")
        BY <1>2, AskAlone
  <2>2. Loads = {} /\ Calls' = {}  BY <1>0, <1>2, <2>1, Slots DEF Calls
  <2> QED BY <1>0, <1>2, <2>1, <2>2, ReloadsAsk
<1>3. ASSUME NEW i \in Indexes, MoveTo(i), ask' # Null PROVE AskInv'
  <2>1. /\ Idle /\ ask # Null /\ ask' = [ask EXCEPT !.index = i]
        /\ UNCHANGED <<file, call, load, queue, source, told>>
        /\ object' = [object EXCEPT ![queue].index = i]
        BY <1>3 DEF MoveTo
  <2>2. Granted  BY <1>0, <2>1, Slots DEF AskInv
  <2>3. /\ ask'.list = ask.list /\ ask'.index = i /\ ask'.raises = ask.raises
        BY <1>0, <2>1 DEF QueueTypeOK
  <2>4. queue \in 1..MaxLoads  BY <1>0, <2>2, QueueConstants DEF QueueTypeOK, Granted
  <2>5. object'[queue].list = object[queue].list /\ object'[queue].index = i
        BY <1>0, <2>1, <2>4 DEF QueueTypeOK
  <2>6. Granted'  BY <2>1, <2>2, <2>3, <2>5 DEF Granted
  <2>7. Idle'  BY <2>1 DEF Idle, Calls, Loads
  <2> QED BY <2>6, <2>7 DEF AskInv
<1>4. CASE \E i \in Indexes : PlayAtIndex(i)
  <2>1. PICK i \in Indexes : PlayAtIndex(i)  BY <1>4
  <2>2. CASE MoveTo(i)  BY <1>3, <2>2 DEF AskInv
  <2>3. CASE ~MoveTo(i)
    <3>1. Reload("index", i) /\ Ask(file, i, TRUE) /\ UNCHANGED <<file, call, told>>
          BY <2>1, <2>3 DEF PlayAtIndex
    <3> QED BY <1>0, <1>2, <3>1 DEF AskInv
  <2> QED BY <2>2, <2>3
<1>5. CASE PlayAllLocalMusic
  BY <1>0, <1>2, <1>5 DEF PlayAllLocalMusic, AskInv
<1>6. CASE Resume
  BY <1>0, <1>2, <1>6 DEF Resume, AskInv
<1>7. CASE ask' = Null  BY <1>7 DEF AskInv
<1> QED BY <1>0, <1>1, <1>4, <1>5, <1>6, <1>7, Slots

(* The load of a request is the only one.                                  *)
LEMMA LoadOfRequest ==
  ASSUME QueueTypeOK, AskInv, ask # Null, NEW l \in Loads
  PROVE  Calls = {} /\ Loads = {l} /\ LoadAsks(l)
BY Slots DEF AskInv

LEMMA LoadsAsk ==
  ASSUME ShapeInv, AskInv, NEW l \in 1..MaxLoads, Load(l) \/ LoadFails(l)
  PROVE  AskInv'
<1>0. QueueTypeOK /\ QueueTypeOK'  BY LoadsShaped DEF ShapeInv
<1>1. CASE ask' = Null  BY <1>1 DEF AskInv
<1>2. CASE ask' # Null
  <2>1. Load(l) /\ ask' = ask /\ call' = call
        BY <1>2 DEF LoadFails, Load, Read, Query, WriteLocal, Build, SetQueue, SetSource, RaisePlaylist
  <2>2. l \in Loads
        BY <1>0, <2>1, Slots DEF Load, Read, Query, WriteLocal, Build, SetQueue, SetSource, RaisePlaylist
  <2>3. Calls = {} /\ Loads = {l} /\ LoadAsks(l)
        BY <1>0, <1>2, <2>1, <2>2, LoadOfRequest
  <2>4. Calls' = {}  BY <2>1, <2>3 DEF Calls
  <2>5. \A m \in 1..MaxLoads : m # l => load'[m] = load[m]
        BY <1>0, <2>1 DEF Load, Read, Query, WriteLocal, Build, SetQueue, SetSource, RaisePlaylist,
                          Moves, QueueTypeOK
  <2>6. ASSUME load'[l].at \notin {"none", "gone"}, LoadAsks(l)' PROVE AskInv'
    <3>1. Loads' = {l}
          BY <1>0, <2>3, <2>5, <2>6, Slots DEF Loads, QueueTypeOK
    <3> QED BY <2>4, <2>6, <3>1 DEF AskInv
  <2>7. ASSUME load'[l].at = "none", Granted' PROVE AskInv'
    <3>1. Loads' = {}
          BY <1>0, <2>3, <2>5, <2>7, Slots DEF Loads, QueueTypeOK
    <3> QED BY <1>0, <2>4, <2>7, <3>1 DEF AskInv, Idle
  <2>8. CASE Read(l)
    <3>1. load'[l].at = "build" /\ load'[l].list = file /\ load'[l].kind = load[l].kind
          /\ load'[l].index = load[l].index /\ UNCHANGED <<file, object, queue, source>>
          BY <1>0, <2>8 DEF Read, player, QueueTypeOK
    <3> QED BY <2>1, <2>3, <2>6, <2>8, <3>1 DEF LoadAsks, Read
  <2>9. CASE Query(l)
    <3>1. load'[l].at = "write" /\ load'[l].list = Local /\ load'[l].kind = load[l].kind
          /\ load'[l].index = load[l].index /\ UNCHANGED <<file, object, queue, source>>
          BY <1>0, <2>9 DEF Query, player, QueueTypeOK
    <3> QED BY <2>1, <2>3, <2>6, <2>9, <3>1 DEF LoadAsks, Query
  <2>10. CASE WriteLocal(l)
    <3>1. load'[l].at = "build" /\ load'[l].list = load[l].list /\ load'[l].kind = load[l].kind
          /\ load'[l].index = load[l].index /\ UNCHANGED <<object, queue, source>>
          /\ file' = load[l].list /\ load[l].at = "write"
          BY <1>0, <2>10 DEF WriteLocal, Moves, player, QueueTypeOK
    <3> QED BY <2>1, <2>3, <2>6, <3>1 DEF LoadAsks
  <2>11. CASE Build(l)
    <3>1. load'[l].at = "queue" /\ load'[l].list = load[l].list /\ load'[l].kind = load[l].kind
          /\ load'[l].index = load[l].index /\ UNCHANGED <<file, queue, source>>
          /\ object'[l].list = load[l].list /\ object'[l].index = load[l].index
          /\ load[l].at = "build"
          BY <1>0, <2>11 DEF Build, Moves, QueueTypeOK
    <3> QED BY <2>1, <2>3, <2>6, <3>1 DEF LoadAsks
  <2>12. CASE SetQueue(l)
    <3>1. load'[l].at = "sound" /\ load'[l].list = load[l].list /\ load'[l].kind = load[l].kind
          /\ load'[l].index = load[l].index /\ UNCHANGED <<file, object, source>> /\ queue' = l
          /\ load[l].at = "queue"
          BY <1>0, <2>12 DEF SetQueue, Moves, QueueTypeOK
    <3> QED BY <2>1, <2>3, <2>6, <3>1 DEF LoadAsks
  <2>13. CASE SetSource(l)
    <3>1. load[l].at = "sound" /\ source' = l /\ UNCHANGED <<file, object, queue, told>>
          BY <2>13 DEF SetSource
    <3>2. CASE load[l].kind = "resume"
      <4>1. load'[l].at = "none"  BY <1>0, <2>13, <3>2 DEF SetSource, QueueTypeOK, NoLoad
      <4>2. Granted'
        <5>1. l # 0  BY QueueConstants
        <5> QED BY <2>1, <2>3, <3>1, <3>2, <5>1 DEF LoadAsks, Granted
      <4> QED BY <2>7, <4>1, <4>2
    <3>3. CASE load[l].kind # "resume"
      <4>1. load'[l].at = "raise" /\ load'[l].list = load[l].list /\ load'[l].kind = load[l].kind
            /\ load'[l].index = load[l].index
            BY <1>0, <2>13, <3>3 DEF SetSource, QueueTypeOK
      <4> QED BY <2>1, <2>3, <2>6, <3>1, <4>1 DEF LoadAsks
    <3> QED BY <3>2, <3>3
  <2>14. CASE RaisePlaylist(l)
    <3>1. load[l].at = "raise" /\ load'[l].at = "none" /\ told' = load[l].list
          /\ UNCHANGED <<file, object, queue, source>>
          BY <1>0, <2>14 DEF RaisePlaylist, player, QueueTypeOK, NoLoad
    <3>2. l # 0  BY QueueConstants
    <3>3. Granted'  BY <2>1, <2>3, <3>1, <3>2 DEF LoadAsks, Granted
    <3> QED BY <2>7, <3>1, <3>3
  <2> QED BY <2>1, <2>8, <2>9, <2>10, <2>11, <2>12, <2>13, <2>14 DEF Load
<1> QED BY <1>1, <1>2

LEMMA OthersAsk ==
  ASSUME ShapeInv, AskInv, OnRepeatModeChanged \/ Restart \/ UNCHANGED queueVars
  PROVE  AskInv'
<1>0. QueueTypeOK  BY DEF ShapeInv
<1>1. CASE OnRepeatModeChanged
  <2>1. UNCHANGED <<file, call, load, queue, source, told, ask>>
        BY <1>1 DEF OnRepeatModeChanged
  <2>2. \A l \in 1..MaxLoads : object'[l].list = object[l].list /\ object'[l].index = object[l].index
    <3>1. \A l \in 1..MaxLoads : object'[l] =
             [object[l] EXCEPT !.follows = IF l = queue THEN TRUE ELSE IF InUse(l) THEN ~@ ELSE @]
          BY <1>0, <1>1, Slots DEF OnRepeatModeChanged
    <3> QED BY <1>0, <3>1 DEF QueueTypeOK
  <2>3. UNCHANGED <<Calls, Loads, Idle>>  BY <2>1 DEF Idle, Calls, Loads
  <2>4. Granted => Granted'
    <3>1. queue # 0 => queue \in 1..MaxLoads  BY <1>0, QueueConstants DEF QueueTypeOK
    <3> QED BY <2>1, <2>2, <3>1 DEF Granted
  <2>5. \A c \in 1..MaxCalls : CallAsks(c) => CallAsks(c)'  BY <2>1 DEF CallAsks
  <2>6. \A l \in 1..MaxLoads : LoadAsks(l) => LoadAsks(l)'  BY <2>1, <2>2 DEF LoadAsks
  <2> QED BY <2>1, <2>3, <2>4, <2>5, <2>6 DEF AskInv
<1>2. CASE Restart  BY <1>2 DEF Restart, AskInv
<1>3. CASE UNCHANGED queueVars
  BY <1>3 DEF queueVars, player, AskInv, Idle, Calls, Loads, Granted, CallAsks, LoadAsks
<1> QED BY <1>1, <1>2, <1>3

LEMMA RepeatsKept ==
  ASSUME ShapeInv, RepeatsAsSet, [QueueNext]_queueVars
  PROVE  RepeatsAsSet'
<1>0. QueueTypeOK /\ (queue # 0 => queue \in 1..MaxLoads)
  BY QueueConstants DEF ShapeInv, QueueTypeOK
<1>1. CASE queue' = 0 \/ modes' = FALSE  BY <1>1 DEF RepeatsAsSet
<1>2. CASE UNCHANGED <<queue, modes>> /\ UNCHANGED object
  BY <1>2 DEF RepeatsAsSet
<1>3. ASSUME NEW i \in Indexes, MoveTo(i) PROVE RepeatsAsSet'
  <2>1. queue \in 1..MaxLoads /\ UNCHANGED <<queue, modes>>  BY <1>0, <1>3 DEF MoveTo
  <2>2. object'[queue].follows = object[queue].follows  BY <1>0, <1>3, <2>1 DEF MoveTo, QueueTypeOK
  <2> QED BY <2>1, <2>2 DEF RepeatsAsSet
<1>4. ASSUME NEW l \in 1..MaxLoads, Build(l) PROVE RepeatsAsSet'
  <2>1. /\ UNCHANGED <<queue, modes>> /\ object'[l].follows = TRUE
        /\ \A m \in 1..MaxLoads : m # l => object'[m] = object[m]
        BY <1>0, <1>4 DEF Build, QueueTypeOK
  <2> QED BY <1>0, <2>1 DEF RepeatsAsSet
<1>5. ASSUME NEW l \in 1..MaxLoads, SetQueue(l) PROVE RepeatsAsSet'
  BY <1>5 DEF SetQueue, RepeatsAsSet
<1>6. CASE OnRepeatModeChanged
  <2>1. UNCHANGED queue  BY <1>6 DEF OnRepeatModeChanged
  <2>2. CASE queue # 0
    <3>1. object'[queue] = [object[queue] EXCEPT !.follows = TRUE]
      <4>1. queue \in 1..MaxLoads  BY <1>0, <2>2
      <4>2. object'[queue] = [object[queue] EXCEPT !.follows = IF queue = queue THEN TRUE
                                                     ELSE IF InUse(queue) THEN ~@ ELSE @]
            BY <1>0, <1>6, <4>1, Slots DEF OnRepeatModeChanged
      <4> QED BY <4>2
    <3>2. object'[queue].follows = TRUE  BY <1>0, <2>2, <3>1 DEF QueueTypeOK
    <3> QED BY <2>1, <3>2 DEF RepeatsAsSet
  <2> QED BY <2>1, <2>2 DEF RepeatsAsSet
<1>7. CASE \E request \in Requests : StartCall(request[1], request[2])
  BY <1>2, <1>7 DEF StartCall, player
<1>8. CASE \E c \in DOMAIN call : CreateFile(c) \/ Write(c) \/ CallFails(c) \/ Play(c)
  BY <1>1, <1>2, <1>8 DEF CreateFile, Write, CallFails, Play, Reload, player
<1>9. CASE \E l \in DOMAIN load : Load(l) \/ LoadFails(l)
  <2>1. PICK l \in 1..MaxLoads : Load(l) \/ LoadFails(l)  BY <1>0, <1>9, Slots
  <2> QED BY <1>2, <1>4, <1>5, <2>1
          DEF Load, LoadFails, Read, Query, WriteLocal, SetSource, RaisePlaylist, player
<1>10. CASE PlayAllLocalMusic \/ Resume \/ Restart
  BY <1>1, <1>10 DEF PlayAllLocalMusic, Resume, Restart, Reload
<1>11. CASE \E i \in Indexes : PlayAtIndex(i)
  BY <1>1, <1>3, <1>11 DEF PlayAtIndex, Reload
<1>12. CASE UNCHANGED queueVars  BY <1>2, <1>12 DEF queueVars, player
<1> QED BY <1>6, <1>7, <1>8, <1>9, <1>10, <1>11, <1>12 DEF QueueNext

LEMMA QueueInvHolds == QueueSpec => []QueueInv
<1>1. QueueInit => QueueInv
  <2> SUFFICES ASSUME QueueInit PROVE QueueInv  OBVIOUS
  <2>1. QueueTypeOK
    <3>1. 0 \in 0..MaxLoads  BY QueueConstants
    <3> QED BY <3>1, Blanks DEF QueueInit, QueueTypeOK
  <2>2. CallShape /\ LoadShape  BY DEF QueueInit, CallShape, LoadShape, NoCall, NoLoad
  <2> QED BY <2>1, <2>2 DEF QueueInit, QueueInv, ShapeInv, AskInv, RepeatsAsSet
<1>2. QueueInv /\ [QueueNext]_queueVars => QueueInv'
  <2> SUFFICES ASSUME QueueInv, [QueueNext]_queueVars PROVE QueueInv'  OBVIOUS
  <2>1. ShapeInv /\ AskInv /\ RepeatsAsSet /\ DOMAIN load = 1..MaxLoads
        BY Slots DEF QueueInv, ShapeInv
  <2>2. AskInv'  BY <2>1, CallsAsk, RequestsAsk, LoadsAsk, OthersAsk DEF QueueNext
  <2> QED BY <2>1, <2>2, ShapeKept, RepeatsKept DEF QueueInv
<1> QED BY <1>1, <1>2, PTL DEF QueueSpec

(* The user gets what AudioService and MusicPlayer were asked for: however *)
(* calls, loads, failures and kills have overlapped before, a request that *)
(* ran alone has its list and its position in the queue, in the player, in *)
(* the file and on the pages, and the queue repeats as it was last told.   *)
THEOREM RequestsAreGranted == QueueSpec => []PlaysAsAsked
<1>1. ASSUME QueueInv, Idle, ask # Null PROVE Granted
  BY <1>1, Slots DEF QueueInv, ShapeInv, AskInv
<1>2. QueueInv => AsAsked  BY <1>1 DEF AsAsked, Granted
<1>3. QueueInv => PlaysAsAsked  BY <1>2 DEF QueueInv, ShapeInv, PlaysAsAsked
<1> QED BY <1>3, QueueInvHolds, PTL

-----------------------------------------------------------------------------
(* The covers *)

CoverInv == CoverTypeOK /\ EmptyIsBeingWritten

CoverStep ==
  \/ \E c \in Callers, id \in CoverIds : Ensure(c, id)
  \/ \E c \in Callers :
       \/ LookForCover(c) \/ CoverNotFound(c) \/ CreateCover(c)
       \/ WriteCover(c) \/ CoverFails(c) \/ TakeCover(c)
  \/ KillCovers
  \/ UNCHANGED coverVars

(* A caller that is not writing lets no empty file down.                   *)
LEMMA NotWriting ==
  ASSUME CoverInv, NEW c \in Callers, fetch[c].at # "write",
         NEW f \in [at : {"none", "look", "download", "write", "done"}, id : CoverIds],
         fetch' = [fetch EXCEPT ![c] = f], UNCHANGED <<cover, torn>>
  PROVE  CoverInv'
<1>1. CoverTypeOK'  BY DEF CoverInv, CoverTypeOK, CoverIds
<1>2. ASSUME NEW id \in CoverIds \ torn, cover[id] = "empty"
      PROVE  \E w \in Callers : fetch'[w] = [at |-> "write", id |-> id]
  <2>1. PICK w \in Callers : fetch[w] = [at |-> "write", id |-> id]
        BY <1>2 DEF CoverInv, EmptyIsBeingWritten
  <2>2. w # c  BY <2>1
  <2> QED BY <2>1, <2>2 DEF CoverInv, CoverTypeOK
<1> QED BY <1>1, <1>2 DEF CoverInv, EmptyIsBeingWritten, CoverIds

(* Each step of EnsureCoverInCacheAsync keeps an empty file in the hands   *)
(* of a caller that writes it, or marks it torn.                           *)
LEMMA CoversKept == ASSUME CoverAssumption, CoverInv, CoverStep PROVE CoverInv'
<1> DEFINE Fetches == [at : {"none", "look", "download", "write", "done"}, id : CoverIds]
<1>1. Default \in CoverIds /\ fetch \in [Callers -> Fetches]
      BY DEF CoverIds, CoverInv, CoverTypeOK
<1>2. CASE \E c \in Callers, id \in CoverIds : Ensure(c, id)
  <2>1. PICK c \in Callers, id \in CoverIds : Ensure(c, id)  BY <1>2
  <2>2. [at |-> "look", id |-> id] \in Fetches  OBVIOUS
  <2> HIDE DEF Fetches
  <2> QED BY <2>1, <2>2, NotWriting DEF Ensure, Fetches
<1>3. ASSUME NEW c \in Callers, LookForCover(c) PROVE CoverInv'
  <2> DEFINE at == IF cover[fetch[c].id] = "none" THEN "download" ELSE "done"
             f == [fetch[c] EXCEPT !.at = at]
  <2>1. f \in [at : {"none", "look", "download", "write", "done"}, id : CoverIds]
        BY <1>1
  <2>2. fetch' = [fetch EXCEPT ![c] = f] /\ fetch[c].at # "write"
        BY <1>1, <1>3 DEF LookForCover, Fetch
  <2> HIDE DEF f
  <2> QED BY <2>1, <2>2, <1>3, NotWriting DEF LookForCover
<1>4. ASSUME NEW c \in Callers, CoverNotFound(c) PROVE CoverInv'
  <2>1. [at |-> "look", id |-> Default]
          \in [at : {"none", "look", "download", "write", "done"}, id : CoverIds]
        BY <1>1
  <2> QED BY <2>1, <1>4, NotWriting DEF CoverNotFound
<1>5. ASSUME NEW c \in Callers, CreateCover(c) PROVE CoverInv'
  <2>1. CoverTypeOK'  BY <1>1, <1>5 DEF CreateCover, Fetch, CoverInv, CoverTypeOK
  <2>2. ASSUME NEW id \in CoverIds \ torn, cover'[id] = "empty"
        PROVE  \E w \in Callers : fetch'[w] = [at |-> "write", id |-> id]
    <3>1. CASE id = fetch[c].id
          BY <1>1, <1>5, <3>1 DEF CreateCover, Fetch
    <3>2. CASE id # fetch[c].id
      <4>1. cover[id] = "empty"  BY <1>1, <1>5, <2>2, <3>2 DEF CreateCover, CoverInv, CoverTypeOK
      <4>2. PICK w \in Callers : fetch[w] = [at |-> "write", id |-> id]
            BY <2>2, <4>1 DEF CoverInv, EmptyIsBeingWritten
      <4> QED BY <1>1, <1>5, <4>2 DEF CreateCover, Fetch
    <3> QED BY <3>1, <3>2
  <2> QED BY <2>1, <2>2, <1>5 DEF CoverInv, EmptyIsBeingWritten, CreateCover, CoverIds
<1>6. ASSUME NEW c \in Callers, WriteCover(c) PROVE CoverInv'
  <2>1. CoverTypeOK'  BY <1>1, <1>6 DEF WriteCover, Fetch, CoverInv, CoverTypeOK
  <2>2. ASSUME NEW id \in CoverIds \ torn', cover'[id] = "empty"
        PROVE  \E w \in Callers : fetch'[w] = [at |-> "write", id |-> id]
    <3>1. id # fetch[c].id /\ cover[id] = "empty" /\ id \notin torn
          BY <1>1, <1>6, <2>2 DEF WriteCover, CoverInv, CoverTypeOK
    <3>2. PICK w \in Callers : fetch[w] = [at |-> "write", id |-> id]
          BY <3>1 DEF CoverInv, EmptyIsBeingWritten
    <3>3. w # c  BY <3>1, <3>2
    <3> QED BY <1>1, <1>6, <3>2, <3>3 DEF WriteCover, Fetch
  <2> QED BY <2>1, <2>2 DEF CoverInv, EmptyIsBeingWritten, CoverIds
<1>7. ASSUME NEW c \in Callers, CoverFails(c) PROVE CoverInv'
  <2>1. CoverTypeOK'  BY <1>1, <1>7 DEF CoverFails, Fetch, CoverInv, CoverTypeOK
  <2>2. ASSUME NEW id \in CoverIds \ torn', cover'[id] = "empty"
        PROVE  \E w \in Callers : fetch'[w] = [at |-> "write", id |-> id]
    <3>1. id # fetch[c].id /\ cover[id] = "empty" /\ id \notin torn
          BY <1>1, <1>7, <2>2 DEF CoverFails
    <3>2. PICK w \in Callers : fetch[w] = [at |-> "write", id |-> id]
          BY <3>1 DEF CoverInv, EmptyIsBeingWritten
    <3>3. w # c  BY <3>1, <3>2
    <3> QED BY <1>1, <1>7, <3>2, <3>3 DEF CoverFails, Fetch
  <2> QED BY <2>1, <2>2 DEF CoverInv, EmptyIsBeingWritten, CoverIds
<1>8. ASSUME NEW c \in Callers, TakeCover(c) PROVE CoverInv'
  <2>1. NoFetch \in [at : {"none", "look", "download", "write", "done"}, id : CoverIds]
        BY <1>1 DEF NoFetch
  <2> QED BY <2>1, <1>8, NotWriting DEF TakeCover
<1>9. CASE KillCovers
  BY <1>1, <1>9 DEF KillCovers, NoFetch, CoverInv, CoverTypeOK, EmptyIsBeingWritten, CoverIds
<1>10. CASE UNCHANGED coverVars
  BY <1>10 DEF coverVars, CoverInv, CoverTypeOK, EmptyIsBeingWritten, CoverIds
<1> QED BY <1>2, <1>3, <1>4, <1>5, <1>6, <1>7, <1>8, <1>9, <1>10 DEF CoverStep

-----------------------------------------------------------------------------
(* The mediator *)

(* A callback runs only within raise(): its thread holds the lock shared,  *)
(* which keeps the list as it is.                                          *)
CallbacksHoldTheLock == \A t \in Threads : running[t] # NoOne => t \in readers

(* What the user interface waits for is about one subscriber, which it no  *)
(* longer holds when it unregisters it; and each it holds is registered.   *)
HeldAreRegistered ==
  /\ owned \subseteq registered
  /\ ui = UiIdle \/ (ui.at # "idle" /\ ui.subscriber \in Subscribers)
  /\ ui.at = "unregister" => ui.subscriber \notin owned
  /\ writer = Ui => ui # UiIdle

MediatorInv ==
  MediatorTypeOK /\ RaisedAreRegistered /\ CallbacksHoldTheLock /\ HeldAreRegistered

MediatorStep ==
  \/ \E t \in Threads :
       \/ Raise(t) \/ Return(t) \/ Destroy(t) \/ Raised(t)
       \/ \E s \in Subscribers : Invoke(t, s)
  \/ \E s \in Subscribers : Create(s) \/ Drop(s)
  \/ Claim \/ Enter \/ KillMediator
  \/ UNCHANGED mediatorVars

(* The list of subscribers does not change under a raise() that iterates   *)
(* over it, whoever comes, goes or is destroyed meanwhile.                 *)
LEMMA MediatorKept ==
  ASSUME TrackEventsAssumption, MediatorInv, MediatorStep
  PROVE  MediatorInv'
<1> USE DEF MediatorInv, RaisedAreRegistered, CallbacksHoldTheLock, HeldAreRegistered
<1>0. Ui \notin Threads /\ Ui # NoOne  BY DEF TrackEventsAssumption
<1>1. ASSUME NEW t \in Threads, Raise(t) PROVE MediatorInv'
      BY <1>0, <1>1 DEF Raise, MediatorTypeOK
<1>2. ASSUME NEW t \in Threads, Return(t) PROVE MediatorInv'
      BY <1>2 DEF Return, MediatorTypeOK
<1>3. ASSUME NEW t \in Threads, Destroy(t) PROVE MediatorInv'
      BY <1>0, <1>3 DEF Destroy, MediatorTypeOK
<1>4. ASSUME NEW t \in Threads, Raised(t) PROVE MediatorInv'
      BY <1>4 DEF Raised, MediatorTypeOK
<1>5. ASSUME NEW t \in Threads, NEW s \in Subscribers, Invoke(t, s) PROVE MediatorInv'
  <2>1. todo'[t] = todo[t] \ {s} /\ running'[t] \in {s, NoOne}
        BY <1>5 DEF Invoke, MediatorTypeOK
  <2>2. \A r \in Threads \ {t} : todo'[r] = todo[r] /\ running'[r] = running[r]
        BY <1>5 DEF Invoke, MediatorTypeOK
  <2>3. MediatorTypeOK'  BY <1>5 DEF Invoke, MediatorTypeOK
  <2>4. s \in registered /\ t \in readers /\ UNCHANGED <<readers, writer, registered, owned, ui>>
        BY <1>5 DEF Invoke
  <2>5. readers \subseteq Threads  BY DEF MediatorTypeOK
  <2> QED BY <2>1, <2>2, <2>3, <2>4, <2>5 DEF UiIdle
<1>6. ASSUME NEW s \in Subscribers, Create(s) PROVE MediatorInv'
      BY <1>6 DEF Create, UiIdle, MediatorTypeOK
<1>7. ASSUME NEW s \in Subscribers, Drop(s) PROVE MediatorInv'
      BY <1>7 DEF Drop, UiIdle, MediatorTypeOK
<1>8. CASE Claim
      BY <1>8 DEF Claim, UiIdle, MediatorTypeOK
<1>9. CASE Enter
  <2>1. CASE ui.at = "register"
        BY <1>0, <1>9, <2>1 DEF Enter, UiIdle, MediatorTypeOK
  <2>2. CASE ui.at # "register"
        BY <1>0, <1>9, <2>2 DEF Enter, UiIdle, MediatorTypeOK
  <2> QED BY <2>1, <2>2
<1>10. CASE KillMediator
      BY <1>0, <1>10 DEF KillMediator, UiIdle, MediatorTypeOK
<1>11. CASE UNCHANGED mediatorVars
      BY <1>11 DEF mediatorVars, MediatorTypeOK
<1> QED BY <1>1, <1>2, <1>3, <1>4, <1>5, <1>6, <1>7, <1>8, <1>9, <1>10, <1>11 DEF MediatorStep

-----------------------------------------------------------------------------
(* The player and the report state machine *)

PlayerTypeOK ==
  /\ ReportTypeOK
  /\ track \in Tracks \cup {NoTrack} /\ playing \in BOOLEAN
  /\ item \in [Threads -> [at : {"none", "cover", "raising", "report"},
                           track : Tracks \cup {NoTrack}]]
  /\ state \in [StateThreads -> [at : {"none", "read", "apply"}, playing : BOOLEAN]]
  /\ sure \subseteq {"track", "state"}

(* While no event has come upon the handler of an earlier one, at most one *)
(* handler is at work, and it brings the player's own item.                *)
TrackUnderWay ==
  "track" \in sure =>
    /\ \A g, h \in Threads : item[g] # NoItem /\ item[h] # NoItem => g = h
    /\ \A h \in Threads : item[h] # NoItem => item[h].track = track

(* The same for the state, which a handler reads when it has begun.        *)
StateUnderWay ==
  "state" \in sure =>
    /\ \A g, h \in StateThreads : state[g] # NoState /\ state[h] # NoState => g = h
    /\ \A h \in StateThreads : state[h].at = "apply" => state[h].playing = playing

PlayerInv ==
  PlayerTypeOK /\ FollowsThePlayer /\ HeardIsReported /\ TrackUnderWay /\ StateUnderWay

playerVars == <<track, playing, item, state, sure, reportVars>>

(* Raising a track and having raised it change no more than where the      *)
(* handler is.                                                             *)
LEMMA HandlerMovesOn ==
  ASSUME PlayerInv, NEW h \in Threads, NEW at \in {"raising", "report"}, Goes(h, at),
         item[h].at # "none", UNCHANGED <<track, playing, state, sure, reportVars>>
  PROVE  PlayerInv'
<1>1. PlayerTypeOK'
  BY DEF PlayerInv, PlayerTypeOK, ReportTypeOK, reportVars, Goes
<1>2. \A g \in Threads : item'[g].track = item[g].track /\ (g # h => item'[g] = item[g])
  BY DEF PlayerInv, PlayerTypeOK, Goes
<1>3. item[h] # NoItem /\ item'[h] # NoItem
  BY DEF PlayerInv, PlayerTypeOK, Goes, NoItem
<1>4. FollowsThePlayer' /\ HeardIsReported'
  BY <1>3 DEF PlayerInv, FollowsThePlayer, HeardIsReported, ItemsIdle, StatesIdle, reportVars, NoState
<1>5. TrackUnderWay'
  BY <1>2, <1>3 DEF PlayerInv, TrackUnderWay
<1>6. StateUnderWay'
  BY DEF PlayerInv, StateUnderWay, NoState
<1> QED BY <1>1, <1>4, <1>5, <1>6 DEF PlayerInv

(* A handler of a changed item begins.                                     *)
LEMMA ItemEvent ==
  ASSUME PlayerInv, NEW h \in Threads, NEW t \in Tracks \cup {NoTrack}, CurrentItemChanged(h, t)
  PROVE  PlayerInv'
<1>1. PlayerTypeOK'
  BY DEF PlayerInv, PlayerTypeOK, ReportTypeOK, reportVars, CurrentItemChanged
<1>2. item'[h].at # "none" /\ item'[h].track = t /\ item'[h] # NoItem
      /\ \A g \in Threads : g # h => item'[g] = item[g]
  BY DEF PlayerInv, PlayerTypeOK, CurrentItemChanged, NoItem
<1>3. FollowsThePlayer' /\ HeardIsReported'
  <2>1. UNCHANGED <<playing, state, currentTrackId, isPlaying, entry, owed>>
        /\ ("state" \in sure' => "state" \in sure)
        BY DEF CurrentItemChanged, reportVars
  <2>2. ~ItemsIdle'  BY <1>2 DEF ItemsIdle, NoItem
  <2> QED BY <2>1, <2>2 DEF PlayerInv, FollowsThePlayer, HeardIsReported, StatesIdle, NoState
<1>4. TrackUnderWay'
  <2>1. SUFFICES ASSUME "track" \in sure' PROVE TrackUnderWay'
        BY DEF TrackUnderWay
  <2>2. ItemsIdle /\ track' = t  BY <2>1 DEF CurrentItemChanged
  <2>3. \A g \in Threads : item'[g] # NoItem => g = h
        BY <1>2, <2>2 DEF ItemsIdle
  <2> QED BY <1>2, <2>2, <2>3 DEF TrackUnderWay, NoItem
<1>5. StateUnderWay'
  <2>1. UNCHANGED <<playing, state>> /\ ("state" \in sure' => "state" \in sure)
        BY DEF CurrentItemChanged
  <2> QED BY <2>1 DEF PlayerInv, StateUnderWay, NoState
<1> QED BY <1>1, <1>3, <1>4, <1>5 DEF PlayerInv

(* The report state machine is told of a track.                            *)
LEMMA TrackReported ==
  ASSUME PlayerInv, NEW h \in Threads, ReportTrack(h)
  PROVE  PlayerInv'
<1>1. item[h].track \in Tracks \cup {NoTrack} /\ item[h] # NoItem
  BY DEF PlayerInv, PlayerTypeOK, ReportTrack, NoItem
<1>2. PlayerTypeOK'
  BY <1>1 DEF PlayerInv, PlayerTypeOK, ReportTypeOK, ReportTrack, OnActiveTrackChanged,
         CommitCurrentPlaybackEntry, NoItem
<1>3. item'[h] = NoItem /\ \A g \in Threads : g # h => item'[g] = item[g]
  BY DEF PlayerInv, PlayerTypeOK, ReportTrack
<1>4. FollowsThePlayer' /\ HeardIsReported'
  <2>1. "track" \in sure => currentTrackId' = track
        BY <1>1 DEF PlayerInv, TrackUnderWay, ReportTrack, OnActiveTrackChanged
  <2>2. owed' = {}
        BY DEF PlayerInv, HeardIsReported, ReportTrack, OnActiveTrackChanged,
               CommitCurrentPlaybackEntry
  <2> QED BY <2>1, <2>2 DEF PlayerInv, FollowsThePlayer, HeardIsReported, ReportTrack,
             OnActiveTrackChanged, StatesIdle, NoState
<1>5. TrackUnderWay'
  BY <1>3 DEF PlayerInv, TrackUnderWay, ReportTrack, NoItem
<1>6. StateUnderWay'
  BY DEF PlayerInv, StateUnderWay, ReportTrack, NoState
<1> QED BY <1>2, <1>4, <1>5, <1>6 DEF PlayerInv

(* A handler of a changed state begins, reads the player's state without   *)
(* the mutex and applies what it has read.                                 *)
LEMMA StateEvent ==
  ASSUME PlayerInv, NEW h \in StateThreads, CurrentStateChanged(h)
  PROVE  PlayerInv'
<1>1. PlayerTypeOK'
  BY DEF PlayerInv, PlayerTypeOK, ReportTypeOK, reportVars, CurrentStateChanged
<1>2. state'[h].at = "read" /\ state'[h] # NoState
      /\ \A g \in StateThreads : g # h => state'[g] = state[g]
  BY DEF PlayerInv, PlayerTypeOK, CurrentStateChanged, NoState
<1>3. UNCHANGED <<track, item, currentTrackId, isPlaying, entry, owed>>
      /\ ("track" \in sure' => "track" \in sure)
  BY DEF CurrentStateChanged, reportVars
<1>4. FollowsThePlayer' /\ HeardIsReported'
  <2>1. ~StatesIdle'  BY <1>2 DEF StatesIdle, NoState
  <2> QED BY <1>3, <2>1 DEF PlayerInv, FollowsThePlayer, HeardIsReported, ItemsIdle, NoItem
<1>5. TrackUnderWay'
  BY <1>3 DEF PlayerInv, TrackUnderWay, NoItem
<1>6. StateUnderWay'
  <2>1. SUFFICES ASSUME "state" \in sure' PROVE StateUnderWay'
        BY DEF StateUnderWay
  <2>2. StatesIdle  BY <2>1 DEF CurrentStateChanged
  <2>3. \A g \in StateThreads : g # h => state'[g] = NoState
        BY <1>2, <2>2 DEF StatesIdle
  <2> QED BY <1>2, <2>3 DEF StateUnderWay, NoState
<1> QED BY <1>1, <1>4, <1>5, <1>6 DEF PlayerInv

LEMMA StateRead ==
  ASSUME PlayerInv, NEW h \in StateThreads, ReadState(h)
  PROVE  PlayerInv'
<1>1. PlayerTypeOK'
  BY DEF PlayerInv, PlayerTypeOK, ReportTypeOK, reportVars, ReadState
<1>2. state[h] # NoState /\ state'[h] = [at |-> "apply", playing |-> playing]
      /\ \A g \in StateThreads : g # h => state'[g] = state[g]
  BY DEF PlayerInv, PlayerTypeOK, ReadState, NoState
<1>3. UNCHANGED <<track, playing, item, sure, currentTrackId, isPlaying, entry, owed>>
  BY DEF ReadState, reportVars
<1>4. FollowsThePlayer' /\ HeardIsReported'
  <2>1. ~StatesIdle'  BY <1>2 DEF StatesIdle, NoState
  <2> QED BY <1>3, <2>1 DEF PlayerInv, FollowsThePlayer, HeardIsReported, ItemsIdle, NoItem
<1>5. TrackUnderWay'
  BY <1>3 DEF PlayerInv, TrackUnderWay, NoItem
<1>6. StateUnderWay'
  BY <1>2, <1>3 DEF PlayerInv, StateUnderWay, NoState
<1> QED BY <1>1, <1>4, <1>5, <1>6 DEF PlayerInv

LEMMA StateApplied ==
  ASSUME PlayerInv, NEW h \in StateThreads, ApplyState(h)
  PROVE  PlayerInv'
<1>1. state[h].playing \in BOOLEAN /\ state[h] # NoState
  BY DEF PlayerInv, PlayerTypeOK, ApplyState, NoState
<1>2. PlayerTypeOK'
  BY <1>1 DEF PlayerInv, PlayerTypeOK, ReportTypeOK, ApplyState, OnMediaPlayerStateChanged,
         CommitCurrentPlaybackEntry, NoState
<1>3. state'[h] = NoState /\ \A g \in StateThreads : g # h => state'[g] = state[g]
  BY DEF PlayerInv, PlayerTypeOK, ApplyState
<1>4. UNCHANGED <<track, playing, item, sure, currentTrackId>>
      /\ isPlaying' = state[h].playing
  BY DEF ApplyState, OnMediaPlayerStateChanged
<1>5. FollowsThePlayer' /\ HeardIsReported'
  <2>1. "state" \in sure => isPlaying' = playing
        BY <1>4 DEF PlayerInv, StateUnderWay, ApplyState
  <2>2. owed' = {}
        BY DEF PlayerInv, HeardIsReported, ApplyState, OnMediaPlayerStateChanged,
               CommitCurrentPlaybackEntry
  <2>3. entry' = IF isPlaying' THEN currentTrackId' ELSE NoTrack
        BY DEF ApplyState, OnMediaPlayerStateChanged
  <2> QED BY <1>4, <2>1, <2>2, <2>3 DEF PlayerInv, FollowsThePlayer, HeardIsReported,
             ItemsIdle, NoItem
<1>6. TrackUnderWay'
  BY <1>4 DEF PlayerInv, TrackUnderWay, NoItem
<1>7. StateUnderWay'
  BY <1>3, <1>4 DEF PlayerInv, StateUnderWay, NoState
<1> QED BY <1>2, <1>5, <1>6, <1>7 DEF PlayerInv

(* What is heard belongs to the entry that runs.                           *)
LEMMA Listened == ASSUME PlayerInv, Listen PROVE PlayerInv'
<1>1. currentTrackId = track /\ isPlaying = TRUE /\ entry = track /\ track \in Tracks
  BY DEF PlayerInv, PlayerTypeOK, FollowsThePlayer, Listen, Settled
<1>2. owed' = owed \cup {track}
      /\ UNCHANGED <<track, playing, item, state, sure, currentTrackId, isPlaying, entry>>
  BY DEF Listen, Hear, handlers
<1>3. PlayerTypeOK'
  BY <1>1, <1>2 DEF PlayerInv, PlayerTypeOK, ReportTypeOK
<1>4. FollowsThePlayer' /\ TrackUnderWay' /\ StateUnderWay'
  BY <1>2 DEF PlayerInv, FollowsThePlayer, TrackUnderWay, StateUnderWay, ItemsIdle,
         StatesIdle, NoItem, NoState
<1>5. HeardIsReported'
  BY <1>1, <1>2 DEF PlayerInv, HeardIsReported
<1> QED BY <1>3, <1>4, <1>5 DEF PlayerInv

LEMMA PlayerFrame == ASSUME PlayerInv, UNCHANGED playerVars PROVE PlayerInv'
BY DEF PlayerInv, PlayerTypeOK, ReportTypeOK, FollowsThePlayer, HeardIsReported, TrackUnderWay,
       StateUnderWay, ItemsIdle, StatesIdle, NoItem, NoState, playerVars, reportVars

LEMMA PlayerKilled == ASSUME Kill PROVE PlayerInv'
BY DEF Kill, KillReports, PlayerInv, PlayerTypeOK, ReportTypeOK, FollowsThePlayer,
       HeardIsReported, TrackUnderWay, StateUnderWay, ItemsIdle, StatesIdle, NoItem, NoState

-----------------------------------------------------------------------------
(* Every step of the system is a step of each of its parts. *)

LEMMA StepsOfTheCovers == ASSUME TrackEventsAssumption, [Next]_vars PROVE CoverStep
<1> USE DEF CoverStep
<1>0. Callers = Threads /\ \A t \in Tracks : AlbumOf[t] \in CoverIds
  BY DEF TrackEventsAssumption, CoverIds
<1>1. ASSUME NEW h \in Threads, NEW t \in Tracks \cup {NoTrack}, CurrentItemChanged(h, t)
      PROVE  CoverStep
  BY <1>0, <1>1 DEF CurrentItemChanged
<1>2. ASSUME NEW h \in Threads, Step(h) PROVE CoverStep
  BY <1>0, <1>2 DEF Step, RaiseTrack, TrackRaised, ReportTrack, Covers, Pages
<1>3. ASSUME NEW h \in Threads, Covers(CoverFails(h)) PROVE CoverStep
  BY <1>0, <1>3 DEF Covers
<1>4. ASSUME NEW h \in StateThreads, CurrentStateChanged(h) \/ ReadState(h) \/ ApplyState(h)
      PROVE  CoverStep
  BY <1>4 DEF CurrentStateChanged, ReadState, ApplyState
<1>5. CASE \/ \E s \in Subscribers : Pages(Create(s)) \/ Pages(Drop(s))
           \/ Pages(Claim) \/ Pages(Enter) \/ Listen \/ Kill \/ UNCHANGED vars
  BY <1>5 DEF Pages, Listen, Kill, vars
<1> QED BY <1>1, <1>2, <1>3, <1>4, <1>5 DEF Next

LEMMA StepsOfTheMediator == ASSUME [Next]_vars PROVE MediatorStep
<1> USE DEF MediatorStep
<1>1. ASSUME NEW h \in Threads, NEW t \in Tracks \cup {NoTrack}, CurrentItemChanged(h, t)
      PROVE  MediatorStep
  BY <1>1 DEF CurrentItemChanged
<1>2. ASSUME NEW h \in Threads, Step(h) PROVE MediatorStep
  BY <1>2 DEF Step, RaiseTrack, TrackRaised, ReportTrack, Covers, Pages
<1>3. ASSUME NEW h \in Threads, Covers(CoverFails(h)) PROVE MediatorStep
  BY <1>3 DEF Covers
<1>4. ASSUME NEW h \in StateThreads, CurrentStateChanged(h) \/ ReadState(h) \/ ApplyState(h)
      PROVE  MediatorStep
  BY <1>4 DEF CurrentStateChanged, ReadState, ApplyState
<1>5. CASE \/ \E s \in Subscribers : Pages(Create(s)) \/ Pages(Drop(s))
           \/ Pages(Claim) \/ Pages(Enter) \/ Listen \/ Kill \/ UNCHANGED vars
  BY <1>5 DEF Pages, Listen, Kill, vars
<1> QED BY <1>1, <1>2, <1>3, <1>4, <1>5 DEF Next

LEMMA StepsOfThePlayer == ASSUME PlayerInv, [Next]_vars PROVE PlayerInv'
<1>1. ASSUME NEW h \in Threads, Step(h) PROVE PlayerInv'
  <2>1. CASE RaiseTrack(h)  BY <2>1, HandlerMovesOn DEF RaiseTrack
  <2>2. CASE TrackRaised(h)  BY <2>2, HandlerMovesOn DEF TrackRaised
  <2>3. CASE ReportTrack(h)  BY <2>3, TrackReported
  <2>4. CASE UNCHANGED playerVars  BY <2>4, PlayerFrame
  <2> QED BY <1>1, <2>1, <2>2, <2>3, <2>4 DEF Step, Covers, Pages, handlers, playerVars
<1>2. CASE \/ \E h \in Threads : Covers(CoverFails(h))
           \/ \E s \in Subscribers : Pages(Create(s)) \/ Pages(Drop(s))
           \/ Pages(Claim) \/ Pages(Enter) \/ UNCHANGED vars
  BY <1>2, PlayerFrame DEF Covers, Pages, handlers, playerVars, vars, reportVars
<1> QED BY <1>1, <1>2, ItemEvent, StateEvent, StateRead, StateApplied, Listened, PlayerKilled
        DEF Next

-----------------------------------------------------------------------------
(* The theorems *)

EventsInv == CoverInv /\ MediatorInv /\ PlayerInv

(* Whatever the application does, the three invariants hold together.      *)
THEOREM EventsInvHolds == Spec => []EventsInv
<1> USE CoverAssumption, TrackEventsAssumption
<1>1. Init => EventsInv
  <2> SUFFICES ASSUME Init PROVE EventsInv  OBVIOUS
  <2>1. CoverInv
    BY DEF Init, CoverInit, CoverInv, CoverTypeOK, CoverIds, NoFetch, EmptyIsBeingWritten
  <2>2. MediatorInv
    BY DEF Init, MediatorInit, MediatorInv, MediatorTypeOK, UiIdle, RaisedAreRegistered,
           CallbacksHoldTheLock, HeldAreRegistered, TrackEventsAssumption
  <2>3. PlayerInv
    BY DEF Init, ReportInit, PlayerInv, PlayerTypeOK, ReportTypeOK, FollowsThePlayer,
           HeardIsReported, TrackUnderWay, StateUnderWay, ItemsIdle, StatesIdle, NoItem, NoState
  <2> QED BY <2>1, <2>2, <2>3 DEF EventsInv
<1>2. EventsInv /\ [Next]_vars => EventsInv'
  BY CoversKept, MediatorKept, StepsOfTheCovers, StepsOfTheMediator, StepsOfThePlayer DEF EventsInv
<1> QED BY <1>1, <1>2, PTL DEF Spec

(* The invariant the model checker checks, for every value of the          *)
(* constants: the report state machine follows the player, no track that   *)
(* was heard is without an entry or a report, no cover stays empty, and    *)
(* raise() iterates over what is registered (OnCurrentPlaylistItemChanged, *)
(* onWmpStateChanged and what they call).                                  *)
THEOREM EventsFollowed == Spec => []Inv
<1>1. EventsInv => Inv
  BY DEF EventsInv, Inv, TypeOK, CoverInv, MediatorInv, PlayerInv, PlayerTypeOK
<1> QED BY <1>1, EventsInvHolds, PTL

(* No subscriber the user interface holds is left out by a raise(): it is  *)
(* registered from the end of its constructor to the beginning of its      *)
(* destructor (Mediator.h).                                                *)
THEOREM SubscribersAreCalled == Spec => [](owned \subseteq registered)
<1>1. EventsInv => owned \subseteq registered
  BY DEF EventsInv, MediatorInv, HeldAreRegistered
<1> QED BY <1>1, EventsInvHolds, PTL
=============================================================================
