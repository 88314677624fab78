--------------------------- MODULE StreamOwnership ---------------------------
(***************************************************************************)
(* The ownership lock of HttpCacheStateMachine (CachedStreamProvider.cpp): *)
(* an asynchronous lock on the cache file of one streamed track.  A reader *)
(* (a ReadBlockAsync coroutine) asks for the file together with the number *)
(* of leading bytes it needs; a writer (the download coroutine) asks for   *)
(* it to append what it received.  Nobody blocks: a refused request leaves *)
(* a task_completion_event in _pendingReaders or _pendingWriters, and the  *)
(* destructor of the current Ownership sets the next one.                  *)
(*                                                                         *)
(* The body of each operation that holds _mutex is one action.  A set      *)
(* event does not resume its coroutine at once: between the two the client *)
(* is "granted", and the state machine may be destroyed before it resumes. *)
(***************************************************************************)
EXTENDS Naturals, Sequences, SequencesExt

CONSTANTS
  Readers,   (* coroutines that read the file                     *)
  Writers,   (* coroutines that write it                          *)
  MaxSize    (* largest size of the file; bounds localSize        *)

ASSUME ClientsAssumption ==
  /\ Readers \cap Writers = {}
  /\ MaxSize \in Nat

Clients == Readers \cup Writers

VARIABLES
  streamState,     (* _streamState                                           *)
  localSize,       (* _track.local_size: bytes readers may rely on           *)
  pendingReaders,  (* _pendingReaders: readers whose event is not set yet    *)
  pendingWriters,  (* _pendingWriters                                        *)
  need,            (* count + position of each reader's current request      *)
  phase,           (* where each client's coroutine is                       *)
  alive            (* the state machine still has a strong reference         *)

lockVars == <<streamState, pendingReaders, pendingWriters, need, phase>>
vars == <<streamState, localSize, pendingReaders, pendingWriters, need,
          phase, alive>>

StreamStates == {"Idle", "Reading", "Writing"}
Phases == {"out", "waiting", "granted", "owner", "cancelled"}

TypeOK ==
  /\ streamState \in StreamStates
  /\ localSize \in 0..MaxSize
  /\ pendingReaders \in Seq(Readers)
  /\ pendingWriters \in Seq(Writers)
  /\ need \in [Readers -> Nat]
  /\ phase \in [Clients -> Phases]
  /\ alive \in BOOLEAN

Init ==
  /\ streamState = "Idle"
  /\ localSize \in 0..MaxSize
  /\ pendingReaders = <<>>
  /\ pendingWriters = <<>>
  /\ need = [r \in Readers |-> 0]
  /\ phase = [c \in Clients |-> "out"]
  /\ alive = TRUE

-----------------------------------------------------------------------------
(* Requests: the synchronous part of TakeWriteOwnershipAsync and           *)
(* TakeReadOwnershipAsync, up to the co_await.                             *)

(* Mutant: the state is not tested before it is taken. *)
TakeWriteOwnershipUntested(w) ==
  /\ alive
  /\ phase[w] = "out"
  /\ streamState' = "Writing"
  /\ phase' = [phase EXCEPT ![w] = "granted"]
  /\ UNCHANGED <<pendingWriters, localSize, pendingReaders, need, alive>>

TakeWriteOwnership(w) ==
  /\ alive
  /\ phase[w] = "out"
  /\ \/ /\ streamState = "Idle"
        /\ streamState' = "Writing"
        /\ phase' = [phase EXCEPT ![w] = "granted"]
        /\ UNCHANGED pendingWriters
     \/ /\ streamState # "Idle"
        /\ pendingWriters' = Append(pendingWriters, w)
        /\ phase' = [phase EXCEPT ![w] = "waiting"]
        /\ UNCHANGED streamState
  /\ UNCHANGED <<localSize, pendingReaders, need, alive>>

TakeReadOwnership(r, required) ==
  /\ alive
  /\ phase[r] = "out"
  /\ need' = [need EXCEPT ![r] = required]
  /\ \/ /\ streamState = "Idle" /\ localSize >= required
        /\ streamState' = "Reading"
        /\ phase' = [phase EXCEPT ![r] = "granted"]
        /\ UNCHANGED pendingReaders
     \/ /\ ~(streamState = "Idle" /\ localSize >= required)
        /\ pendingReaders' = Append(pendingReaders, r)
        /\ phase' = [phase EXCEPT ![r] = "waiting"]
        /\ UNCHANGED streamState
  /\ UNCHANGED <<localSize, pendingWriters, alive>>

(* The coroutine continues after its event: it becomes an owner, or is     *)
(* cancelled when the weak reference to the state machine has expired.     *)
Resume(c) ==
  /\ phase[c] = "granted"
  /\ phase' = [phase EXCEPT ![c] = IF alive THEN "owner" ELSE "cancelled"]
  /\ UNCHANGED <<streamState, localSize, pendingReaders, pendingWriters, need, alive>>

-----------------------------------------------------------------------------
(* ~Ownership: hand the file to the first pending reader whose bytes are   *)
(* there, else to the first pending writer, else leave it idle.            *)

Servable == {i \in DOMAIN pendingReaders : need[pendingReaders[i]] <= localSize}

(* Mutant: the oldest reader, whatever it needs. *)
FirstPending(i) == i = 1

FirstServable(i) == i \in Servable /\ \A j \in Servable : i <= j

HandToReader(c) ==
  \E i \in DOMAIN pendingReaders :
    /\ FirstServable(i)
    /\ streamState' = "Reading"
    /\ phase' = [phase EXCEPT ![c] = "out", ![pendingReaders[i]] = "granted"]
    /\ pendingReaders' = RemoveAt(pendingReaders, i)
    /\ UNCHANGED pendingWriters

(* Mutant: the writer is erased from the list but its event is not set. *)
HandToWriterUnset(c) ==
  /\ Servable = {}
  /\ pendingWriters # <<>>
  /\ streamState' = "Idle"
  /\ phase' = [phase EXCEPT ![c] = "out"]
  /\ pendingWriters' = Tail(pendingWriters)
  /\ UNCHANGED pendingReaders

HandToWriter(c) ==
  /\ Servable = {}
  /\ pendingWriters # <<>>
  /\ streamState' = "Writing"
  /\ phase' = [phase EXCEPT ![c] = "out", ![Head(pendingWriters)] = "granted"]
  /\ pendingWriters' = Tail(pendingWriters)
  /\ UNCHANGED pendingReaders

(* Mutant: pending clients are forgotten. *)
LeaveIdleAlways(c) ==
  /\ streamState' = "Idle"
  /\ phase' = [phase EXCEPT ![c] = "out"]
  /\ UNCHANGED <<pendingReaders, pendingWriters>>

LeaveIdle(c) ==
  /\ Servable = {}
  /\ pendingWriters = <<>>
  /\ streamState' = "Idle"
  /\ phase' = [phase EXCEPT ![c] = "out"]
  /\ UNCHANGED <<pendingReaders, pendingWriters>>

Release(c) ==
  /\ alive
  /\ phase[c] = "owner"
  /\ HandToReader(c) \/ HandToWriter(c) \/ LeaveIdle(c)
  /\ UNCHANGED <<localSize, need, alive>>

-----------------------------------------------------------------------------
(* What happens to the protected data.  The owning writer appends what it  *)
(* received (possibly nothing); initializeAsync, run by the writer outside *)
(* any ownership, resets local_size when the server's file has changed.    *)

(* Mutant: the size of the block is not limited by what the server has. *)
AppendPastEnd(w) ==
  /\ phase[w] = "owner"
  /\ localSize' \in localSize..(MaxSize + 1)
  /\ UNCHANGED <<lockVars, alive>>

AppendBlock(w) ==
  /\ phase[w] = "owner"
  /\ localSize' \in localSize..MaxSize
  /\ UNCHANGED <<lockVars, alive>>

ResetTrack(w) ==
  /\ alive
  /\ phase[w] = "out"
  /\ localSize' = 0
  /\ UNCHANGED <<lockVars, alive>>

(* The last strong reference goes away.  An owner pins the state machine   *)
(* (its frame holds a shared_ptr), a granted or waiting client does not.   *)
Drop ==
  /\ alive
  /\ \A c \in Clients : phase[c] # "owner"
  /\ alive' = FALSE
  /\ UNCHANGED <<lockVars, localSize>>

ReadRequest(r) == \E required \in 0..MaxSize : TakeReadOwnership(r, required)

Next ==
  \/ \E w \in Writers : TakeWriteOwnership(w) \/ AppendBlock(w) \/ ResetTrack(w)
  \/ \E r \in Readers : ReadRequest(r)
  \/ \E c \in Clients : Resume(c) \/ Release(c)
  \/ Drop

(* Continuations of set events are run by the thread pool, and an owner    *)
(* does one file operation and returns; requests are not fair.             *)
Fairness == \A c \in Clients : WF_vars(Resume(c)) /\ WF_vars(Release(c))

Spec == Init /\ [][Next]_vars /\ Fairness

-----------------------------------------------------------------------------
(* Properties *)

Holding == {c \in Clients : phase[c] \in {"granted", "owner"}}

(* At most one coroutine uses the shared file stream (its position, seek   *)
(* and read or write) at a time, granted-but-not-resumed included.         *)
SingleOwner == \A c, d \in Holding : c = d

(* _streamState tells who holds the file: a lock nobody holds is never     *)
(* left Reading or Writing, or every later request would wait for ever.    *)
StateMatchesHolder ==
  alive =>
    /\ streamState = "Idle"    => Holding = {}
    /\ streamState = "Reading" => \E r \in Readers : Holding = {r}
    /\ streamState = "Writing" => \E w \in Writers : Holding = {w}

(* No wakeup is lost: while the lock is idle no writer waits, and a        *)
(* waiting reader waits for bytes that are not downloaded yet.             *)
NoLostWakeup ==
  (alive /\ streamState = "Idle") =>
    /\ pendingWriters = <<>>
    /\ \A i \in DOMAIN pendingReaders : need[pendingReaders[i]] > localSize

(* Every waiting coroutine has its event in exactly one place of its list, *)
(* and a listed event is never one that has been set already: a client     *)
(* that left the list without being granted would never be resumed.        *)
WaitersListed ==
  alive =>
    /\ \A r \in Readers : phase[r] = "waiting" <=> \E i \in DOMAIN pendingReaders : pendingReaders[i] = r
    /\ \A w \in Writers : phase[w] = "waiting" <=> \E i \in DOMAIN pendingWriters : pendingWriters[i] = w
    /\ \A i, j \in DOMAIN pendingReaders : pendingReaders[i] = pendingReaders[j] => i = j
    /\ \A i, j \in DOMAIN pendingWriters : pendingWriters[i] = pendingWriters[j] => i = j

(* A reader is granted the file only when all the bytes it asked for are   *)
(* below local_size at that moment.                                        *)
GrantHasBytes ==
  [][\A r \in Readers :
       phase[r] # "granted" /\ phase'[r] = "granted" => need'[r] <= localSize]_vars

(* A waiting reader whose bytes are there is eventually served, unless the *)
(* bytes are thrown away or the state machine is destroyed.                *)
ReaderServed ==
  \A r \in Readers :
    (phase[r] = "waiting" /\ need[r] <= localSize)
      ~> (phase[r] # "waiting" \/ need[r] > localSize \/ ~alive)

(* The media pipeline reads one block at a time.                           *)
OneReadAtATime ==
  \A r, s \in Readers :
    {phase[r], phase[s]} \subseteq {"waiting", "granted", "owner"} => r = s

(* The download makes progress: a waiting writer eventually gets the file, *)
(* if from some time on reads come one at a time.  (Readers go first: two  *)
(* that overlap for ever starve the writer.)                               *)
WriterServed ==
  <>[]OneReadAtATime =>
    \A w \in Writers : phase[w] = "waiting" ~> (phase[w] # "waiting" \/ ~alive)

(* Nobody whom the lock can serve waits for ever, with a state machine     *)
(* destroyed at any time as the only excuse.                               *)
Served == ReaderServed /\ WriterServed

=============================================================================
