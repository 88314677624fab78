------------------------------ MODULE Mediator ------------------------------
(***************************************************************************)
(* Mediator.h: subscribers register and unregister under an exclusive      *)
(* lock, raise() runs their callbacks under the same lock held shared, on  *)
(* the raising thread.  The lock is std::shared_timed_mutex of the MSVC    *)
(* library: a thread that asks for it exclusively first keeps new readers  *)
(* out, then waits for those inside.                                       *)
(*                                                                         *)
(* A subscriber is an object behind a weak pointer, which holds its own    *)
(* registration (TracksPlaybackStateManager, BackgroundImagePool): its     *)
(* destructor, on the thread that drops the last reference, unregisters.   *)
(***************************************************************************)
EXTENDS FiniteSets

CONSTANTS
  Threads,      (* threads that raise                        *)
  Ui,           (* the thread that creates and drops subscribers *)
  Subscribers,
  NoOne

VARIABLES
  readers,      (* threads in raise(), the lock held shared                 *)
  writer,       (* the thread that has asked for the lock exclusively       *)
  todo,         (* the callbacks each raise() has still to run              *)
  registered,   (* _callbacks                                               *)
  owned,        (* subscribers that the user interface holds                *)
  running,      (* the subscriber whose callback a thread runs              *)
  ui            (* what the user interface waits for                        *)

mediatorVars == <<readers, writer, todo, registered, owned, running, ui>>

UiIdle == [at |-> "idle", subscriber |-> NoOne]

MediatorTypeOK ==
  /\ readers \subseteq Threads /\ writer \in Threads \cup {Ui, NoOne}
  /\ todo \in [Threads -> SUBSET Subscribers]
  /\ registered \subseteq Subscribers /\ owned \subseteq Subscribers
  /\ running \in [Threads -> Subscribers \cup {NoOne}]
  /\ ui \in [at : {"idle", "register", "unregister"}, subscriber : Subscribers \cup {NoOne}]

MediatorInit ==
  /\ readers = {} /\ writer = NoOne
  /\ todo = [t \in Threads |-> {}] /\ running = [t \in Threads |-> NoOne]
  /\ registered = {} /\ owned = {} /\ ui = UiIdle

Held(s) == \E t \in Threads : running[t] = s

(* The callback has dropped the last reference: its thread waits for the   *)
(* lock exclusively that it holds shared.                                  *)
Stuck(t) == writer = t

-----------------------------------------------------------------------------
(* raise() *)

Raise(t) ==
  /\ writer = NoOne /\ t \notin readers
  /\ readers' = readers \cup {t}
  /\ todo' = [todo EXCEPT ![t] = registered]
  /\ UNCHANGED <<writer, registered, owned, running, ui>>

(* weakObj.lock() *)
Invoke(t, s) ==
  /\ t \in readers /\ running[t] = NoOne /\ s \in todo[t]
  /\ todo' = [todo EXCEPT ![t] = @ \ {s}]
  /\ running' = [running EXCEPT ![t] = IF s \in owned \/ Held(s) THEN s ELSE NoOne]
  /\ UNCHANGED <<readers, writer, registered, owned, ui>>

LastReference(t) == running[t] \notin owned /\ \A r \in Threads \ {t} : running[r] # running[t]

(* The callback returns and lets its subscriber go. *)
Return(t) ==
  /\ running[t] # NoOne
  /\ ~LastReference(t)
  /\ running' = [running EXCEPT ![t] = NoOne]
  /\ UNCHANGED <<readers, writer, todo, registered, owned, ui>>

(* The destructor runs here and asks for the lock. *)
Destroy(t) ==
  /\ running[t] # NoOne /\ LastReference(t) /\ writer = NoOne
  /\ writer' = t
  /\ UNCHANGED <<readers, todo, registered, owned, running, ui>>

Raised(t) ==
  /\ t \in readers /\ running[t] = NoOne /\ todo[t] = {}
  /\ readers' = readers \ {t}
  /\ UNCHANGED <<writer, todo, registered, owned, running, ui>>

-----------------------------------------------------------------------------
(* The user interface *)

Create(s) ==
  /\ ui = UiIdle /\ s \notin owned \cup registered /\ ~Held(s)
  /\ ui' = [at |-> "register", subscriber |-> s]
  /\ UNCHANGED <<readers, writer, todo, registered, owned, running>>

(* The destructor, unless a callback holds the subscriber. *)
Drop(s) ==
  /\ ui = UiIdle /\ s \in owned
  /\ owned' = owned \ {s}
  /\ ui' = IF Held(s) THEN UiIdle ELSE [at |-> "unregister", subscriber |-> s]
  /\ UNCHANGED <<readers, writer, todo, registered, running>>

Claim ==
  /\ ui # UiIdle /\ writer = NoOne
  /\ writer' = Ui
  /\ UNCHANGED <<readers, todo, registered, owned, running, ui>>

Enter ==
  /\ writer = Ui /\ readers = {}
  /\ writer' = NoOne /\ ui' = UiIdle
  /\ IF ui.at = "register"
     THEN registered' = registered \cup {ui.subscriber} /\ owned' = owned \cup {ui.subscriber}
     ELSE registered' = registered \ {ui.subscriber} /\ UNCHANGED owned
  /\ UNCHANGED <<readers, todo, running>>

KillMediator ==
  /\ readers' = {} /\ writer' = NoOne
  /\ todo' = [t \in Threads |-> {}] /\ running' = [t \in Threads |-> NoOne]
  /\ registered' = {} /\ owned' = {} /\ ui' = UiIdle

(* What raise() iterates over does not change meanwhile, and a callback    *)
(* runs only for an object that lives and is registered.                   *)
RaisedAreRegistered ==
  \A t \in readers : todo[t] \subseteq registered
                     /\ (running[t] # NoOne => running[t] \in registered)
=============================================================================
