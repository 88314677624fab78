------------------------------ MODULE JobQueue ------------------------------
(***************************************************************************)
(* The database context of UWP-LocalDB: a connection that only one worker  *)
(* thread uses, the queue of jobs any thread may submit (SqliteJobQueue),  *)
(* the transaction scope jobs use (SynchronousTransactionScope), and the   *)
(* destruction of the context.                                             *)
(*                                                                         *)
(* The worker's steps are those of SqliteJobQueue::processUntilCancellation*)
(* between which another thread can act: it takes the mutex and looks at   *)
(* the queue, it waits on the condition variable, it runs a job statement  *)
(* by statement.  A "plain" job executes one statement outside any         *)
(* transaction scope, a "scope" job executes two inside one.               *)
(***************************************************************************)
EXTENDS Naturals, Sequences, FiniteSets

CONSTANTS
  Plain,      (* jobs of one statement                                      *)
  Scoped,     (* jobs of two statements in a transaction scope              *)
  Pinning,    (* jobs whose function object holds a copy of the context     *)
  NoJob,
  Ephemeral,  (* the user's copies of the context may go out of scope       *)
  Faults      (* what SQLite may answer, out of the set below               *)

(* "error": a statement fails, or a cancelled token stops the job; "abort":*)
(* a statement fails and SQLite rolls the transaction back by itself (disk *)
(* full, I/O error); "busy": COMMIT fails and the transaction stays open.  *)
AllFaults == {"error", "abort", "busy"}

Jobs == Plain \cup Scoped

ASSUME JobsAssumption ==
  /\ Plain \cap Scoped = {}
  /\ Pinning \subseteq Jobs
  /\ NoJob \notin Jobs
  /\ Ephemeral \in BOOLEAN
  /\ Faults \subseteq AllFaults

Statements(j) == {j} \X (IF j \in Plain THEN {1} ELSE {1, 2})

VARIABLES
  queue,     (* _jobs                                                       *)
  status,    (* what the task of each job says                              *)
  worker,    (* where the worker thread is                                  *)
  running,   (* toProcess                                                   *)
  at,        (* what the running job does next                              *)
  tx,        (* the job that opened the connection's transaction, or NoJob  *)
  pending,   (* statements executed in the open transaction                 *)
  durable,   (* statements whose effect is in the database                  *)
  wasBusy,   (* a COMMIT was busy (for the properties only)                 *)
  context    (* life of DBContext::impl                                     *)

connection == <<tx, pending, durable, wasBusy>>
vars == <<queue, status, worker, running, at, connection, context>>

TypeOK ==
  /\ queue \in Seq(Jobs)
  /\ status \in [Jobs -> {"new", "queued", "running", "done", "failed"}]
  /\ worker \in {"lock", "empty", "waiting", "run", "stopped", "terminated"}
  /\ running \in Jobs \cup {NoJob} /\ (worker = "lock" => running = NoJob)
  /\ at \in {"begin", "first", "second", "commit", "rollback"}
  /\ tx \in Scoped \cup {NoJob}
  /\ wasBusy \in BOOLEAN
  /\ pending \subseteq Jobs \X {1, 2} /\ durable \subseteq Jobs \X {1, 2}
  /\ context \in {"alive", "released", "cancelled", "joining", "destroyed"}

Init ==
  /\ queue = <<>>
  /\ status = [j \in Jobs |-> "new"]
  /\ worker = "lock" /\ running = NoJob /\ at = "begin"
  /\ tx = NoJob /\ pending = {} /\ durable = {} /\ wasBusy = FALSE
  /\ context = "alive"

-----------------------------------------------------------------------------
(* Submitting a job *)

(* The mutex is free unless the worker is between its test and its wait.   *)
Enqueue(j) ==
  /\ context = "alive" /\ status[j] = "new"
  /\ worker # "empty"
  /\ queue' = Append(queue, j)
  /\ status' = [status EXCEPT ![j] = "queued"]
  /\ worker' = IF worker = "waiting" THEN "lock" ELSE worker
  /\ UNCHANGED <<running, at, connection, context>>

-----------------------------------------------------------------------------
(* The worker's loop *)

Cancelled == context \in {"cancelled", "joining"}

TakeJob ==
  /\ worker = "lock" /\ queue # <<>>
  /\ running' = Head(queue)
  /\ queue' = Tail(queue)
  /\ status' = [status EXCEPT ![Head(queue)] = "running"]
  /\ worker' = "run"
  /\ at' = IF Head(queue) \in Scoped THEN "begin" ELSE "first"
  /\ UNCHANGED <<connection, context>>

(* Mutant: the token is tested before the queue. *)
StopAtOnce ==
  /\ worker = "lock" /\ Cancelled
  /\ worker' = "stopped"
  /\ UNCHANGED <<queue, status, running, at, connection, context>>

(* The token is only tested when the queue is empty. *)
Stop ==
  /\ worker = "lock" /\ queue = <<>> /\ Cancelled
  /\ worker' = "stopped"
  /\ UNCHANGED <<queue, status, running, at, connection, context>>

(* The token was not cancelled when it was tested; the mutex is held.      *)
DecideToWait ==
  /\ worker = "lock" /\ queue = <<>> /\ ~Cancelled
  /\ worker' = "empty"
  /\ UNCHANGED <<queue, status, running, at, connection, context>>

Wait ==
  /\ worker = "empty"
  /\ worker' = "waiting"
  /\ UNCHANGED <<queue, status, running, at, connection, context>>

(* A condition variable may wake up without being notified. *)
WakeUnnotified ==
  /\ worker = "waiting"
  /\ worker' = "lock"
  /\ UNCHANGED <<queue, status, running, at, connection, context>>

-----------------------------------------------------------------------------
(* Running a job *)

(* Mutant: the worker keeps the job it has finished. *)
FinishKeeping(result) ==
  /\ status' = [status EXCEPT ![running] = result]
  /\ worker' = "lock"
  /\ UNCHANGED <<queue, running, context>>

(* The task gets its result, then the function object is destroyed.  If it *)
(* held the last copy of the context, ~impl runs on the worker itself and  *)
(* joining itself ends the process.                                        *)
Finish(result) ==
  /\ status' = [status EXCEPT ![running] = result]
  /\ running' = NoJob
  /\ worker' = IF context = "released" /\ running \in Pinning
                  /\ \A i \in DOMAIN queue : queue[i] \notin Pinning
               THEN "terminated" ELSE "lock"
  /\ UNCHANGED <<queue, context>>

(* Mutant: the scope does not execute BEGIN. *)
BeginForgotten ==
  /\ worker = "run" /\ at = "begin"
  /\ at' = "first"
  /\ UNCHANGED <<queue, status, worker, running, connection, context>>

(* The constructor of the scope: BEGIN is refused inside a transaction,    *)
(* and a scope that was not constructed is not destroyed.                  *)
Begin ==
  /\ worker = "run" /\ at = "begin"
  /\ \/ /\ tx = NoJob
        /\ tx' = running /\ at' = "first"
        /\ UNCHANGED <<queue, status, worker, running, pending, durable, wasBusy, context>>
     \/ /\ tx # NoJob \/ "error" \in Faults
        /\ UNCHANGED <<at, connection>>
        /\ Finish("failed")

Statement == <<running, IF at = "first" THEN 1 ELSE 2>>

(* Inside a transaction, whoever opened it, an effect waits for COMMIT.    *)
Execute ==
  /\ UNCHANGED wasBusy
  /\ IF tx = NoJob
     THEN durable' = durable \cup {Statement} /\ UNCHANGED <<tx, pending>>
     ELSE pending' = pending \cup {Statement} /\ UNCHANGED <<tx, durable>>

StatementSucceeds ==
  /\ worker = "run" /\ at \in {"first", "second"}
  /\ Execute
  /\ IF running \in Plain
     THEN Finish("done") /\ UNCHANGED at
     ELSE /\ at' = IF at = "first" THEN "second" ELSE "commit"
          /\ UNCHANGED <<queue, status, worker, running, context>>

(* Mutant: the exception leaves the scope's transaction open. *)
StatementFailsOpen ==
  /\ worker = "run" /\ at \in {"first", "second"}
  /\ "error" \in Faults /\ UNCHANGED connection
  /\ UNCHANGED at /\ Finish("failed")

(* The exception unwinds the job: a scope rolls its transaction back.      *)
StatementFails ==
  /\ worker = "run" /\ at \in {"first", "second"}
  /\ \/ "error" \in Faults /\ UNCHANGED connection
     \/ "abort" \in Faults /\ tx' = NoJob /\ pending' = {} /\ UNCHANGED <<durable, wasBusy>>
  /\ IF running \in Plain
     THEN Finish("failed") /\ UNCHANGED at
     ELSE /\ at' = "rollback"
          /\ UNCHANGED <<queue, status, worker, running, context>>

(* commit() marks the scope as committed and then executes COMMIT.         *)
CommitSucceeds ==
  /\ worker = "run" /\ at = "commit"
  /\ durable' = durable \cup pending
  /\ pending' = {} /\ tx' = NoJob
  /\ UNCHANGED <<at, wasBusy>>
  /\ Finish("done")

CommitFails ==
  /\ worker = "run" /\ at = "commit"
  /\ \/ "busy" \in Faults /\ wasBusy' = TRUE /\ UNCHANGED <<tx, pending, durable>>
     \/ "abort" \in Faults /\ tx' = NoJob /\ pending' = {} /\ UNCHANGED <<durable, wasBusy>>
  /\ UNCHANGED at
  /\ Finish("failed")

(* ~SynchronousTransactionScope: ROLLBACK.  Without a transaction it is an *)
(* error, and an exception cannot leave a destructor.                      *)
Rollback ==
  /\ worker = "run" /\ at = "rollback"
  /\ IF tx # NoJob
     THEN /\ pending' = {} /\ tx' = NoJob /\ UNCHANGED <<at, durable, wasBusy>>
          /\ Finish("failed")
     ELSE /\ worker' = "terminated"
          /\ UNCHANGED <<queue, status, running, at, connection, context>>

-----------------------------------------------------------------------------
(* Destroying the context *)

(* The user's last copy goes; queued and running jobs may hold others.     *)
Release ==
  /\ Ephemeral /\ context = "alive"
  /\ context' = "released"
  /\ UNCHANGED <<queue, status, worker, running, at, connection>>

Pinned == \E j \in Pinning : status[j] = "queued" \/ running = j

(* ~impl on another thread: cancel() marks the token ...                   *)
Cancel ==
  /\ context = "released" /\ ~Pinned /\ worker # "terminated"
  /\ context' = "cancelled"
  /\ UNCHANGED <<queue, status, worker, running, at, connection>>

(* Mutant: the callback is registered on another token. *)
NotifyNobody ==
  /\ context = "cancelled"
  /\ context' = "joining"
  /\ UNCHANGED <<queue, status, worker, running, at, connection>>

(* ... then runs its callback, which notifies without taking the mutex.    *)
Notify ==
  /\ context = "cancelled"
  /\ context' = "joining"
  /\ worker' = IF worker = "waiting" THEN "lock" ELSE worker
  /\ UNCHANGED <<queue, status, running, at, connection>>

Join ==
  /\ context = "joining" /\ worker = "stopped"
  /\ context' = "destroyed"
  /\ UNCHANGED <<queue, status, worker, running, at, connection>>

Work ==
  \/ TakeJob \/ Stop \/ DecideToWait \/ Wait
  \/ Begin \/ StatementSucceeds \/ StatementFails
  \/ CommitSucceeds \/ CommitFails \/ Rollback

Next ==
  \/ \E j \in Jobs : Enqueue(j)
  \/ Work \/ WakeUnnotified
  \/ Release \/ Cancel \/ Notify \/ Join

Spec == Init /\ [][Next]_vars

(* Both threads run; a destructor that has started goes on.                *)
FairSpec == Spec /\ WF_vars(Work) /\ WF_vars(Cancel) /\ WF_vars(Notify) /\ WF_vars(Join)

-----------------------------------------------------------------------------
(* Properties *)

(* What a task says of its job is what the database holds: all its         *)
(* statements when it succeeded, none when it failed.  Once a COMMIT was   *)
(* busy this is lost for the jobs that follow; NotInterleaved is about it. *)
TasksTellTheTruth ==
  ~wasBusy =>
    \A j \in Jobs :
      /\ status[j] = "done" => Statements(j) \subseteq durable
      /\ status[j] = "failed" => Statements(j) \cap durable = {}

(* Whatever SQLite answers, the statements of a scope reach the database   *)
(* together or not at all, so an application killed at any time finds no   *)
(* half-executed scope.                                                    *)
ScopesAreAtomic ==
  \A j \in Scoped : Statements(j) \subseteq durable \/ Statements(j) \cap durable = {}

(* A submitted job is eventually answered, by a result or an exception,    *)
(* unless the process ends: the worker is not stopped before the queue is  *)
(* empty, and the destruction of the context abandons no task.             *)
JobsAnswered ==
  \A j \in Jobs :
    status[j] = "queued" ~> (status[j] \in {"done", "failed"} \/ worker = "terminated")

(* The statements of two transactions are not interleaved: what waits for  *)
(* a COMMIT belongs to the job that began the transaction.                 *)
NotInterleaved == \A s \in pending : s[1] = tx

(* A context that goes out of scope is destroyed, unless the notification  *)
(* of its cancellation falls between the worker's test of the token and    *)
(* its wait (then the worker may sleep and the destructor join for ever).  *)
NotifiedTooSoon == context = "joining" /\ worker = "empty"

DestructionCompletes ==
  context = "released" ~> (context = "destroyed" \/ worker = "terminated" \/ NotifiedTooSoon)
=============================================================================
