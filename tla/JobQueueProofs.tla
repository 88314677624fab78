--------------------------- MODULE JobQueueProofs ---------------------------
(***************************************************************************)
(* The queue and the transaction scopes, for any jobs and whatever SQLite  *)
(* answers: scopes are atomic, and tasks tell the truth until a COMMIT was *)
(* busy.                                                                   *)
(***************************************************************************)
EXTENDS JobQueue, SequenceTheorems, TLAPS

USE JobsAssumption

(* A job is in the queue once, and only until the worker takes it.         *)
QueueIsExact ==
  /\ \A i \in DOMAIN queue : status[queue[i]] = "queued"
  /\ \A i, k \in DOMAIN queue : queue[i] = queue[k] => i = k

(* The worker runs a job that is being run, and nothing else.              *)
WorkerIsExact ==
  /\ worker = "run" => /\ running \in Jobs /\ status[running] = "running"
                       /\ running \in Plain => at = "first"
  /\ worker \notin {"run", "terminated"} => running = NoJob

(* What waits for the COMMIT of the running scope is what the scope has    *)
(* executed; a transaction nobody runs is left over by a busy COMMIT.      *)
ScopeIsExact ==
  /\ tx = NoJob => pending = {}
  /\ worker = "run" /\ running \in Scoped =>
       /\ at = "first"  => tx = running /\ pending = {}
       /\ at = "second" => tx = running /\ pending = {<<running, 1>>}
       /\ at = "commit" => tx = running /\ pending = {<<running, 1>>, <<running, 2>>}
  /\ ~wasBusy /\ tx # NoJob => worker = "run" /\ running \in Scoped /\ at # "begin"

(* No statement of a job is in the database before the job is over.        *)
NothingEarly ==
  ~wasBusy =>
    \A j \in Jobs : status[j] \in {"new", "queued", "running"} => Statements(j) \cap durable = {}

IInv ==
  /\ TypeOK /\ QueueIsExact /\ WorkerIsExact /\ ScopeIsExact
  /\ NothingEarly /\ TasksTellTheTruth /\ ScopesAreAtomic

-----------------------------------------------------------------------------
(* The statements of a job belong to no other job. *)
LEMMA StatementFacts ==
  /\ \A j \in Plain : Statements(j) = {<<j, 1>>}
  /\ \A j \in Scoped : Statements(j) = {<<j, 1>>, <<j, 2>>}
  /\ \A j \in Jobs : Statements(j) \subseteq Jobs \X {1, 2}
  /\ \A j, k \in Jobs : j # k => Statements(j) \cap Statements(k) = {}
<1>1. \A j \in Plain : Statements(j) = {<<j, 1>>}
  BY DEF Statements
<1>2. \A j \in Scoped : Statements(j) = {<<j, 1>>, <<j, 2>>}
  BY DEF Statements
<1> QED
  BY <1>1, <1>2 DEF Jobs

(* What the worker takes from the queue, and what it leaves there.         *)
LEMMA TailFacts ==
  ASSUME NEW S, NEW q \in Seq(S), q # <<>>
  PROVE  /\ Head(q) \in S /\ Head(q) = q[1]
         /\ Tail(q) \in Seq(S)
         /\ 1 \in DOMAIN q
         /\ \A i \in DOMAIN Tail(q) : i + 1 \in DOMAIN q /\ i \in Nat /\ Tail(q)[i] = q[i + 1] /\ i + 1 # 1
OBVIOUS

LEMMA AppendFacts ==
  ASSUME NEW S, NEW q \in Seq(S), NEW e \in S
  PROVE  /\ Append(q, e) \in Seq(S)
         /\ \A i \in DOMAIN Append(q, e) :
              \/ i \in DOMAIN q /\ Append(q, e)[i] = q[i]
              \/ i = Len(q) + 1 /\ Append(q, e)[i] = e
OBVIOUS

-----------------------------------------------------------------------------
LEMMA InitInv == Init => IInv
<1> SUFFICES ASSUME Init PROVE IInv
  OBVIOUS
<1> USE DEF Init
<1>1. TypeOK
  <2>1. queue \in Seq(Jobs)
    OBVIOUS
  <2>2. status \in [Jobs -> {"new", "queued", "running", "done", "failed"}]
    OBVIOUS
  <2> QED
    BY <2>1, <2>2 DEF TypeOK
<1>2. QueueIsExact /\ WorkerIsExact /\ ScopeIsExact
  BY DEF QueueIsExact, WorkerIsExact, ScopeIsExact
<1>3. NothingEarly /\ TasksTellTheTruth
  BY DEF NothingEarly, TasksTellTheTruth
<1>4. ScopesAreAtomic
  BY DEF ScopesAreAtomic
<1> QED
  BY <1>1, <1>2, <1>3, <1>4 DEF IInv

(* A step that leaves jobs and connection alone, of the worker or of a     *)
(* thread that releases or destroys the context.                           *)
LEMMA StepIdle ==
  ASSUME IInv, UNCHANGED <<queue, status, running, at, connection>>,
         \/ UNCHANGED worker
         \/ /\ worker \notin {"run", "terminated"} \/ tx = NoJob
            /\ worker' \in {"lock", "empty", "waiting", "stopped"} => worker \notin {"run", "terminated"}
            /\ worker' \in {"lock", "empty", "waiting", "stopped", "terminated"},
         context' \in {"alive", "released", "cancelled", "joining", "destroyed"}
  PROVE  IInv'
<1> USE DEF IInv, connection
<1>1. TypeOK'
  BY DEF TypeOK, WorkerIsExact
<1>2. QueueIsExact' /\ WorkerIsExact'
  BY DEF QueueIsExact, WorkerIsExact
<1>3. ScopeIsExact'
  BY DEF ScopeIsExact
<1>4. NothingEarly' /\ TasksTellTheTruth' /\ ScopesAreAtomic'
  BY DEF NothingEarly, TasksTellTheTruth, ScopesAreAtomic, Statements
<1> QED
  BY <1>1, <1>2, <1>3, <1>4

LEMMA StepEnqueue ==
  ASSUME IInv, NEW j \in Jobs, Enqueue(j)
  PROVE  IInv'
<1> USE DEF IInv, Enqueue, connection
<1>t. queue \in Seq(Jobs) /\ status \in [Jobs -> {"new", "queued", "running", "done", "failed"}]
  BY DEF TypeOK
<1>q. /\ queue' \in Seq(Jobs)
      /\ \A i \in DOMAIN queue' :
           \/ i \in DOMAIN queue /\ queue'[i] = queue[i]
           \/ i = Len(queue) + 1 /\ queue'[i] = j
  BY <1>t, AppendFacts
<1>1. TypeOK'
  BY <1>q DEF TypeOK, WorkerIsExact
<1>2. QueueIsExact'
  <2>1. \A i \in DOMAIN queue : queue[i] \in Jobs /\ queue[i] # j
    BY <1>t DEF QueueIsExact
  <2> QED
    BY <1>t, <1>q, <2>1 DEF QueueIsExact
<1>3. WorkerIsExact'
  BY <1>t DEF WorkerIsExact
<1>4. ScopeIsExact'
  BY DEF ScopeIsExact
<1>5. \A k \in Jobs : status'[k] = IF k = j THEN "queued" ELSE status[k]
  BY <1>t
<1>6. NothingEarly' /\ TasksTellTheTruth' /\ ScopesAreAtomic'
  BY <1>5 DEF NothingEarly, TasksTellTheTruth, ScopesAreAtomic, Statements
<1> QED
  BY <1>1, <1>2, <1>3, <1>4, <1>6

LEMMA StepTakeJob ==
  ASSUME IInv, TakeJob
  PROVE  IInv'
<1> USE DEF IInv, TakeJob, connection
<1> DEFINE j == Head(queue)
<1>t. queue \in Seq(Jobs) /\ status \in [Jobs -> {"new", "queued", "running", "done", "failed"}]
  BY DEF TypeOK
<1>q. /\ j \in Jobs /\ j = queue[1]
      /\ queue' \in Seq(Jobs)
      /\ 1 \in DOMAIN queue
      /\ \A i \in DOMAIN queue' : i + 1 \in DOMAIN queue /\ i \in Nat /\ queue'[i] = queue[i + 1] /\ i + 1 # 1
  BY <1>t, TailFacts
<1> HIDE DEF j
<1>j. running' = j /\ status' = [status EXCEPT ![j] = "running"] /\ worker' = "run"
  BY DEF j
<1>k. status[j] = "queued"
  BY <1>q DEF QueueIsExact
<1>1. TypeOK'
  BY <1>q, <1>j DEF TypeOK, j
<1>2. QueueIsExact'
  <2>1. \A i \in DOMAIN queue' : queue'[i] \in Jobs /\ queue'[i] # j
    BY <1>q DEF QueueIsExact
  <2>2. \A i \in DOMAIN queue' : status'[queue'[i]] = "queued"
    BY <1>q, <1>t, <1>j, <2>1 DEF QueueIsExact
  <2>3. \A i, k \in DOMAIN queue' : queue'[i] = queue'[k] => i = k
    BY <1>q DEF QueueIsExact
  <2> QED
    BY <2>2, <2>3 DEF QueueIsExact
<1>3. WorkerIsExact'
  BY <1>t, <1>q, <1>j DEF WorkerIsExact, j, Jobs
<1>4. ScopeIsExact'
  BY <1>q, <1>j DEF ScopeIsExact, j
<1>5. \A k \in Jobs : status'[k] = IF k = j THEN "running" ELSE status[k]
  BY <1>t, <1>j
<1>6. NothingEarly' /\ TasksTellTheTruth' /\ ScopesAreAtomic'
  BY <1>5, <1>k DEF NothingEarly, TasksTellTheTruth, ScopesAreAtomic, Statements
<1> QED
  BY <1>1, <1>2, <1>3, <1>4, <1>6

-----------------------------------------------------------------------------
(* A job ends.  Its effects are in the database or not at all, as its task *)
(* says, and no transaction is open unless a COMMIT was busy.              *)
LEMMA StepFinish ==
  ASSUME IInv, worker = "run", NEW result \in {"done", "failed"}, Finish(result), UNCHANGED at,
         tx' \in {NoJob, tx}, tx' = NoJob => pending' = {}, pending' \subseteq Jobs \X {1, 2},
         wasBusy' \in BOOLEAN, wasBusy => wasBusy', wasBusy' \/ tx' = NoJob,
         durable' \in {durable, durable \cup Statements(running)},
         ~wasBusy' /\ result = "done" => Statements(running) \subseteq durable',
         result = "failed" => durable' = durable
  PROVE  IInv'
<1> USE DEF IInv, Finish
<1>t. /\ status \in [Jobs -> {"new", "queued", "running", "done", "failed"}]
      /\ running \in Jobs /\ status[running] = "running"
  BY DEF TypeOK, WorkerIsExact
<1>s. \A k \in Jobs : status'[k] = IF k = running THEN result ELSE status[k]
  BY <1>t
<1>1. TypeOK'
  BY <1>t, StatementFacts DEF TypeOK
<1>2. QueueIsExact'
  BY <1>t DEF QueueIsExact, TypeOK
<1>3. WorkerIsExact'
  BY DEF WorkerIsExact
<1>4. ScopeIsExact'
  BY DEF ScopeIsExact
<1>d. \A k \in Jobs : k # running => Statements(k) \cap durable' = Statements(k) \cap durable
  BY <1>t, StatementFacts
<1>n. \A k \in Jobs : Statements(k)' = Statements(k)
  BY DEF Statements
<1>5. NothingEarly'
  BY <1>s, <1>d, <1>n DEF NothingEarly
<1>6. TasksTellTheTruth'
  <2> SUFFICES ASSUME ~wasBusy', NEW k \in Jobs
               PROVE  /\ status'[k] = "done" => Statements(k) \subseteq durable'
                      /\ status'[k] = "failed" => Statements(k) \cap durable' = {}
    BY <1>n DEF TasksTellTheTruth
  <2>1. CASE k = running
    BY <1>t, <1>s, <2>1 DEF NothingEarly
  <2>2. CASE k # running
    BY <1>s, <1>d, <2>2 DEF TasksTellTheTruth
  <2> QED
    BY <2>1, <2>2
<1>7. ScopesAreAtomic'
  BY <1>t, <1>d, <1>n DEF ScopesAreAtomic, Jobs
<1> QED
  BY <1>1, <1>2, <1>3, <1>4, <1>5, <1>6, <1>7

(* The running scope takes its next step and goes on; nothing reaches the  *)
(* database.                                                               *)
LEMMA StepOn ==
  ASSUME IInv, worker = "run", running \in Scoped,
         UNCHANGED <<queue, status, worker, running, durable, wasBusy, context>>,
         at' \in {"first", "second", "commit", "rollback"},
         tx' \in {NoJob, running, tx}, tx' = NoJob => pending' = {},
         at' = "first" => tx' = running /\ pending' = {},
         at' = "second" => tx' = running /\ pending' = {<<running, 1>>},
         at' = "commit" => tx' = running /\ pending' = {<<running, 1>>, <<running, 2>>},
         pending' \subseteq Jobs \X {1, 2}
  PROVE  IInv'
<1> USE DEF IInv
<1>1. TypeOK'
  BY DEF TypeOK
<1>2. QueueIsExact' /\ WorkerIsExact'
  BY DEF QueueIsExact, WorkerIsExact
<1>3. ScopeIsExact'
  BY DEF ScopeIsExact
<1>4. NothingEarly' /\ TasksTellTheTruth' /\ ScopesAreAtomic'
  BY DEF NothingEarly, TasksTellTheTruth, ScopesAreAtomic, Statements
<1> QED
  BY <1>1, <1>2, <1>3, <1>4

LEMMA StepBegin ==
  ASSUME IInv, Begin
  PROVE  IInv'
<1> USE DEF Begin
<1>0. /\ running \in Scoped
      /\ tx = NoJob => pending = {}
      /\ ~wasBusy => tx = NoJob
      /\ pending \subseteq Jobs \X {1, 2} /\ wasBusy \in BOOLEAN
  BY DEF IInv, WorkerIsExact, ScopeIsExact, TypeOK, Jobs
<1>1. CASE tx = NoJob /\ tx' = running /\ at' = "first"
           /\ UNCHANGED <<queue, status, worker, running, pending, durable, wasBusy, context>>
  BY <1>0, <1>1, StepOn
<1>2. CASE UNCHANGED <<at, connection>> /\ Finish("failed")
  BY <1>0, <1>2, StepFinish DEF connection
<1> QED
  BY <1>1, <1>2

LEMMA StepStatementSucceeds ==
  ASSUME IInv, StatementSucceeds
  PROVE  IInv'
<1> USE DEF StatementSucceeds
<1>0. /\ running \in Jobs
      /\ running \in Plain => at = "first"
      /\ tx = NoJob => pending = {}
      /\ ~wasBusy /\ tx # NoJob => running \in Scoped
      /\ pending \subseteq Jobs \X {1, 2} /\ wasBusy \in BOOLEAN
      /\ NoJob \notin Jobs
  BY DEF IInv, WorkerIsExact, ScopeIsExact, TypeOK, Jobs
<1>1. CASE running \in Plain
  <2>1. Statements(running) = {Statement} /\ Statement \in Jobs \X {1, 2}
    BY <1>0, <1>1, StatementFacts DEF Statement
  <2>2. Finish("done") /\ UNCHANGED <<at, wasBusy>>
    BY <1>1 DEF Execute
  <2>3. CASE tx = NoJob
    BY <1>0, <2>1, <2>2, <2>3, StepFinish DEF Execute
  <2>4. CASE tx # NoJob
    BY <1>0, <1>1, <2>1, <2>2, <2>4, StepFinish DEF Execute
  <2> QED
    BY <2>3, <2>4
<1>2. CASE running \notin Plain
  <2>1. running \in Scoped
    BY <1>0, <1>2 DEF Jobs
  <2>2. /\ at = "first"  => tx = running /\ pending = {}
        /\ at = "second" => tx = running /\ pending = {<<running, 1>>}
    BY <2>1 DEF IInv, ScopeIsExact
  <2>3. /\ UNCHANGED <<queue, status, worker, running, context, wasBusy, tx, durable>>
        /\ pending' = pending \cup {Statement}
        /\ at' = IF at = "first" THEN "second" ELSE "commit"
    BY <1>0, <1>2, <2>2 DEF Execute
  <2>4. CASE at = "first"
    <3>1. pending' = {<<running, 1>>}
      BY <2>2, <2>3, <2>4 DEF Statement
    <3> QED
      BY <1>0, <2>1, <2>2, <2>3, <2>4, <3>1, StepOn
  <2>5. CASE at = "second"
    <3>1. pending' = {<<running, 1>>, <<running, 2>>}
      BY <2>2, <2>3, <2>5 DEF Statement
    <3> QED
      BY <1>0, <2>1, <2>2, <2>3, <2>5, <3>1, StepOn
  <2> QED
    BY <2>4, <2>5
<1> QED
  BY <1>1, <1>2

LEMMA StepStatementFails ==
  ASSUME IInv, StatementFails
  PROVE  IInv'
<1> USE DEF StatementFails
<1>0. /\ running \in Jobs
      /\ tx = NoJob => pending = {}
      /\ ~wasBusy /\ tx # NoJob => running \in Scoped
      /\ pending \subseteq Jobs \X {1, 2} /\ wasBusy \in BOOLEAN
      /\ Plain \cap Scoped = {}
  BY DEF IInv, WorkerIsExact, ScopeIsExact, TypeOK, Jobs
<1>1. /\ UNCHANGED <<durable, wasBusy>>
      /\ \/ UNCHANGED <<tx, pending>>
         \/ tx' = NoJob /\ pending' = {}
  BY DEF connection
<1>2. CASE running \in Plain
  <2>1. wasBusy' \/ tx' = NoJob
    BY <1>0, <1>1, <1>2
  <2> QED
    BY <1>0, <1>1, <1>2, <2>1, StepFinish
<1>3. CASE running \notin Plain
  BY <1>0, <1>1, <1>3, StepOn DEF Jobs
<1> QED
  BY <1>2, <1>3

LEMMA StepCommitSucceeds ==
  ASSUME IInv, CommitSucceeds
  PROVE  IInv'
<1> USE DEF CommitSucceeds
<1>1. /\ running \in Scoped /\ wasBusy \in BOOLEAN
      /\ pending = Statements(running)
  BY StatementFacts DEF IInv, WorkerIsExact, ScopeIsExact, TypeOK, Jobs
<1> QED
  BY <1>1, StepFinish

LEMMA StepCommitFails ==
  ASSUME IInv, CommitFails
  PROVE  IInv'
<1>1. pending \subseteq Jobs \X {1, 2} /\ wasBusy \in BOOLEAN /\ (tx = NoJob => pending = {})
  BY DEF IInv, TypeOK, ScopeIsExact
<1> QED
  BY <1>1, StepFinish DEF CommitFails

LEMMA StepRollback ==
  ASSUME IInv, Rollback
  PROVE  IInv'
<1> USE DEF Rollback
<1>1. CASE tx # NoJob
  <2>1. wasBusy \in BOOLEAN
    BY DEF IInv, TypeOK
  <2> QED
    BY <1>1, <2>1, StepFinish
<1>2. CASE tx = NoJob
  <2>1. context \in {"alive", "released", "cancelled", "joining", "destroyed"}
    BY DEF IInv, TypeOK
  <2> QED
    BY <1>2, <2>1, StepIdle
<1> QED
  BY <1>1, <1>2

LEMMA StepInv == IInv /\ [Next]_vars => IInv'
<1> SUFFICES ASSUME IInv, [Next]_vars PROVE IInv'
  OBVIOUS
<1>t. context \in {"alive", "released", "cancelled", "joining", "destroyed"}
  BY DEF IInv, TypeOK
<1>1. ASSUME NEW j \in Jobs, Enqueue(j) PROVE IInv'
  BY <1>1, StepEnqueue
<1>2. CASE TakeJob
  BY <1>2, StepTakeJob
<1>3. CASE Stop \/ DecideToWait \/ Wait \/ WakeUnnotified
  BY <1>t, <1>3, StepIdle DEF Stop, DecideToWait, Wait, WakeUnnotified
<1>4. CASE Begin
  BY <1>4, StepBegin
<1>5. CASE StatementSucceeds
  BY <1>5, StepStatementSucceeds
<1>6. CASE StatementFails
  BY <1>6, StepStatementFails
<1>7. CASE CommitSucceeds
  BY <1>7, StepCommitSucceeds
<1>8. CASE CommitFails
  BY <1>8, StepCommitFails
<1>9. CASE Rollback
  BY <1>9, StepRollback
<1>10. CASE Release \/ Cancel \/ Notify \/ Join
  BY <1>10, StepIdle DEF Release, Cancel, Notify, Join
<1>11. CASE UNCHANGED vars
  BY <1>t, <1>11, StepIdle DEF vars
<1> QED
  BY <1>1, <1>2, <1>3, <1>4, <1>5, <1>6, <1>7, <1>8, <1>9, <1>10, <1>11 DEF Next, Work

(* The strengthening of the three invariants is inductive.                 *)
THEOREM Inductive == Spec => []IInv
<1> QED
  BY InitInv, StepInv, PTL DEF Spec

(* The variables of queue, worker and connection have their types, and the *)
(* worker holds no job while it looks for one.                             *)
THEOREM TypeCorrect == Spec => []TypeOK
<1>1. IInv => TypeOK
  BY DEF IInv
<1> QED
  BY <1>1, Inductive, PTL

(* SynchronousTransactionScope: whatever statements, COMMIT and ROLLBACK   *)
(* answer, a scope's statements reach the database together or not at all. *)
THEOREM ScopesReachTheDatabaseWhole == Spec => []ScopesAreAtomic
<1>1. IInv => ScopesAreAtomic
  BY DEF IInv
<1> QED
  BY <1>1, Inductive, PTL

(* executeAsync: until a COMMIT was busy, a task that succeeded has all    *)
(* its statements in the database, and one that failed has none.           *)
THEOREM ResultsAreTrue == Spec => []TasksTellTheTruth
<1>1. IInv => TasksTellTheTruth
  BY DEF IInv
<1> QED
  BY <1>1, Inductive, PTL
=============================================================================
