---------------------------- MODULE DownloadLoop ----------------------------
(***************************************************************************)
(* The loop of BackgroundDownloader: it drains the table of import jobs,   *)
(* then sends the playback reports, then sleeps until the minute is over   *)
(* or somebody wakes it up.  Around it the downloads the user asks for     *)
(* (DownloadService), which insert jobs in one transaction and then wake   *)
(* the loop, the reports the player stores, their delivery, which the loop *)
(* does not await, the end of the application and its being killed.        *)
(*                                                                         *)
(* What happens to one job is ImportTrack; here an attempt ends the job or *)
(* fails.                                                                  *)
(***************************************************************************)
EXTENDS Naturals, Sequences, FiniteSets, FiniteSetsExt, SequencesExt

CONSTANTS
  Tracks,
  NoTrack,
  Batches,    (* requests of an album, a playlist or a track                *)
  TracksOf,   (* the tracks of each, in order                               *)
  MaxReports, (* bound: playback reports                                    *)
  MaxSends,   (* bound: SendPlaybackReportsAsync coroutines at one time     *)
  Faults      (* what may go wrong, out of the set below                    *)

AllFaults == {"crash", "network", "database", "logout"}
Reports == 1..MaxReports
Senders == 1..MaxSends

ASSUME LoopAssumption ==
  /\ NoTrack \notin Tracks
  /\ TracksOf \in [Batches -> Seq(Tracks)]
  /\ MaxReports \in Nat /\ MaxSends \in Nat
  /\ Faults \subseteq AllFaults

VARIABLES
  jobs,       (* track_import_job in the order of import_timestamp          *)
  batch,      (* how far each request is                                    *)
  wakeup,     (* _wakeupTce is set                                          *)
  loop,       (* the await startDownloadLoopAsync is at                     *)
  current,    (* the job of the attempt                                     *)
  cancelled,  (* _cts is cancelled                                          *)
  signedIn,   (* isAuthenticated()                                          *)
  played,     (* how many reports were made                                 *)
  table,      (* playback_reports: identifiers and what they identify       *)
  sends,      (* the sending coroutines                                     *)
  delivered,  (* reports the server has (external)                          *)
  renamed     (* reports stored under the identifier of another one that a  *)
              (* message under way holds (for the properties only)          *)

jobVars == <<jobs, batch, wakeup>>
loopVars == <<loop, current>>
reportVars == <<played, table, sends, delivered, renamed>>
vars == <<jobVars, loopVars, cancelled, signedIn, reportVars>>

LoopPoints == {"arm", "query", "try", "handle", "delay", "reports", "sleep", "ended", "dead"}
Free == [at |-> "free", rows |-> {}]
Rows == Reports \X Reports
Id(row) == row[1]
Report(row) == row[2]
Stored == {Report(row) : row \in table}

TypeOK ==
  /\ jobs \in Seq(Tracks)
  /\ batch \in [Batches -> {"new", "inserted", "done"}]
  /\ wakeup \in BOOLEAN /\ cancelled \in BOOLEAN /\ signedIn \in BOOLEAN
  /\ loop \in LoopPoints
  /\ current \in Tracks \cup {NoTrack} /\ (loop = "handle" <=> current # NoTrack)
  /\ played \in 0..MaxReports /\ table \subseteq Rows
  /\ delivered \subseteq 1..played /\ renamed \subseteq 1..played /\ Stored \subseteq 1..played
  /\ sends \in [Senders -> [at : {"free", "posting", "answered"}, rows : SUBSET Rows]]

Init ==
  /\ jobs = <<>> /\ batch = [b \in Batches |-> "new"]
  /\ wakeup = FALSE /\ loop = "arm" /\ current = NoTrack
  /\ cancelled = FALSE /\ signedIn = TRUE
  /\ played = 0 /\ table = {} /\ delivered = {} /\ renamed = {}
  /\ sends = [s \in Senders |-> Free]

-----------------------------------------------------------------------------
(* DownloadService *)

(* Where a track comes first in a request, which may name it twice. *)
Place(b, t) == CHOOSE i \in DOMAIN TracksOf[b] :
  TracksOf[b][i] = t /\ \A k \in 1..i - 1 : TracksOf[b][k] # t

(* The tracks of a request that have no job, each once and in order.       *)
Missing(b) ==
  {m \in SetToSeqs(Range(TracksOf[b]) \ Range(jobs)) :
     \A i, k \in DOMAIN m : i < k => Place(b, m[i]) < Place(b, m[k])}

(* One transaction looks for a job of each track, and inserts one if there *)
(* is none.                                                                *)
Insert(b) ==
  /\ batch[b] = "new" /\ signedIn
  /\ \E m \in Missing(b) : jobs' = jobs \o m
  /\ batch' = [batch EXCEPT ![b] = "inserted"]
  /\ UNCHANGED <<wakeup, loopVars, cancelled, signedIn, reportVars>>

(* wakeup() sets the event the loop has made last. *)
WakeUp(b) ==
  /\ batch[b] = "inserted"
  /\ batch' = [batch EXCEPT ![b] = "done"]
  /\ wakeup' = TRUE
  /\ UNCHANGED <<jobs, loopVars, cancelled, signedIn, reportVars>>

-----------------------------------------------------------------------------
(* The loop *)

(* A new event, before the jobs are looked at. *)
Arm ==
  /\ loop = "arm"
  /\ IF cancelled
     THEN loop' = "ended" /\ UNCHANGED wakeup
     ELSE loop' = "query" /\ wakeup' = FALSE
  /\ UNCHANGED <<jobs, batch, current, cancelled, signedIn, reportVars>>

(* Mutant: reports are not looked for. *)
QuerySkippingReports ==
  /\ loop = "query" /\ ~cancelled
  /\ loop' = IF jobs = <<>> THEN "sleep" ELSE "try"
  /\ UNCHANGED <<jobVars, current, cancelled, signedIn, reportVars>>

Query ==
  /\ loop = "query" /\ ~cancelled
  /\ loop' = IF jobs = <<>> THEN "reports" ELSE "try"
  /\ UNCHANGED <<jobVars, current, cancelled, signedIn, reportVars>>

(* An attempt asks for the oldest job again and expects one to be there.   *)
Attempt ==
  /\ loop = "try" /\ jobs # <<>>
  /\ loop' = "handle"
  /\ current' = Head(jobs)
  /\ UNCHANGED <<jobVars, cancelled, signedIn, reportVars>>

(* The row of a track is deleted, if there is one. *)
Without(t) ==
  IF t \in Range(jobs) THEN RemoveAt(jobs, CHOOSE i \in DOMAIN jobs : jobs[i] = t) ELSE jobs

(* Mutant: the attempt fails after it has removed the job. *)
JobEndsInError ==
  /\ loop = "handle"
  /\ jobs' = Without(current)
  /\ loop' = "delay" /\ current' = NoTrack
  /\ UNCHANGED <<batch, wakeup, cancelled, signedIn, reportVars>>

(* The track is imported, or the server has refused it. *)
JobEnds ==
  /\ loop = "handle"
  /\ jobs' = Without(current)
  /\ loop' = "query" /\ current' = NoTrack
  /\ UNCHANGED <<batch, wakeup, cancelled, signedIn, reportVars>>

AttemptFails ==
  /\ \/ loop = "handle" /\ "network" \in Faults
     \/ loop \in {"try", "handle"} /\ "database" \in Faults
  /\ loop' = IF cancelled THEN "ended" ELSE "delay"
  /\ current' = NoTrack
  /\ UNCHANGED <<jobVars, cancelled, signedIn, reportVars>>

(* Mutant: one failure is enough, the loop returns. *)
DelayAbandons ==
  /\ loop = "delay"
  /\ loop' = "ended"
  /\ UNCHANGED <<jobVars, current, cancelled, signedIn, reportVars>>

DelayElapses ==
  /\ loop = "delay" /\ ~cancelled
  /\ loop' = "try"
  /\ UNCHANGED <<jobVars, current, cancelled, signedIn, reportVars>>

(* The first free sending coroutine takes the rows of the table. *)
Send == \E s \in Senders :
  /\ sends[s] = Free /\ \A u \in 1..s - 1 : sends[u] # Free
  /\ sends' = [sends EXCEPT ![s] = [at |-> "posting", rows |-> table]]

(* Mutant: the event is made anew before the loop sleeps. *)
ReadReportsRearming ==
  /\ loop = "reports"
  /\ loop' = "sleep" /\ wakeup' = FALSE
  /\ IF table # {} /\ signedIn
     THEN Send ELSE UNCHANGED sends
  /\ UNCHANGED <<jobs, batch, current, cancelled, signedIn, played, table, delivered, renamed>>

(* All stored reports, in one message that the loop does not wait for.     *)
(* Without a session the sending coroutine ends at once.                   *)
ReadReports ==
  /\ loop = "reports"
  /\ loop' = "sleep"
  /\ IF table # {} /\ signedIn
     THEN Send ELSE UNCHANGED sends
  /\ UNCHANGED <<jobVars, current, cancelled, signedIn, played, table, delivered, renamed>>

(* These two queries are not retried: their exception ends the loop.       *)
QueryFails ==
  /\ "database" \in Faults
  /\ loop \in {"query", "reports"}
  /\ loop' = "dead"
  /\ UNCHANGED <<jobVars, current, cancelled, signedIn, reportVars>>

(* when_any: the event, or sixty seconds.  A delay that is cancelled       *)
(* completes neither its task nor when_any, so only the event is left.     *)
Awake ==
  /\ loop = "sleep" /\ wakeup
  /\ loop' = "arm"
  /\ UNCHANGED <<jobVars, current, cancelled, signedIn, reportVars>>

MinuteOver ==
  /\ loop = "sleep" /\ ~cancelled
  /\ loop' = "arm"
  /\ UNCHANGED <<jobVars, current, cancelled, signedIn, reportVars>>

(* Mutant: the delay between two attempts ends in an exception of another  *)
(* type than retryWithDelays expects, and its task is never completed.     *)
LoopCancelledButDelay ==
  /\ cancelled
  /\ \/ loop \in {"query", "try", "handle"} /\ loop' = "ended"
     \/ loop = "query" /\ loop' = "sleep"
  /\ current' = NoTrack
  /\ UNCHANGED <<jobVars, cancelled, signedIn, reportVars>>

(* An await that was given the token throws.  The test between two jobs    *)
(* does not: it leads to the sleep, which a cancelled delay does not end.  *)
LoopCancelled ==
  /\ cancelled
  /\ \/ loop \in {"query", "try", "handle", "delay"} /\ loop' = "ended"
     \/ loop = "query" /\ loop' = "sleep"
  /\ current' = NoTrack
  /\ UNCHANGED <<jobVars, cancelled, signedIn, reportVars>>

-----------------------------------------------------------------------------
(* Playback reports *)

(* SQLite identifies a new row by the largest identifier in use, plus one. *)
NewId == 1 + Max({0} \cup {Id(row) : row \in table})
IdsUnderWay == UNION {{Id(row) : row \in sends[s].rows} : s \in Senders}

(* PlaybackReportStateMachine commits an entry. *)
Play ==
  /\ played < MaxReports
  /\ played' = played + 1
  /\ table' = table \cup {<<NewId, played'>>}
  /\ renamed' = IF NewId \in IdsUnderWay THEN renamed \cup {played'} ELSE renamed
  /\ UNCHANGED <<jobVars, loopVars, cancelled, signedIn, sends, delivered>>

(* The message reaches the server, whose answer arrives or does not.       *)
Post(s) ==
  /\ sends[s].at = "posting"
  /\ delivered' = delivered \cup {Report(row) : row \in sends[s].rows}
  /\ sends' = [sends EXCEPT ![s].at = "answered"]
  /\ UNCHANGED <<jobVars, loopVars, cancelled, signedIn, played, table, renamed>>

SendFails(s) ==
  /\ \/ sends[s].at \in {"posting", "answered"} /\ "network" \in Faults
     \/ sends[s].at = "answered" /\ "database" \in Faults
  /\ sends' = [sends EXCEPT ![s] = Free]
  /\ UNCHANGED <<jobVars, loopVars, cancelled, signedIn, played, table, delivered, renamed>>

(* Mutant: the whole table is emptied. *)
DeleteAll(s) ==
  /\ sends[s].at = "answered"
  /\ table' = {}
  /\ sends' = [sends EXCEPT ![s] = Free]
  /\ UNCHANGED <<jobVars, loopVars, cancelled, signedIn, played, delivered, renamed>>

(* One transaction deletes the rows that have the identifiers sent. *)
Delete(s) ==
  /\ sends[s].at = "answered"
  /\ table' = {row \in table : \A sent \in sends[s].rows : Id(row) # Id(sent)}
  /\ sends' = [sends EXCEPT ![s] = Free]
  /\ UNCHANGED <<jobVars, loopVars, cancelled, signedIn, played, delivered, renamed>>

-----------------------------------------------------------------------------
(* The application *)

SignInOrOut ==
  /\ "logout" \in Faults
  /\ signedIn' = ~signedIn
  /\ UNCHANGED <<jobVars, loopVars, cancelled, reportVars>>

(* ~AudioService: shutdown() cancels and waits for the loop. *)
Shutdown ==
  /\ ~cancelled
  /\ cancelled' = TRUE
  /\ UNCHANGED <<jobVars, loopVars, signedIn, reportVars>>

(* The application is killed, or has shut down, and is started again.      *)
Restart ==
  /\ "crash" \in Faults
  /\ batch' = [b \in Batches |-> IF batch[b] = "inserted" THEN "done" ELSE batch[b]]
  /\ wakeup' = FALSE /\ loop' = "arm" /\ current' = NoTrack /\ cancelled' = FALSE
  /\ sends' = [s \in Senders |-> Free]
  /\ UNCHANGED <<jobs, signedIn, played, table, delivered, renamed>>

LoopStep ==
  \/ Arm \/ Query \/ Attempt \/ DelayElapses \/ ReadReports
  \/ Awake \/ MinuteOver \/ LoopCancelled

Next ==
  \/ \E b \in Batches : Insert(b) \/ WakeUp(b)
  \/ LoopStep \/ JobEnds \/ AttemptFails \/ QueryFails
  \/ Play
  \/ \E s \in Senders : Post(s) \/ SendFails(s) \/ Delete(s)
  \/ SignInOrOut \/ Shutdown \/ Restart

Spec == Init /\ [][Next]_vars

(* The thread pool and its timers run; attempts and messages that are      *)
(* tried for ever succeed in the end, kills permitting.                    *)
FairSpec ==
  /\ Spec
  /\ WF_vars(LoopStep) /\ SF_vars(Attempt) /\ SF_vars(JobEnds)
  /\ SF_vars(\E s \in Senders : Post(s))
  /\ WF_vars(\E s \in Senders : Delete(s) \/ SendFails(s))

-----------------------------------------------------------------------------
(* Properties *)

(* A loop that sleeps with nothing to wake it before the minute is over    *)
(* has no jobs but those of a request that is about to wake it.  Only the  *)
(* end of the application leaves jobs behind, for the next start.          *)
NoJobForgotten ==
  loop = "sleep" /\ ~wakeup /\ ~cancelled =>
    \A i \in DOMAIN jobs : \E b \in Batches :
      batch[b] = "inserted" /\ jobs[i] \in Range(TracksOf[b])

(* An attempt finds a job, and the one it works on stays the oldest: the   *)
(* second query may ask for element 0 without looking at the size.         *)
JobAtHand ==
  /\ loop \in {"try", "delay", "handle"} => jobs # <<>>
  /\ loop = "handle" => current = Head(jobs)

(* However requests overlap with each other and with the loop, a track has *)
(* one job.                                                                *)
OneJobPerTrack == IsInjective(jobs)

(* The invariant of the jobs. *)
Inv == TypeOK /\ JobAtHand /\ OneJobPerTrack

(* A report leaves the database only when the server has it, with several  *)
(* messages under way and reports added meanwhile.  The exception is one   *)
(* that was given the identifier of a deleted report while a second        *)
(* message with that identifier was under way, which deletes it unsent.    *)
NoReportLost == (1..played) \ Stored \subseteq delivered \cup renamed

(* However sign-outs, failed attempts and overlapping requests mix, every  *)
(* requested track is handled in the end, whatever else is asked for.  Not *)
(* when the application never stops being killed, or after a database      *)
(* error outside the retries, which ends the loop.                         *)
JobsHandled ==
  \/ []<><<Restart>>_vars
  \/ \A t \in Tracks : t \in Range(jobs) ~> (t \notin Range(jobs) \/ cancelled \/ loop = "dead")

(* Every report is delivered in the end, under the exceptions of both, if  *)
(* the user stays signed in from some time on.                             *)
ReportsDelivered ==
  <>[]signedIn =>
    \/ []<><<Restart>>_vars
    \/ \A r \in Reports : r \in Stored ~> (r \in delivered \cup renamed \/ cancelled \/ loop = "dead")

(* The end of the application does not wait for ever for a loop that is at *)
(* work: whatever await it is at, it ends, or comes to the sleep and stays *)
(* there because nobody sets the event, as shutdown() does not (lines      *)
(* 196-204).  A wake-up by a request under way still ends it.              *)
ShutdownCompletes ==
  cancelled ~> \/ loop \in {"ended", "dead"} \/ ~cancelled
               \/ [](loop = "sleep" /\ ~wakeup)
=============================================================================
