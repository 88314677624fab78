------------------------- MODULE DownloadLoopProofs -------------------------
(***************************************************************************)
(* The jobs and the playback reports of the download loop, for any tracks, *)
(* requests (which may name a track twice), numbers of reports and of      *)
(* messages under way.                                                     *)
(***************************************************************************)
EXTENDS DownloadLoop, SequenceTheorems, FiniteSetTheorems, TLAPS

USE LoopAssumption

(* From the moment the loop has found no job, whoever inserts one owes it  *)
(* a wake-up, unless the application ends.                                 *)
NewJobsWake ==
  loop \in {"reports", "sleep"} /\ ~wakeup /\ ~cancelled =>
    \A i \in DOMAIN jobs : \E b \in Batches :
      batch[b] = "inserted" /\ jobs[i] \in Range(TracksOf[b])

(* An identifier is used once, and a report is never older than its row's  *)
(* identifier, which bounds the identifiers.                               *)
IdsAreUnique ==
  \A row \in table : Id(row) <= played /\ \A other \in table : Id(other) = Id(row) => other = row

(* A message under way holds the identifier of a row that is still there,  *)
(* or of a row that took it over (and is in renamed); once it is answered, *)
(* the server has its reports.                                             *)
SentAreKnown ==
  \A s \in Senders : \A sent \in sends[s].rows :
    /\ Report(sent) <= played
    /\ \A row \in table : Id(row) = Id(sent) => row = sent \/ Report(row) \in renamed
    /\ sends[s].at = "answered" => Report(sent) \in delivered

(* The two halves of the invariant: the jobs ... *)
JobTypeOK ==
  /\ jobs \in Seq(Tracks)
  /\ batch \in [Batches -> {"new", "inserted", "done"}]
  /\ wakeup \in BOOLEAN /\ cancelled \in BOOLEAN
  /\ loop \in LoopPoints
  /\ current \in Tracks \cup {NoTrack} /\ (loop = "handle" <=> current # NoTrack)

JobInv == JobTypeOK /\ JobAtHand /\ OneJobPerTrack /\ NewJobsWake

(* ... and the reports. *)
ReportTypeOK ==
  /\ played \in 0..MaxReports /\ table \subseteq Rows
  /\ delivered \subseteq 1..played /\ renamed \subseteq 1..played /\ Stored \subseteq 1..played
  /\ sends \in [Senders -> [at : {"free", "posting", "answered"}, rows : SUBSET Rows]]

ReportInv == ReportTypeOK /\ IdsAreUnique /\ SentAreKnown /\ NoReportLost

IInv == JobInv /\ ReportInv /\ signedIn \in BOOLEAN

-----------------------------------------------------------------------------
(* Facts about the operators *)

(* The tracks of a request that have no job: each once, in a sequence.     *)
LEMMA MissingFacts ==
  ASSUME JobTypeOK, NEW b \in Batches, NEW m \in Missing(b)
  PROVE  /\ m \in Seq(Tracks)
         /\ \A i \in DOMAIN m : m[i] \in Range(TracksOf[b]) /\ m[i] \notin Range(jobs)
         /\ \A i, k \in DOMAIN m : m[i] = m[k] => i = k
<1> DEFINE r == TracksOf[b]
           S == Range(r) \ Range(jobs)
<1>1. r \in Seq(Tracks)
  OBVIOUS
<1>2. Range(r) \subseteq Tracks
  BY <1>1 DEF Range
<1>3. IsFiniteSet(Range(r))
  <2>1. r \in Surjection(1..Len(r), Range(r))
    BY <1>1 DEF Surjection, Range
  <2>2. IsFiniteSet(1..Len(r))
    BY <1>1, FS_Interval
  <2> QED
    BY <2>1, <2>2, FS_Surjection
<1>4. Cardinality(S) \in Nat
  <2>1. S \subseteq Range(r)
    OBVIOUS
  <2> HIDE DEF S
  <2> QED
    BY <1>3, <2>1, FS_Subset, FS_CardinalityType
<1>5. /\ m \in [1..Cardinality(S) -> S]
      /\ \A i, k \in 1..Cardinality(S) : i # k => m[i] # m[k]
  BY DEF Missing, SetToSeqs
<1> HIDE DEF S
<1>6. DOMAIN m = 1..Cardinality(S) /\ \A i \in DOMAIN m : m[i] \in S
  BY <1>5
<1>7. S \subseteq Tracks
  BY <1>2 DEF S
<1>8. m \in Seq(Tracks)
  <2>1. m \in [1..Cardinality(S) -> Tracks]
    BY <1>5, <1>7
  <2> QED
    BY <1>4, <2>1, IsASeq
<1> QED
  BY <1>5, <1>6, <1>8 DEF S, r

(* Concatenation, by indices. *)
LEMMA ConcatFacts ==
  ASSUME NEW S, NEW p \in Seq(S), NEW q \in Seq(S)
  PROVE  /\ p \o q \in Seq(S)
         /\ \A i \in DOMAIN (p \o q) :
              \/ i \in DOMAIN p /\ (p \o q)[i] = p[i]
              \/ i \notin DOMAIN p /\ i - Len(p) \in DOMAIN q /\ (p \o q)[i] = q[i - Len(p)] /\ i \in Nat
         /\ p # <<>> => p \o q # <<>> /\ Head(p \o q) = Head(p)
<1>1. /\ p \o q \in Seq(S)
      /\ Len(p \o q) = Len(p) + Len(q)
      /\ \A i \in 1..(Len(p) + Len(q)) : (p \o q)[i] = IF i <= Len(p) THEN p[i] ELSE q[i - Len(p)]
  BY ConcatProperties
<1>2. Len(p) \in Nat /\ Len(q) \in Nat /\ DOMAIN p = 1..Len(p) /\ DOMAIN q = 1..Len(q)
      /\ DOMAIN (p \o q) = 1..(Len(p) + Len(q))
  BY <1>1
<1>3. ASSUME p # <<>>
      PROVE  p \o q # <<>> /\ Head(p \o q) = Head(p)
  <2>1. Len(p) >= 1
    BY <1>3, <1>2, EmptySeq
  <2>2. 1 \in 1..(Len(p) + Len(q)) /\ Len(p \o q) # 0
    BY <1>1, <1>2, <2>1
  <2>3. p \o q # <<>>
    BY <2>2
  <2> QED
    BY <1>1, <1>3, <2>1, <2>2, <2>3, HeadTailProperties
<1> QED
  BY <1>1, <1>2, <1>3

(* The job that an attempt ends is the oldest: the others move up.         *)
LEMMA WithoutFacts ==
  ASSUME jobs \in Seq(Tracks), jobs # <<>>, IsInjective(jobs)
  PROVE  /\ Without(Head(jobs)) \in Seq(Tracks)
         /\ \A i \in DOMAIN Without(Head(jobs)) :
              i \in Nat /\ i + 1 \in DOMAIN jobs /\ Without(Head(jobs))[i] = jobs[i + 1]
<1>1. /\ Head(jobs) = jobs[1] /\ 1 \in DOMAIN jobs /\ Len(jobs) \in Nat
      /\ DOMAIN jobs = 1..Len(jobs)
      /\ Tail(jobs) \in Seq(Tracks)
      /\ \A i \in DOMAIN Tail(jobs) : i \in Nat /\ i + 1 \in DOMAIN jobs /\ Tail(jobs)[i] = jobs[i + 1]
  OBVIOUS
<1>2. (CHOOSE i \in DOMAIN jobs : jobs[i] = Head(jobs)) = 1
  BY <1>1 DEF IsInjective
<1>3. Head(jobs) \in Range(jobs)
  BY <1>1 DEF Range
<1>4. Without(Head(jobs)) = RemoveAt(jobs, 1)
  BY <1>2, <1>3 DEF Without
<1>5. RemoveAt(jobs, 1) = Tail(jobs)
  <2>1. SubSeq(jobs, 1, 1 - 1) = <<>>
    BY SubSeqEmpty
  <2>2. SubSeq(jobs, 1 + 1, Len(jobs)) = Tail(jobs)
    BY TailIsSubSeq
  <2>3. <<>> \o Tail(jobs) = Tail(jobs)
    BY <1>1, ConcatEmptySeq
  <2> QED
    BY <2>1, <2>2, <2>3 DEF RemoveAt
<1> QED
  BY <1>1, <1>4, <1>5

(* A nonempty set of small natural numbers has a greatest element.         *)
LEMMA Greatest ==
  ASSUME NEW n \in Nat, NEW T \in SUBSET (0..n), T # {}
  PROVE  \E v \in T : \A w \in T : v >= w
<1> DEFINE D == {n - v : v \in T}
           Below == OpToRel(<, Nat)
<1>1. D \subseteq Nat /\ D # {}
  <2>1. \A v \in T : v \in 0..n
    OBVIOUS
  <2>2. \A v \in 0..n : n - v \in Nat
    OBVIOUS
  <2> QED
    BY <2>1, <2>2
<1>2. IsWellFoundedOn(Below, Nat)
  BY NatLessThanWellFounded
<1>3. PICK x \in D : \A y \in D : <<y, x>> \notin Below
  <2> HIDE DEF D, Below
  <2> QED
    BY <1>1, <1>2, WFMin
<1>4. \A y \in D : ~(y < x)
  BY <1>1, <1>3 DEF OpToRel
<1>5. PICK v \in T : x = n - v
  OBVIOUS
<1>6. ASSUME NEW w \in T PROVE v >= w
  <2>1. ~(n - w < n - v)
    BY <1>4, <1>5
  <2>2. v \in 0..n /\ w \in 0..n
    OBVIOUS
  <2> QED
    BY <2>1, <2>2
<1> QED
  BY <1>6

(* A new identifier is not in use, and at most the number of the report.   *)
LEMMA NewIdFacts ==
  ASSUME ReportTypeOK, IdsAreUnique
  PROVE  /\ NewId \in 1..(played + 1)
         /\ \A row \in table : Id(row) # NewId
<1> DEFINE T == {0} \cup {Id(row) : row \in table}
<1>1. T \in SUBSET (0..played) /\ T # {} /\ played \in Nat
  BY DEF ReportTypeOK, IdsAreUnique, Rows, Reports, Id
<1>2. NewId = 1 + Max(T)
  BY DEF NewId
<1>3. \A row \in table : Id(row) \in T
  OBVIOUS
<1> HIDE DEF T
<1>4. \E v \in T : \A w \in T : v >= w
  BY <1>1, Greatest
<1>5. Max(T) \in T /\ \A w \in T : Max(T) >= w
  BY <1>4 DEF Max
<1>6. Max(T) \in 0..played /\ \A row \in table : Id(row) \in 0..played /\ Max(T) >= Id(row)
  BY <1>1, <1>3, <1>5
<1> HIDE DEF NewId
<1> QED
  BY <1>1, <1>2, <1>6

-----------------------------------------------------------------------------
(* The jobs *)

LEMMA InitJobs == Init => JobInv
<1> SUFFICES ASSUME Init PROVE JobInv
  OBVIOUS
<1> USE DEF Init
<1>1. JobTypeOK
  <2>1. jobs \in Seq(Tracks)
    OBVIOUS
  <2> QED
    BY <2>1 DEF JobTypeOK, LoopPoints
<1>2. DOMAIN jobs = {}
  OBVIOUS
<1> QED
  BY <1>1, <1>2 DEF JobInv, JobAtHand, OneJobPerTrack, IsInjective, NewJobsWake

LEMMA StepInsert ==
  ASSUME JobInv, NEW b \in Batches, Insert(b)
  PROVE  JobInv'
<1> USE DEF Insert, loopVars
<1>t. JobTypeOK /\ jobs \in Seq(Tracks)
  BY DEF JobInv, JobTypeOK
<1>1. PICK m \in Missing(b) : jobs' = jobs \o m
  OBVIOUS
<1>2. /\ m \in Seq(Tracks)
      /\ \A i \in DOMAIN m : m[i] \in Range(TracksOf[b]) /\ m[i] \notin Range(jobs)
      /\ \A i, k \in DOMAIN m : m[i] = m[k] => i = k
  BY <1>t, MissingFacts
<1>3. /\ jobs' \in Seq(Tracks)
      /\ \A i \in DOMAIN jobs' :
           \/ i \in DOMAIN jobs /\ jobs'[i] = jobs[i]
           \/ i \notin DOMAIN jobs /\ i - Len(jobs) \in DOMAIN m /\ jobs'[i] = m[i - Len(jobs)] /\ i \in Nat
      /\ jobs # <<>> => jobs' # <<>> /\ Head(jobs') = Head(jobs)
  BY <1>t, <1>1, <1>2, ConcatFacts
<1>4. JobTypeOK'
  BY <1>3 DEF JobInv, JobTypeOK
<1>5. JobAtHand'
  BY <1>3 DEF JobInv, JobAtHand
<1>6. OneJobPerTrack'
  <2> SUFFICES ASSUME NEW i \in DOMAIN jobs', NEW k \in DOMAIN jobs', jobs'[i] = jobs'[k]
               PROVE  i = k
    BY DEF OneJobPerTrack, IsInjective
  <2>0. Len(jobs) \in Nat
    BY <1>t
  <2>1. CASE i \in DOMAIN jobs /\ k \in DOMAIN jobs
    BY <1>3, <2>1 DEF JobInv, OneJobPerTrack, IsInjective
  <2>2. CASE i \notin DOMAIN jobs /\ k \notin DOMAIN jobs
    <3>1. i - Len(jobs) = k - Len(jobs) /\ i \in Nat /\ k \in Nat
      BY <1>2, <1>3, <2>2
    <3> QED
      BY <2>0, <3>1
  <2>3. ASSUME NEW x \in DOMAIN jobs, NEW y \in DOMAIN m PROVE jobs[x] # m[y]
    BY <1>2 DEF Range
  <2> QED
    BY <1>3, <2>1, <2>2, <2>3
<1>7. NewJobsWake'
  <2> SUFFICES ASSUME loop \in {"reports", "sleep"}, ~wakeup, ~cancelled, NEW i \in DOMAIN jobs'
               PROVE  \E c \in Batches : batch'[c] = "inserted" /\ jobs'[i] \in Range(TracksOf[c])
    BY DEF NewJobsWake
  <2>0. batch'[b] = "inserted" /\ \A c \in Batches : batch[c] = "inserted" => batch'[c] = "inserted"
    BY <1>t DEF JobTypeOK
  <2>1. CASE i \in DOMAIN jobs
    BY <1>3, <2>0, <2>1 DEF JobInv, NewJobsWake
  <2>2. CASE i \notin DOMAIN jobs
    BY <1>2, <1>3, <2>0, <2>2
  <2> QED
    BY <2>1, <2>2
<1> QED
  BY <1>4, <1>5, <1>6, <1>7 DEF JobInv

LEMMA StepJobEnds == JobInv /\ JobEnds => JobInv'
<1> SUFFICES ASSUME JobInv, JobEnds PROVE JobInv'
  OBVIOUS
<1> USE DEF JobEnds
<1>1. jobs \in Seq(Tracks) /\ jobs # <<>> /\ current = Head(jobs) /\ IsInjective(jobs)
  BY DEF JobInv, JobTypeOK, JobAtHand, OneJobPerTrack
<1>2. /\ jobs' \in Seq(Tracks)
      /\ \A i \in DOMAIN jobs' : i \in Nat /\ i + 1 \in DOMAIN jobs /\ jobs'[i] = jobs[i + 1]
  BY <1>1, WithoutFacts
<1>3. JobTypeOK'
  BY <1>2 DEF JobInv, JobTypeOK, LoopPoints
<1>4. JobAtHand' /\ NewJobsWake'
  BY DEF JobAtHand, NewJobsWake
<1>5. OneJobPerTrack'
  BY <1>1, <1>2 DEF OneJobPerTrack, IsInjective
<1> QED
  BY <1>3, <1>4, <1>5 DEF JobInv

(* A step that leaves the table of jobs alone.  Only a query that found it *)
(* empty goes on to the reports.                                           *)
LEMMA StepLoop ==
  ASSUME JobInv, UNCHANGED jobs, batch' \in [Batches -> {"new", "inserted", "done"}],
         wakeup' \in BOOLEAN, cancelled' \in BOOLEAN, loop' \in LoopPoints,
         \/ UNCHANGED <<loop, current>>
         \/ loop' = "handle" /\ jobs # <<>> /\ current' = Head(jobs)
         \/ loop' # "handle" /\ current' = NoTrack
         \/ loop # "handle" /\ loop' # "handle" /\ UNCHANGED current,
         loop' \in {"try", "delay"} => loop \in {"try", "delay", "handle"} \/ jobs # <<>>,
         \/ loop' \notin {"reports", "sleep"} \/ wakeup' \/ cancelled'
         \/ loop' = "reports" /\ jobs = <<>>
         \/ loop \in {"reports", "sleep"} /\ UNCHANGED <<batch, wakeup, cancelled>>
  PROVE  JobInv'
<1> USE DEF JobInv
<1>0. jobs \in Seq(Tracks)
  BY DEF JobTypeOK
<1>1. JobTypeOK'
  <2>1. jobs # <<>> => Head(jobs) \in Tracks
    BY <1>0
  <2> QED
    BY <2>1 DEF JobTypeOK
<1>2. JobAtHand'
  BY DEF JobAtHand
<1>3. OneJobPerTrack'
  BY DEF OneJobPerTrack
<1>4. NewJobsWake'
  <2>1. jobs = <<>> => DOMAIN jobs = {}
    OBVIOUS
  <2> QED
    BY <2>1 DEF NewJobsWake
<1> QED
  BY <1>1, <1>2, <1>3, <1>4

LEMMA StepJobs == JobInv /\ [Next]_vars => JobInv'
<1> SUFFICES ASSUME JobInv, [Next]_vars PROVE JobInv'
  OBVIOUS
<1>t. /\ jobs \in Seq(Tracks) /\ batch \in [Batches -> {"new", "inserted", "done"}]
      /\ wakeup \in BOOLEAN /\ cancelled \in BOOLEAN /\ loop \in LoopPoints
  BY DEF JobInv, JobTypeOK
<1> USE DEF LoopPoints
<1>1. ASSUME NEW b \in Batches, Insert(b) PROVE JobInv'
  BY <1>1, StepInsert
<1>2. ASSUME NEW b \in Batches, WakeUp(b) PROVE JobInv'
  BY <1>t, <1>2, StepLoop DEF WakeUp, loopVars
<1>3. CASE Arm
  BY <1>t, <1>3, StepLoop DEF Arm
<1>4. CASE Query
  BY <1>t, <1>4, StepLoop DEF Query, jobVars
<1>5. CASE Attempt
  BY <1>t, <1>5, StepLoop DEF Attempt, jobVars
<1>6. CASE JobEnds
  BY <1>6, StepJobEnds
<1>7. CASE AttemptFails
  BY <1>t, <1>7, StepLoop DEF AttemptFails, jobVars
<1>8. CASE DelayElapses \/ QueryFails \/ Awake \/ MinuteOver
  BY <1>t, <1>8, StepLoop DEF DelayElapses, QueryFails, Awake, MinuteOver, jobVars
<1>9. CASE ReadReports
  BY <1>t, <1>9, StepLoop DEF ReadReports, jobVars
<1>10. CASE LoopCancelled
  BY <1>t, <1>10, StepLoop DEF LoopCancelled, jobVars
<1>11. CASE Restart
  <2>1. batch' \in [Batches -> {"new", "inserted", "done"}]
    BY <1>t, <1>11 DEF Restart
  <2> QED
    BY <1>t, <1>11, <2>1, StepLoop DEF Restart
<1>12. CASE UNCHANGED <<jobVars, loopVars>> /\ (cancelled' = cancelled \/ cancelled')
         /\ cancelled' \in BOOLEAN
  BY <1>t, <1>12, StepLoop DEF jobVars, loopVars
<1>13. ASSUME NEW s \in Senders, Post(s) \/ SendFails(s) \/ Delete(s) PROVE JobInv'
  BY <1>t, <1>12, <1>13 DEF Post, SendFails, Delete
<1>14. CASE Play \/ SignInOrOut \/ Shutdown
  BY <1>t, <1>12, <1>14 DEF Play, SignInOrOut, Shutdown
<1>15. CASE UNCHANGED vars
  BY <1>t, <1>12, <1>15 DEF vars
<1> QED
  BY <1>1, <1>2, <1>3, <1>4, <1>5, <1>6, <1>7, <1>8, <1>9, <1>10, <1>11, <1>13, <1>14, <1>15 DEF Next, LoopStep

-----------------------------------------------------------------------------
(* The reports *)

LEMMA InitReports == Init => ReportInv
<1> SUFFICES ASSUME Init PROVE ReportInv
  OBVIOUS
<1> USE DEF Init
<1>1. ReportTypeOK
  BY DEF ReportTypeOK, Stored, Free
<1>2. IdsAreUnique /\ NoReportLost
  BY DEF IdsAreUnique, NoReportLost
<1>3. SentAreKnown
  BY DEF SentAreKnown, Free
<1> QED
  BY <1>1, <1>2, <1>3 DEF ReportInv

LEMMA StepPlay == ReportInv /\ Play => ReportInv'
<1> SUFFICES ASSUME ReportInv, Play PROVE ReportInv'
  OBVIOUS
<1> USE DEF ReportInv, Play
<1> DEFINE new == <<NewId, played'>>
<1>1. played \in 0..MaxReports /\ played < MaxReports /\ played' = played + 1
  BY DEF ReportTypeOK
<1>2. NewId \in 1..(played + 1) /\ \A row \in table : Id(row) # NewId
  BY NewIdFacts
<1> HIDE DEF NewId
<1>3. /\ Id(new) = NewId /\ Report(new) = played + 1
      /\ table' = table \cup {new} /\ new \in Rows
      /\ Stored' = Stored \cup {played + 1}
  BY <1>1, <1>2 DEF Id, Report, Rows, Reports, Stored
<1> HIDE DEF new
<1>r. renamed' \in {renamed, renamed \cup {played + 1}}
  BY <1>1
<1>4. ReportTypeOK'
  BY <1>1, <1>3, <1>r DEF ReportTypeOK
<1>5. IdsAreUnique'
  <2>1. \A row \in table : Id(row) <= played + 1
    BY <1>1 DEF IdsAreUnique, ReportTypeOK, Id, Rows, Reports
  <2> QED
    BY <1>1, <1>2, <1>3, <2>1 DEF IdsAreUnique
<1>6. SentAreKnown'
  <2> SUFFICES ASSUME NEW s \in Senders, NEW sent \in sends[s].rows
               PROVE  /\ Report(sent) <= played + 1
                      /\ \A row \in table' : Id(row) = Id(sent) => row = sent \/ Report(row) \in renamed'
                      /\ sends[s].at = "answered" => Report(sent) \in delivered
    BY <1>1 DEF SentAreKnown
  <2>1. Report(sent) <= played + 1
    <3>1. sent \in Rows
      BY DEF ReportTypeOK
    <3>2. Report(sent) \in 1..MaxReports
      BY <3>1 DEF Rows, Reports, Report
    <3> QED
      BY <1>1, <3>2 DEF SentAreKnown
  <2>2. Id(new) = Id(sent) => Report(new) \in renamed'
    <3>1. Id(sent) \in IdsUnderWay
      BY DEF IdsUnderWay
    <3> QED
      BY <1>1, <1>3, <3>1
  <2>3. \A row \in table : Id(row) = Id(sent) => row = sent \/ Report(row) \in renamed'
    BY <1>r DEF SentAreKnown
  <2>4. sends[s].at = "answered" => Report(sent) \in delivered
    BY DEF SentAreKnown
  <2> QED
    BY <1>3, <2>1, <2>2, <2>3, <2>4
<1>7. NoReportLost'
  BY <1>1, <1>3, <1>r DEF NoReportLost
<1> QED
  BY <1>4, <1>5, <1>6, <1>7

(* A message of all rows of the table, or none. *)
LEMMA StepReadReports == ReportInv /\ ReadReports => ReportInv'
<1> SUFFICES ASSUME ReportInv, ReadReports PROVE ReportInv'
  OBVIOUS
<1> USE DEF ReportInv, ReadReports
<1>1. CASE UNCHANGED sends
  BY <1>1 DEF ReportTypeOK, IdsAreUnique, SentAreKnown, NoReportLost, Stored
<1>2. CASE Send
  <2>1. PICK s \in Senders : sends' = [sends EXCEPT ![s] = [at |-> "posting", rows |-> table]]
    BY <1>2 DEF Send
  <2>2. /\ \A u \in Senders : u # s => sends'[u] = sends[u]
        /\ sends'[s].rows = table /\ sends'[s].at = "posting"
    BY <2>1 DEF ReportTypeOK
  <2>3. ReportTypeOK'
    BY <2>1 DEF ReportTypeOK, Stored
  <2>4. IdsAreUnique' /\ NoReportLost'
    BY DEF IdsAreUnique, NoReportLost, Stored
  <2>5. SentAreKnown'
    <3>1. \A sent \in table : Report(sent) <= played
      BY DEF ReportTypeOK, Stored
    <3>2. \A sent, row \in table : Id(row) = Id(sent) => row = sent
      BY DEF IdsAreUnique
    <3> QED
      BY <2>2, <3>1, <3>2 DEF SentAreKnown
  <2> QED
    BY <2>3, <2>4, <2>5
<1> QED
  BY <1>1, <1>2

LEMMA StepPost ==
  ASSUME ReportInv, NEW s \in Senders, Post(s)
  PROVE  ReportInv'
<1> USE DEF ReportInv, Post
<1>1. /\ \A u \in Senders : u # s => sends'[u] = sends[u]
      /\ sends'[s].rows = sends[s].rows
      /\ sends' \in [Senders -> [at : {"free", "posting", "answered"}, rows : SUBSET Rows]]
  BY DEF ReportTypeOK
<1>2. \A sent \in sends[s].rows : Report(sent) \in delivered'
  OBVIOUS
<1>3. delivered \subseteq delivered' /\ delivered' \subseteq 1..played
  <2>1. \A sent \in sends[s].rows : Report(sent) \in 1..played
    <3>1. \A sent \in sends[s].rows : sent \in Rows /\ Report(sent) <= played
      BY DEF ReportTypeOK, SentAreKnown
    <3>2. \A sent \in Rows : Report(sent) \in 1..MaxReports
      BY DEF Rows, Reports, Report
    <3>3. played \in 0..MaxReports
      BY DEF ReportTypeOK
    <3> QED
      BY <3>1, <3>2, <3>3
  <2> QED
    BY <2>1 DEF ReportTypeOK
<1>4. ReportTypeOK'
  BY <1>1, <1>3 DEF ReportTypeOK, Stored
<1>5. IdsAreUnique' /\ NoReportLost'
  BY <1>3 DEF IdsAreUnique, NoReportLost, Stored
<1>6. SentAreKnown'
  BY <1>1, <1>2, <1>3 DEF SentAreKnown
<1> QED
  BY <1>4, <1>5, <1>6

(* A sending coroutine ends.  What it has taken from the table the server  *)
(* has, or it took over the identifier of a report the server has.         *)
LEMMA StepSendEnds ==
  ASSUME ReportInv, UNCHANGED <<played, delivered, renamed>>,
         table' \subseteq table,
         \A row \in table \ table' : Report(row) \in delivered \cup renamed,
         sends' \in [Senders -> [at : {"free", "posting", "answered"}, rows : SUBSET Rows]],
         \A u \in Senders : sends'[u] = sends[u] \/ sends'[u] = Free
  PROVE  ReportInv'
<1> USE DEF ReportInv
<1>1. Stored' \subseteq Stored /\ \A r \in Stored \ Stored' : r \in delivered \cup renamed
  BY DEF Stored
<1>2. ReportTypeOK'
  BY <1>1 DEF ReportTypeOK
<1>3. IdsAreUnique'
  BY DEF IdsAreUnique
<1>4. SentAreKnown'
  BY DEF SentAreKnown, Free
<1>5. NoReportLost'
  BY <1>1 DEF NoReportLost
<1> QED
  BY <1>2, <1>3, <1>4, <1>5

LEMMA StepDelete ==
  ASSUME ReportInv, NEW s \in Senders, Delete(s)
  PROVE  ReportInv'
<1> USE DEF Delete
<1>1. /\ sends' \in [Senders -> [at : {"free", "posting", "answered"}, rows : SUBSET Rows]]
      /\ \A u \in Senders : sends'[u] = sends[u] \/ sends'[u] = Free
  BY DEF ReportInv, ReportTypeOK, Free
<1>2. ASSUME NEW row \in table \ table'
      PROVE  Report(row) \in delivered \cup renamed
  <2>1. PICK sent \in sends[s].rows : Id(row) = Id(sent)
    OBVIOUS
  <2>2. row = sent \/ Report(row) \in renamed
    BY <2>1 DEF ReportInv, SentAreKnown
  <2>3. Report(sent) \in delivered
    BY DEF ReportInv, SentAreKnown
  <2> QED
    BY <2>2, <2>3
<1> QED
  BY <1>1, <1>2, StepSendEnds

LEMMA StepReports == ReportInv /\ [Next]_vars => ReportInv'
<1> SUFFICES ASSUME ReportInv, [Next]_vars PROVE ReportInv'
  OBVIOUS
<1>t. sends \in [Senders -> [at : {"free", "posting", "answered"}, rows : SUBSET Rows]]
  BY DEF ReportInv, ReportTypeOK
<1>1. CASE Play
  BY <1>1, StepPlay
<1>2. CASE ReadReports
  BY <1>2, StepReadReports
<1>3. ASSUME NEW s \in Senders, Post(s) PROVE ReportInv'
  BY <1>3, StepPost
<1>4. ASSUME NEW s \in Senders, Delete(s) PROVE ReportInv'
  BY <1>4, StepDelete
<1>5. ASSUME NEW s \in Senders, SendFails(s) PROVE ReportInv'
  <2>1. /\ sends' \in [Senders -> [at : {"free", "posting", "answered"}, rows : SUBSET Rows]]
        /\ \A u \in Senders : sends'[u] = sends[u] \/ sends'[u] = Free
    BY <1>t, <1>5 DEF SendFails, Free
  <2> QED
    BY <1>5, <2>1, StepSendEnds DEF SendFails
<1>6. CASE Restart
  <2>1. /\ sends' \in [Senders -> [at : {"free", "posting", "answered"}, rows : SUBSET Rows]]
        /\ \A u \in Senders : sends'[u] = Free
    BY <1>6 DEF Restart, Free
  <2> QED
    BY <1>6, <2>1, StepSendEnds DEF Restart
<1>7. CASE UNCHANGED reportVars
  BY <1>t, <1>7, StepSendEnds DEF reportVars
<1>8. ASSUME NEW b \in Batches, Insert(b) \/ WakeUp(b) PROVE ReportInv'
  BY <1>7, <1>8 DEF Insert, WakeUp
<1>9. CASE Arm \/ Query \/ Attempt \/ DelayElapses \/ Awake \/ MinuteOver \/ LoopCancelled
  BY <1>7, <1>9 DEF Arm, Query, Attempt, DelayElapses, Awake, MinuteOver, LoopCancelled
<1>10. CASE JobEnds \/ AttemptFails \/ QueryFails \/ SignInOrOut \/ Shutdown
  BY <1>7, <1>10 DEF JobEnds, AttemptFails, QueryFails, SignInOrOut, Shutdown
<1>11. CASE UNCHANGED vars
  BY <1>7, <1>11 DEF vars
<1> QED
  BY <1>1, <1>2, <1>3, <1>4, <1>5, <1>6, <1>8, <1>9, <1>10, <1>11 DEF Next, LoopStep

-----------------------------------------------------------------------------
(* The strengthening of the three invariants is inductive.                 *)
THEOREM Inductive == Spec => []IInv
<1>1. Init => IInv
  BY InitJobs, InitReports DEF IInv, Init
<1>2. IInv /\ [Next]_vars => IInv'
  <2> SUFFICES ASSUME IInv, [Next]_vars PROVE signedIn' \in BOOLEAN
    BY StepJobs, StepReports DEF IInv
  <2>1. UNCHANGED signedIn \/ SignInOrOut
    BY DEF Next, LoopStep, vars, Insert, WakeUp, Arm, Query, Attempt, DelayElapses, ReadReports, Awake,
           MinuteOver, LoopCancelled, JobEnds, AttemptFails, QueryFails, Play, Post, SendFails, Delete,
           Shutdown, Restart
  <2> QED
    BY <2>1 DEF IInv, SignInOrOut
<1> QED
  BY <1>1, <1>2, PTL DEF Spec

(* The jobs' invariant: every variable has its type; the second query of   *)
(* an attempt finds the job of the first (handleNextJobAsync asks for      *)
(* element 0), and a track has one job, also if a request names it twice.  *)
THEOREM JobsAreSound == Spec => []Inv
<1>1. IInv => Inv
  BY DEF IInv, Inv, TypeOK, JobInv, JobTypeOK, ReportInv, ReportTypeOK
<1> QED
  BY <1>1, Inductive, PTL

(* startDownloadLoopAsync and wakeup(): a loop that sleeps unwoken has no  *)
(* jobs but those of a request that is about to wake it, up to the moment  *)
(* the application ends.                                                   *)
THEOREM SleepForgetsNoJob == Spec => []NoJobForgotten
<1>1. IInv => NoJobForgotten
  BY DEF IInv, JobInv, NewJobsWake, NoJobForgotten
<1> QED
  BY <1>1, Inductive, PTL

(* SendPlaybackReportsAsync: a report that has left the table is on the    *)
(* server, or its identifier was that of one that is.                      *)
THEOREM ReportsAreKept == Spec => []NoReportLost
<1>1. IInv => NoReportLost
  BY DEF IInv, ReportInv
<1> QED
  BY <1>1, Inductive, PTL
=============================================================================
