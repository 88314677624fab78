# Verification of Tidal-Unofficial-Win10

TLA+ models of the parts of this Windows 10 music client whose correctness depends on the order in which
things happen: the stream cache, the import of tracks for offline use with the clean-up and the player around it, the
loop that runs the imports, the embedded database layer (UWP-LocalDB-CPP) under all of them, the favorites, the play
queue, and what happens when the player goes on to another track. TLC checks each model on small instances; TLAPS
proves the safety properties of all of them for every value of their constants (any number of coroutines, jobs, tracks,
versions, requests, edits, subscribers), that the stream cache's lock implements its abstract specification, and that the
stream cache uses it as that specification allows.

Line numbers refer to the sources in this repository; `PROJECT.json` maps every definition to its lines and
lists the hazards, each at the line where it bites, with the properties that cover it.

## 1. Inventory

The application is one process. Its concurrency is that of PPL tasks written as coroutines: every `co_await`
is a point where anything else may run, on any thread of the pool. Its persistent state is one SQLite database,
a few folders of files (`track_cache`, `imports`, `covers`), one JSON file and the settings. It can be suspended
and killed at any moment.

    player ──> stream cache ──> files of track_cache / imports
      │            │  ▲                 ▲
      │ reports    │  └── web streams   │ clean-up (settings page)
      ▼            ▼                    │
    database <── download loop ──> import of one track
      ▲            ▲ wakeup()
      └── download requests (user)

| Component | State | Operations | What is hard |
|---|---|---|---|
| **Ownership lock** (`CachedStreamProvider.cpp` 20-112, class `HttpCacheStateMachine`) | `_streamState`, `_pendingReaders`, `_pendingWriters`, `_track.local_size` | take read or write ownership, `~Ownership`, resumption after a set event | an asynchronous lock without a blocked thread: lost hand-overs, double grants, starvation, destruction between grant and resumption |
| **Stream cache** (`CachedStreamProvider.cpp`, `WebStream.cpp`, `CachedTrackManager.cpp`) | row `cached_track`, cache file, `_track`, `_webStream`, the coroutine's copy of `_track` | open, download loop, seek and read, cancel, close | file, row and memory updated at different awaits; requests that read the row long before they open the file and then write it back; kills in between; server files that change; a quality switch over an existing file; error pages read as data; 32-bit counts |
| **Track import** (`BackgroundDownloader.cpp` 20-106, `TrackImportJobs.cpp`) | rows `track_import_job` and `imported_track`, file in `imports` | `handleJobAsync`, transformation, cancellation | the same, across many attempts and restarts; a setting that changes meanwhile; a body that ends early |
| **Download loop** (`BackgroundDownloader.cpp` 111-231) | `_wakeupTce`, `_cts`, the loop's task | drain jobs, send reports, sleep, `wakeup`, `shutdown` | lost wake-ups, overlapping messages, a retry that never gives up, shutdown during any await |
| **Download requests** (`DownloadService.cpp`) | - | insert the missing jobs of an album, a playlist or a track, then wake the loop | overlap with each other and with the loop |
| **Database context** (`SqliteJobQueue.cpp`, `DBContext.cpp`, `DBQuery.h`) | queue of jobs, worker thread, SQLite transaction | submit, execute, transaction scopes, destruction | producer and consumer with cancellation, exceptions inside scopes, COMMIT that fails, the thread that destroys its own queue |
| **Schema migration** (`SchemaBase.cpp`, `SchemaBuilder.cpp`, `TidalSchema.cpp`) | version row, tables, columns, keys, indices | `initializeAsync` | any sequence of releases, with kills and errors |
| **Music player, audio service** (`MusicPlayer.cpp`, `AudioService.cpp`) | `_currentPlayList`, `_currentCts`, `current_playlist.json`, settings | reset, play at, move, repeat and shuffle, bind an item | loads that overlap and ignore their token; continuations outside the mutex |
| **Playback reports** (`PlaybackReportStateMachine.cpp`) | `_currentEntry`, `_currentTrackId`, `_isPlaying` | track changed, state changed | handlers of the player's events that wait for covers and overtake each other; an entry lost at suspension |
| **Mediators** (`Mediator.h`) | callbacks under a shared mutex | register, unregister, raise | subscribers that die while their callback runs, under the lock their destructor asks for |
| **Favorites, authentication** (`FavoritesService.cpp`, `AuthenticationService.cpp`) | sets and observable lists; session | refresh, add, remove; sign in and out | answers applied after a later change, unlocked updates, a retry on the wrong thread |
| **Storage clean-up** (`StorageStatistics.cpp`, `LocalFileManager.cpp`) | - | delete files and rows of a folder | works from a list read before; races with import and playback |
| **Cover cache** (`CoverCache.cpp`) | files of covers | ensure | files visible before they are written, endless retries |
| Incremental lists, image pool | lists; weighted pools | load more; pick | an off-by-one in a draw |
| User interface, API queries, obfuscating stream, background audio process (not in the solution), vendored libraries | | | no protocol of their own |

What makes each of the modelled components correct is stated by the properties of section 4.

## 2. Modules and how they correspond to the code

Conventions: one action is what the code does between two awaits (or while it holds a mutex), whole. An
action takes the name of the function or of the await it stands for; variables keep the code's names where
there is one (`pendingReaders` for `_pendingReaders`). A fault is an action guarded by membership in the
constant `Faults`, so each run says what may go wrong. Definitions introduced by a comment "Mutant" are not
part of any specification: each is a plausible mistake in the definition that follows it, with which the runs
are shown to be able to fail.

* **`FileAccess`** - the abstract specification of the lock: one user of the file; the file then goes to a
  waiting reader whose bytes are there, else to a waiting writer. No queues, events or state word.
* **`StreamOwnership`** - the code's lock. `TakeWriteOwnership`, `TakeReadOwnership` are the parts of the two
  coroutines up to the `co_await`; `HandToReader`, `HandToWriter`, `LeaveIdle` are the three branches of
  `~Ownership`; `Resume` is the coroutine going on after `tce.set()`, or being cancelled because the
  `weak_ptr` has expired. `AppendBlock` and `ResetTrack` are what the download does to `local_size`. In the
  code the local `shared_ptr` of a finishing owner may be destroyed before its `Ownership`, so the state machine may
  go first and the release then does nothing; to every other client that is a release followed by `Drop`.
* **`StreamOwnershipImpl`** - the refinement mapping to `FileAccess` (`ExclusiveAccess`).
* **`TrackCache`** - one track: server, database row, file, the state machine's record, the coroutine's copy, the reads
  of the media pipeline. It uses the lock through `FileAccess`, whose steps are conjuncts of its actions
  (`Access!Write`, `Access!Read`, `Access!Finish`), and so composes the two models. Bytes are counted in blocks, and a
  block of the file is known by the version of the server file it came from, which is all that the properties can tell
  apart. `continueDownloadingAsync` and its retry are the control points `dl`. Opening is three awaits: the row is read
  (`ReadRow`), the file is opened (`OpenFile`), the row is written back as it was read, with a new time (`PutBack`); a
  partial track then asks the server (`OpenSucceeds`). Requests that have read the row and wait for the file are
  `pending`, also while an earlier session downloads and records blocks. `overwritten` notes that a row put back was
  `Outdated`: it counts bytes that the row of the table does not.
* **`CacheCleanUp`** - `TrackCache` (which it extends) with the clean-up of the page of settings, which deletes the file
  and then the row of a track from a list read before (`ListTrack`, `LeaveFile`, `DeleteFile`, `DeleteRow`).
  `ReadTrackRow`, `OpenTrackFile`, `GiveUpRequest` and `PutBackMisses` are the steps of a request when row and file may
  be gone. `wronged` holds the records that count bytes it has deleted, `misled` the requests that have read such a row;
  `Deceived` says how a step passes them on.
* **`ImportTrack`** - the same for imports: `step` is the await `handleJobAsync` is at. An attempt forgets everything
  but rows and file when it fails, is killed or ends. The first read of an attempt fixes what its answer carries
  (`Answers`): the file, or an error page, which may end before the file would and then gives nothing (`Read`).
* **`OfflineStorage`** - `ImportTrack` (which it extends) with everybody else who uses the row and the file of that
  track: the clean-up, which deletes the file, then the row, from a list read before (`ListImports`, `TryDelete`,
  `DeleteRow`), and the player, which reads the row, writes it back with a new time and opens the file
  (`LookupImported`, `RecordPlayback`, `OpenImported`). `wronged` holds the rows that count bytes the clean-up has
  deleted or an error page gave, or that the player has replaced by its old copy.
* **`DownloadLoop`** - the loop around it: the table of jobs, the event `wakeup`, requests as batches (which may name a
  track twice), playback reports from storage to the server. An attempt at a job ends it or fails; what it does is
  `ImportTrack`. `LoopCancelled` says what a cancelled token ends: the awaits that were given it, but not the sleep,
  whose `when_any` only completes with the event.
* **`JobQueue`** - worker thread, queue, condition variable, transaction scopes, what SQLite answers, the
  destruction of the context. The awaits of all other modules that touch the database are jobs of this queue; that
  they are atomic there is what `ScopesAreAtomic` and `TasksTellTheTruth` say here.
* **`SchemaDeploy`**, **`TidalSchema`** - the migration as sets of tables, columns, keys and indices with the
  version each appears in, and the application's schema as data.
* **`Favorites`** - `doRefreshAsync` await by await for each kind of item (`Ask`, `Answer`, `Take`), its retries, also those
  that run on a thread of the pool (`TakeThrows`, `RetryThrows`), additions and removals, the session. What `stale` holds are
  kinds that something has overlapped since the last undisturbed refresh (for the properties only).
* **`PlayQueue`** - the calls of the audio service (`StartCall`, `CreateFile`, `Write`, `Play`), the loads of the player (`Reload`,
  `Read`, `Query`, `Build`, `SetQueue`, `SetSource`, `RaisePlaylist`), the mode settings, resuming and restarting. `ask` is the request
  that ran alone, if there is one.
* **`TrackEvents`** - the handlers of the player's events, one thread each, composed from **`CoverCache`** (what the handler
  waits for), **`Mediator`** (what it raises, with the subscribers' life and the lock) and **`PlaybackReports`** (what it tells in the
  end). Each handler is a sequence of their steps. `sure` tells that the last event came alone.
* **`...Proofs`** - theorems about the module of that name and their proofs (section 6); `TrackCacheProofs` is about
  `CacheCleanUp`, too, `OfflineStorageProofs` about `ImportTrack`, and `MusicPlayerProofs` about `PlayQueue` and `TrackEvents`.
* **`MC...`** - values for TLC.

External to the repository, and modelled from its use: the server (versions of a track, answers, timeouts), SQLite's
answers, the media pipeline, the file system.

## 3. Faults and inputs

`crash` and `kill` end the process between any two steps; a file write that was under way may have reached the disk or
not (in part, for imports), a transaction is there or not. `io` fails writes and database updates, `network` fails
awaits on the server, `error_body` lets an error answer arrive as data, in the cache and in an import (`WebStream` does
not test the status of its GET), `change` replaces the server's file in the middle of a session. `error`, `abort` and
`busy` are the ways a statement or a COMMIT fails in SQLite. `select`, `logout`, `unauthorized` are the user and the
service.

## 4. Runs

| Run | Question | Result |
|---|---|---|
| `ownership` | three readers and the download, two blocks: is the lock exclusive, is a wake-up ever lost, is everybody served, does it implement `FileAccess`? | holds |
| `track_cache` | one quality, three versions (one with equal size, one shorter), kills and failing writes: is what is playing one file, is a complete row true, until a request puts an outdated row back? | holds |
| `track_cache_qualities` | two qualities of different and equal sizes, a network that fails for ever and recovers: is a partial row the origin of all its blocks, until a request puts an outdated row back, does the download complete, is a read served? | holds |
| `cache_clean_up` | one quality, every fault at once, server changes in a session and the clean-up included: is no block promised that is not in the file, does a read ever overlap a write or miss its bytes? | holds |
| `import` | two qualities, versions that change, every fault, error pages among them, with the clean-up and the player: is an imported track one whole file and does a job count only bytes of the file it names, but for what is `wronged`, does it resume where it stopped, does it end or spin? | holds |
| `download_loop` | two overlapping requests, two reports, two messages under way, every fault: no job forgotten by a sleeping loop, no lost report, one job per track, every job handled, every report delivered, shutdown ends unless the loop sleeps and nobody wakes it | holds |
| `jobqueue` | four jobs (two in transaction scopes), every answer of SQLite, a context that goes out of scope: do tasks tell the truth, are scopes atomic, is every job answered, is the context destroyed? | holds |
| `schema` | the application's eleven schema versions, any sequence of releases, kills and errors: does a migrated database look like a new one, does a release find its tables and indices? | holds |
| `favorites` | two refreshes and two edits at one time, failing queries, sign-outs, restarts: does what nothing overlapped mirror the server, does memory converge to it? | holds |
| `play_queue` | a call and two loads at one time, I/O errors, mode changes, kills: does a request that ran alone get its list, index and mode, does silence end? | holds |
| `track_events` | two handlers of item changes at one time, covers that fail, pages that come and go, kills: does the report state machine follow the player, is what was heard reported, does every handler return? | holds |
| `jobqueue_busy` | after a COMMIT that is busy, are transactions still separate? | **violated** |

The violated property is a finding (section 5). Every property of a passing run is shown to be able to fail
by a mutant of the model. `Inv` stands for a conjunction whose parts are named in the module, `TypeOK` among them.

**Bounds.** The lock's hand-over looks at the first servable of several readers with the writer behind: three readers
and one writer give every relative order, and two blocks every comparison of need and size; the proofs remove the bound.
A cached track of two or three blocks with a chunk of two has full, partial and last blocks; two or three timestamps per
quality give equal and different sizes. `MaxPending` bounds the requests that have read the row and wait for the file:
only one row is put back at a time, so that one is enough for an outdated row to replace a newer one, and with two
(`track_cache`) an outdated row can be put back twice and in either order; the proofs remove the bound. `CountModulus`
16 stands for 2^32: all that matters is that it exceeds the file. Two jobs or reports of each kind are enough for the
pairwise interactions the loop and the queue have, since no code looks at more than the head of a list or at one pair.
`Senders` bounds the messages under way at two; a third would be sent only after another minute without an answer. A
refresh and an edit of one kind, two edits, two refreshes: favorites need two of each and two items, so that order and
duplicates show; the kinds are awaited one after the other and independent but for that (with two kinds, or a second
user, `Inv` was also checked on instances without liveness). The play queue needs two loads to overlap and two indexes,
one of which is where a resumed queue starts; a second list and two calls at one time were checked for the invariant
alone. Two handlers of item changes can overtake each other and share a cover file (`Default`, since the one album has
no image); handlers of state changes come one at a time (with two, `Inv` was checked on its own). The subscriber of
`track_events` comes and goes for ever. The schema run uses the real data, not a small instance; only foreign keys,
which the application does not use, are represented by one invented key.

**Fairness.** A coroutine whose event is set, and a finished owner, are run by the thread pool: weak fairness of the
steps that wait for nothing else. Awaits on the network are strongly fair only: retried for ever (every second in the
cache, in `retryWithDelays` of the loop) they succeed now and then, which is an assumption about the world and is why
the liveness runs let faults occur for ever. Requests of the user, reads of the pipeline, cancellations, kills and
version changes are never fair. `WriterServed` holds only if the pipeline eventually reads one block at a time
(`OneReadAtATime`), which the media pipeline does on one stream: readers go first, so overlapping reads starve the
writer. `JobsEnd` supposes that from some time on attempts are not interrupted, and excepts an attempt that reads an
answer that has ended (`Spinning`); `ShutdownCompletes` excepts a loop that sleeps and that nobody wakes; `JobsHandled`
supposes that an attempt tried for ever ends; a track that can never be imported does block those behind it, which is
listed as a hazard. A history variable (`wasBusy`) limits `TasksTellTheTruth` to the time before a COMMIT was busy; what
follows is the subject of `NotInterleaved`. `Converges` asks for rest (no more edits, failures, sign-ins) and for a
refresh begun now and then, which the application does at each launch and resumption. In `track_events` a thread waiting
for the lock gets it when it is free again and again, and a cover tried for ever is written now and then.

Deadlock checking is off in all runs: every modelled part may come to rest (no request, queue destroyed, track closed).

## 5. Findings

**A busy COMMIT leaves the transaction open** (`jobqueue_busy`; `DBQuery.h` 244). `commit()` sets `_commit` before it
executes COMMIT. If COMMIT fails with the transaction still open, the destructor does not roll back: later
plain statements join the open transaction and every later scope fails at BEGIN. The README of UWP-LocalDB-CPP (line 209)
says that the statements of two transactions cannot be interleaved.

Other behaviour that a user would not expect contradicts no document of the repository. There the
properties name the circumstance they exempt, so that the runs show that it is the only one:

* A notification is lost when the context is destroyed between the worker's test of the token and its wait
  (`NotifiedTooSoon`; `SqliteJobQueue.cpp` 8); `join()` then waits for ever. The application's context lives as
  long as the process.
* The new version is committed before the index script runs: an index whose script was cut off is never
  created (`skipped`; `SchemaBase.cpp` 188).
* A report whose identifier SQLite has reused is deleted unsent when a second message with the old identifier
  ends (`renamed`; `InsertPlaybackReportQuery.cpp` 56).
* The clean-up deletes a file before its row. A cached track opened in between plays a hole; after a kill in between, a complete
  row without a file makes `GetFileAsync` throw whenever the track is opened (`wronged`; `StorageStatistics.cpp` 233).
* A request reads the row of a track, waits for folder and file, and writes the row back as it was. What an earlier
  session of the track recorded meanwhile is undone, and when that was another quality or version, the row counts blocks
  that are not of the file it names (`overwritten`; `CachedStreamProvider.cpp` 425 and 392). No other fault is needed.
* The body of an error answer is imported like the file: it is counted in the job, and the imported track may consist of
  it (`wronged`; `BackgroundDownloader.cpp` 78, `WebStream.cpp` 27-33).
* If that body is shorter than the file, every further read returns nothing, and the loop that reads until the count is
  complete never ends and never fails (`Spinning`; `BackgroundDownloader.cpp` 72-90).
* `shutdown()` cancels the token and waits for the loop, but does not set the event. A sleeping loop does not end: a
  cancelled delay does not complete `when_any` (`ShutdownCompletes`; `BackgroundDownloader.cpp` 186 and 196-204). The
  test of the token between two jobs leads to that sleep, too (174).
* The clean-up deletes the file of an import job between two attempts, or the file of a row it has not come to; the
  player puts its old copy of a row in place of a newer one (`wronged`; `StorageStatistics.cpp` 247,
  `CachedStreamProvider.cpp` 451).
* Refreshes, edits and sign-outs that overlap leave sets and lists that differ from the server, until a refresh
  runs undisturbed; a retry on the pool cannot change a list that a page shows (`stale`; `FavoritesService.cpp` 28 and
  202, `AsyncHelpers.cpp` 31).
* Of overlapping play requests the older may win, and a file may be paired with the index of another
  (`ask`; `MusicPlayer.cpp` 303). `XboxHomeCurrentPlaylistWidget.xaml.cpp` 129-130 makes two such requests in a row:
  without a queue, `moveToIndex` and `resume` load one each. A mode changed while a queue is built does not reach it (`modes`).
* A handler of an item change waits for its cover and can be overtaken by a later one; the report state machine then counts
  the track that is over (`sure`; `MusicPlayer.cpp` 154).
* A callback of a mediator that outlives every other reference to its subscriber destroys it, and asks for the lock its own thread
  holds (`Stuck`; `Mediator.h` 112). `TracksPlaybackStateManager` is such a subscriber.
* A cover is visible, empty, before it is written, and stays so after a kill (`torn`; `CoverCache.cpp` 50).

Seen while modelling and covered by actions: an exception in `~SynchronousTransactionScope`
when SQLite has rolled back by itself ends the process (`Rollback`); a foreign key added to an existing table produces a
statement SQLite does not have (`Accepted`; the application's schema has no such key); a seek past the end of a track
that got shorter wraps the count (`EndOfRead`); a cancelled download spins through its loop until it is destroyed
(`CancelledAwait`); the quality of a new import job is uninitialized (`NewJobs`), which is harmless since a new job
never counts as complete.

## 6. Proofs

### The ownership lock

`StreamOwnershipProofs` is about `StreamOwnership` for every `Readers`, `Writers` and `MaxSize` that satisfy
`ClientsAssumption` (readers and writers are disjoint, the size is a natural number); the refinement also uses
`NobodyAssumption`.

None of the lock's invariants is inductive alone. When `~Ownership` looks only at its own lists, that nobody else holds
the file follows from `_streamState` telling the truth (`StateMatchesHolder`); that the client it grants is not already
an owner follows from listed clients being waiting ones, each listed once (`WaitersListed`); that an idle lock
has no waiters (`NoLostWakeup`) needs both. So

    IInv == TypeOK /\ SingleOwner /\ StateMatchesHolder /\ WaitersListed /\ NoLostWakeup

is the inductive invariant. `InitInv` and one lemma per
action (`StepTakeWrite`, ..., `StepDrop`) give `StepInv`, from which `Inductive` (`Spec => []IInv`) and then

* `TypeCorrect`, `MutualExclusion`, `StateIsTruthful`, `NoWakeupIsLost`, `NoWaiterIsForgotten` - the five invariants (the run
  `ownership` checks three of them; `StateMatchesHolder` and `WaitersListed` are what the proof needs);
* `GrantsHaveBytes` - the action property `GrantHasBytes`;
* `ImplementsFileAccess` - `Spec => ExclusiveAccess`: the initial states map to initial states of `FileAccess`
  (`RefineInit`), every step to a step or a stutter (`RefineStep`).

They rest on lemmas about sequences: `RemoveAtProperties` (what `vector::erase` deletes and keeps), `ListedAppend` and
`ListedRemove` (a client is listed at most once through both operations).

### The schema migration

`SchemaDeployProofs` is about `SchemaDeploy` for every set of tables, columns, keys and indices with versions that satisfy
`SchemaAssumption`. `MigratedLikeNew` and `TypeOK` need that an index that exists, or that a script is about to create,
belongs to the version of the database (`IndicesKnown`): only then does the next script not create it again.
`RunningHasItsTables` needs that a release runs on a database at least as new as what the release deploys (`NewEnough`),
and that this target is the greatest version its definition names, which exists because versions are bounded
(`Greatest`, `TargetFacts`). `IInv`, the conjunction, is inductive: steps that leave the database alone share the lemma `StepIdle`,
`StepDeploy` shows that a script adds exactly the difference between two versions. `TypeCorrect`, `MigrationIsExact`,
`ReleasesFindTheirTables` and `IndicesAppear` (an index is there unless its script was cut off) follow.

### The job queue

`JobQueueProofs` is about any set of plain and scoped jobs and every answer of SQLite. That a scope's statements reach
the database together (`ScopesReachTheDatabaseWhole`) and that tasks tell the truth (`ResultsAreTrue`) need to know, at each
point of the worker, which statements wait for the COMMIT and whose transaction is open (`ScopeIsExact`), that the worker runs a job
that nobody else runs (`WorkerIsExact`, `QueueIsExact`), and that no statement of an unfinished job is in the database
(`NothingEarly`). The last, and the truth of tasks, are claimed only until a COMMIT was busy (`wasBusy`): afterwards they
are false, which is the finding of section 5; the atomicity of scopes survives it.

### The download loop

`DownloadLoopProofs` is about any tracks, requests, reports and messages under way. The jobs and the reports are two
invariants that no step mixes (`JobInv`, `ReportInv`). A loop that sleeps, before the application ends, has found no
job; every job it does not know of belongs to a request that has inserted it and owes a wake-up (`NewJobsWake`), from
which `SleepForgetsNoJob`. `JobsAreSound` needs that an attempt's job is the oldest of the table and the only one of its
track: a second request for the same track, or one that names a track twice, inserts nothing that is there, and
finishing an attempt therefore removes one row (`MissingFacts`, `WithoutFacts`). `ReportsAreKept` needs that the
identifier a message holds is that of its row or was reused (`SentAreKnown`), and that identifiers are unique and never
below the report's number (`IdsAreUnique`).

### Track events

`MusicPlayerProofs` follows the composition: `CoverInv` is kept by the steps of the covers and by nothing else,
`MediatorInv` by those of the mediator, `PlayerInv` by the rest, and each step of `TrackEvents` is a step, or a stutter, of each of
the three. `MediatorInv` adds that a callback runs under the lock its thread holds (`CallbacksHoldTheLock`), so
that nobody changes the list below a `raise()`, and that a subscriber is registered from the end of its constructor to
its destructor (`HeldAreRegistered`). `PlayerInv` adds what is under way when the last event came alone: one handler, with the player's
own item (`TrackUnderWay`, `StateUnderWay`). The theorems are `EventsFollowed` (the invariant of the run) and
`SubscribersAreCalled`.

### The stream cache and its clean-up

`TrackCacheProofs` proves, for any qualities, versions, sizes and buffers:

* under every fault: `TypeCorrect` and `ReadsAndWritesApart`, from `TypeInv`, which relates the holder of the lock to the
  point each coroutine is at (`Locked`);
* when only the network fails (`Faults = {}`): `RowsNameTheirBytes` and `SwitchesPlayOneFile`, for any number of
  qualities and of requests, until one of them puts an outdated row back (`overwritten`). The open record is of the
  server's file, its blocks too, and so is what is in the buffer (`SessionInv`). A row that is put back and not outdated
  counts no more than the row it replaces, of the same version, so its blocks are there (`RowCoherent`). Each other
  fault alone makes the first false (TLC shows it on two qualities): after a kill, for example, the block that was
  written and not recorded may have replaced one of another quality;
* with one quality (`SingleQuality`), server files that change between sessions, and data told from error pages
  (`Calm`), whatever else fails: `PlaysOneFile` and `CompleteRowsAreWhole`, under the same exception. Rows and requests
  name no version that the server has not had yet (`Dates`). A row of the server's version counts no more than the open
  record, and a row of an older version is not complete (`RowBehind`), so that a block written and not recorded harms no
  row that is believed (`RowHolds`). Each hypothesis is needed: TLC finds `PlaysOneFile` violated with two qualities and
  kills, with a server file that changes in a session, and with error pages that arrive as data;
* under every fault and with the clean-up: `CleanUpKeepsPromises` and `ReadsFindTheirBytes`. All four records that count
  blocks, the row, the one in memory, the coroutine's copy and the read that was let in, are backed by the file or
  marked in `wronged` (`Claims`), and so is what each request has read, unless it is in `misled` (`RequestsBacked`). One
  lemma (`ClaimsFollow`) says when a step keeps them: the file grows, and each record comes from another that was
  backed;
* also under every fault and with the clean-up: `TracksObeyTheLock`. An open track behaves as `FileAccess` allows
  (`Obeys`): only the owner of the file raises `local_size`, only a download that neither has the file nor waits for it
  resets it, nobody asks twice. It needs that the coroutine's copy, which replaces `_track` after a write, never counts
  less than `_track` (`Using`). `StreamOwnership` supposes this of its clients (`AppendBlock`, `ResetTrack`), and by
  `ImplementsFileAccess` gives them what `TrackCache` supposes of the lock. One thing differs: a read whose count has
  wrapped asks for more than any bound on the size.

### The offline storage

`OfflineStorageProofs` is about any qualities, versions, sizes and every fault, the clean-up and the player among them.
`ImportInv` says what an attempt knows at each await: its copy is the job's row but between a change and its record, and
its web stream is of the version the copy names. Whether the answer carries that version or an error page is `body`:
blocks of a page are exempted by `wronged` from the moment they are counted, and passed on to the row (`Passed`).
`ShapeInv` adds that import and player never have the file open together (`OneUserAtATime`), which is why the clean-up
cannot delete it below them. Then

* `JobsCountTheirVersion`: the counted blocks are of the version the row names, those about to be counted included
  (`JobHolds`), since a write, complete or torn, touches only blocks behind them (`WrittenBlocks`);
* `ImportedRowsAreWhole`: while the server's files stay, an attempt writes only below a row of the quality it downloads
  (`TargetKept`), and therefore what is there already (`WrittenKeepsRow`);
* `FinishedOnlyWhole` and `ProgressIsKept`, the two action properties.

### The play queue

`MusicPlayerProofs` is also about any playlists, positions, requests and numbers of calls and loads at one time.
`RequestsAreGranted` needs to follow the request that ran alone through its life: it is one call, then one load, and at each await a
part of what it asked for is done (`AskInv`, whose parts are `CallAsks`, `LoadAsks` and `Granted`). That the slot of a
new call or load is free rests on the well-foundedness of the naturals (`FirstIsFree`).

### The favorites

`FavoritesProofs` is about any users, kinds and items and any number of refreshes and edits at one time.
`FavoritesMirrored` is the invariant of the run: a kind that nothing has overlapped since its last refresh mirrors the
server. It is not inductive, because between `Accept` and `Finish` the server is ahead of the memory. `IInv` says by how
much: by the one accepted edit, applied to what the memory has (`Ahead`, in `Mirroring`). That there is only one, of the
user who is still signed in and from a button that was right, is `EditsAlone`; that an answer a refresh has received is
still what the server has, unless something overlapped the refresh in that kind, is `RefreshesAlone`. Each handler keeps
these (`TakeKept`, `StartEditKept`, `AcceptKept`, `FinishKept`, ...).

They rest on lemmas about lists. A list without duplicates is one of the server's, since it is no longer than there are items
(`ListsWithoutDuplicates`, by counting); an item put in front of a list that lacks it, or removed from one,
leaves such a list (`InFront`, `Removed`); and the search of `remove...Async` for the first occurrence removes what the server
removes (`RemovedFirst`, `Removed`).

### What proving changed

Each inductive invariant was first checked by TLC on the instance of its run. Where a proof did not go through for a good reason,
the model was made more exact: a playlist may name a track twice, and what keeps its second place from getting a second job is that
each look-up sees what the same transaction has inserted (`DownloadLoop`); the alternatives of `Deceived` overlapped, which leaves a `CASE`
unspecified (`CacheCleanUp`); there is at least one quality (`CacheAssumption`); no row is none of the rows
(`NoRowAssumption`); the kinds are a sequence and the items a finite set (`FavoritesAssumption`), and the server removes an
item at its position (`Without`), which needs no recursion over the list.

### Model-checked only

Everything under fairness (`Served`, `DownloadCompletes`, `ReadServed`, `JobsEnd`, `JobsHandled`, `ReportsDelivered`,
`ShutdownCompletes`, `JobsAnswered`, `DestructionCompletes`, `Converges`, `QueueComes`, `HandlersReturn`), which is out of
the prover's reach. Every safety property of the passing runs is a theorem, from the hypotheses named above.

## 7. Plan

Of the model itself: the sharing of one database worker by the loop, the cache and the pages.

## 8. Not modelled

The last components of the inventory. Incremental lists belong to one page each, load one page of results at a time on
the dispatcher's thread and share nothing with the other components; the pool of background images is presentation.
Pages, view models and animations present state that other components keep; API queries turn parameters into an address
and JSON into records; the obfuscating stream is a bytewise exclusive-or; the background audio process is the
predecessor of the current player and is no longer in `Tidal.sln`; cpprestsdk, Date and the coroutine adapter are
third-party code. Inside modelled components: the prepared-statement cache, parameter binding and row mapping of the
database layer (local to one statement on the worker thread), the text of SQL, covers and the rows of albums and
playlists in `DownloadService`, the sizes and counts of the page of settings, the tile, the settings and the display
properties a track's handler fills in, covers of other sizes (the same code with another file name) and callers of the
cover cache that give up, `AsyncMediator`, tokens and countries of the session, and the length of an imported file
beyond its recorded size (it is never truncated; see the hazards).
