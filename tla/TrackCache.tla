----------------------------- MODULE TrackCache -----------------------------
(***************************************************************************)
(* The cache of one streamed track (CachedStreamProvider.cpp): its row in  *)
(* the database, its file in track_cache, the HttpCacheStateMachine that   *)
(* fills the file from the server while the media pipeline reads it, and   *)
(* what survives when the application is killed.                           *)
(*                                                                         *)
(* Bytes are counted in blocks and only their origin is kept: a block of   *)
(* the file holds the version <<quality, timestamp>> of the server file it *)
(* was read from.  The URL of one WebStream names one version.  The lock   *)
(* of the file is FileAccess, which StreamOwnership implements.            *)
(*                                                                         *)
(* A track may be asked for again while an earlier request is under way or *)
(* its stream is still open.  Each request reads the row first; the file   *)
(* comes after it and is held by one of them: it is opened ReadWrite, and  *)
(* Windows refuses to open a file of which such a stream is open.  (Two    *)
(* requests that only read a complete file are let in one after the other.)*)
(***************************************************************************)
EXTENDS Naturals, FiniteSets

CONSTANTS
  Qualities,     (* streaming qualities the user selects                    *)
  MaxStamp,      (* server timestamps are 1..MaxStamp                       *)
  Size,          (* number of blocks of each version                        *)
  MaxBlocks,     (* the largest of them                                     *)
  Chunk,         (* blocks one network read returns at most (128 KiB)       *)
  CountModulus,  (* 2^32: the count of a read is an unsigned int            *)
  MaxPending,    (* different requests that have read the row, at most      *)
  Faults,        (* what the environment may do, out of the set below       *)
  Garbage,       (* bytes that come from no version: an HTTP error page     *)
  Blank          (* a block never written                                   *)

AllFaults == {"crash", "io", "change", "error_body"}

Stamps == 1..MaxStamp
Versions == Qualities \X Stamps
Blocks == 0..(MaxBlocks - 1)

ASSUME CacheAssumption ==
  /\ Qualities # {} /\ 0 \notin Qualities
  /\ MaxStamp \in Nat \ {0} /\ MaxBlocks \in Nat \ {0} /\ Chunk \in Nat \ {0}
  /\ CountModulus \in Nat /\ CountModulus > MaxBlocks
  /\ Size \in [Versions -> 1..MaxBlocks] /\ MaxPending \in Nat
  /\ Faults \subseteq AllFaults
  /\ Garbage \notin Versions /\ Blank \notin Versions \cup {Garbage}

VARIABLES
  server,     (* timestamp of the server's file, for each quality (external) *)
  row,        (* cached_track row of the database                            *)
  file,       (* origin of each block of track_cache/<id>                    *)
  pending,    (* what the requests that wait for the file have read          *)
  mode,       (* how the track is open                                       *)
  wanted,     (* _soundQuality                                               *)
  track,      (* _track                                                      *)
  web,        (* version _webStream reads, or Blank when it is null          *)
  dl,         (* where continueDownloadingAsync and its retry loop are       *)
  copy,       (* the coroutine's local `track`                               *)
  buffer,     (* resultBuffer: origin and length of the blocks received      *)
  position,   (* _position of the stream the media pipeline reads            *)
  reading,    (* where the ReadBlockAsync coroutine is                       *)
  cancelled,  (* the token linked to _cts is cancelled                       *)
  user, waiting, need,  (* the file lock, see FileAccess                     *)
  overwritten (* a request has put back a row that was not the table's any   *)
              (* more and promised other bytes (ghost)                       *)

session == <<mode, wanted, track, web, dl, copy, buffer, position, reading,
             cancelled, user, waiting, need>>
lock == <<user, waiting, need>>
opens == <<pending, overwritten>>
vars == <<server, row, file, session, opens>>

Access == INSTANCE FileAccess WITH
  Readers <- {"reader"}, Writers <- {"downloader"}, MaxSize <- MaxBlocks,
  NoOne <- "nobody", localSize <- track.local, alive <- (mode = "partial")

Tracks == [quality : Qualities \cup {0}, stamp : Stamps \cup {0},
           size : 0..MaxBlocks, local : 0..MaxBlocks]
Requests == [quality : Qualities, seen : Tracks]
Modes == {"closed", "touching", "opening", "partial", "complete"}
DownloadPoints == {"off", "retry", "loop", "initialize", "read", "own", "write", "update"}

TypeOK ==
  /\ server \in [Qualities -> Stamps]
  /\ row \in Tracks /\ track \in Tracks /\ copy \in Tracks
  /\ file \in [Blocks -> Versions \cup {Garbage, Blank}]
  /\ mode \in Modes /\ wanted \in Qualities
  /\ web \in Versions \cup {Blank}
  /\ dl \in DownloadPoints
  /\ buffer \in [from : Versions \cup {Garbage, Blank}, length : 0..Chunk]
  /\ position \in 0..MaxBlocks
  /\ reading \in {"no", "asked", "yes"}
  /\ cancelled \in BOOLEAN
  /\ user \in {"reader", "downloader", "nobody"}
  /\ waiting \subseteq {"reader", "downloader"}
  /\ need \in [{"reader"} -> Nat]
  /\ pending \subseteq Requests /\ overwritten \in BOOLEAN

Version(t) == <<t.quality, t.stamp>>
Complete(t) == t.local = t.size /\ t.size # 0

(* A new row, as getOrCreateCachedTrackInfoAsync inserts it. *)
NewTrack == [quality |-> 0, stamp |-> 0, size |-> 0, local |-> 0]
NoBuffer == [from |-> Blank, length |-> 0]

Init ==
  /\ server = [q \in Qualities |-> 1]
  /\ row = NewTrack
  /\ file = [b \in Blocks |-> Blank]
  /\ mode = "closed" /\ wanted = (CHOOSE q \in Qualities : TRUE)
  /\ track = NewTrack /\ copy = NewTrack
  /\ web = Blank /\ dl = "off" /\ buffer = NoBuffer
  /\ position = 0 /\ reading = "no" /\ cancelled = FALSE
  /\ user = "nobody" /\ waiting = {} /\ need = [r \in {"reader"} |-> 0]
  /\ pending = {} /\ overwritten = FALSE

-----------------------------------------------------------------------------
(* Opening: resolveCachedStreamAsync *)

(* The row is read, or created, while the quality that is wanted is q.     *)
ReadRow(q) ==
  /\ pending' = pending \cup {[quality |-> q, seen |-> row]}
  /\ Cardinality(pending') <= MaxPending
  /\ UNCHANGED <<server, row, file, session, overwritten>>

(* The request is cancelled, or the file is not there or in use.           *)
RequestFails(r) ==
  /\ r \in pending
  /\ pending' = pending \ {r}
  /\ UNCHANGED <<server, row, file, session, overwritten>>

(* One of the requests that have read this row gets the file.              *)
OpenFile(r) ==
  /\ mode = "closed" /\ r \in pending
  /\ pending' \in {pending, pending \ {r}}
  /\ wanted' = r.quality /\ track' = r.seen
  /\ mode' = "touching"
  /\ UNCHANGED <<server, row, file, web, dl, copy, buffer, position, reading, cancelled, lock,
                 overwritten>>

(* A complete file of the wanted quality is played as it is, without       *)
(* asking the server; any other is given to a state machine.               *)
Playable == track.quality = wanted /\ Complete(track)

(* The row that was read promises bytes the row of the table does not.     *)
Outdated == track.local > 0 /\ ~(Version(track) = Version(row) /\ track.local <= row.local)

(* The row is written as it was read, with a new time of last playback.    *)
PutBack ==
  /\ mode = "touching" /\ ~cancelled
  /\ row' = track
  /\ mode' = IF Playable THEN "complete" ELSE "opening"
  /\ overwritten' = (overwritten \/ Outdated)
  /\ UNCHANGED <<server, file, pending, wanted, track, web, dl, copy, buffer, position, reading,
                 cancelled, lock>>

(* Mutants: the new version is noted but the bytes are kept; the date of   *)
(* the server file is not compared.                                        *)
InitializedKeepingBytes(t, q, v) ==
  [quality |-> q, stamp |-> v[2], size |-> Size[v],
   local |-> IF t.local <= Size[v] THEN t.local ELSE 0]

InitializedUndated(t, q, v) ==
  IF t.size # Size[v] \/ t.quality # q
  THEN [quality |-> q, stamp |-> v[2], size |-> Size[v], local |-> 0]
  ELSE t

(* The record after initializeAsync has found version v on the server: a   *)
(* file of another size, quality or date starts again from nothing.        *)
Initialized(t, q, v) ==
  IF t.size # Size[v] \/ t.quality # q \/ t.stamp # v[2]
  THEN [quality |-> q, stamp |-> v[2], size |-> Size[v], local |-> 0]
  ELSE t

(* initializeAsync, not protected by the lock and silent on the row.       *)
Initialize ==
  LET v == <<wanted, server[wanted]>>
  IN  /\ track' = Initialized(track, wanted, v)
      /\ web' = v

OpenSucceeds ==
  /\ mode = "opening" /\ ~cancelled
  /\ Initialize
  /\ mode' = "partial"
  /\ dl' = "retry"
  /\ UNCHANGED <<opens, server, row, file, wanted, copy, buffer, position, reading, cancelled, lock>>

(* The session ends and with it everything that was only in memory.        *)
EndSession ==
  /\ mode' = "closed" /\ wanted' = (CHOOSE q \in Qualities : TRUE)
  /\ track' = NewTrack /\ copy' = NewTrack
  /\ web' = Blank /\ dl' = "off" /\ buffer' = NoBuffer
  /\ position' = 0 /\ reading' = "no" /\ cancelled' = FALSE
  /\ user' = "nobody" /\ waiting' = {} /\ need' = [r \in {"reader"} |-> 0]

(* A timeout, a network error, a refused track, a cancelled token or a     *)
(* failing database.                                                       *)
OpenFails ==
  /\ mode \in {"touching", "opening"}
  /\ EndSession
  /\ UNCHANGED <<opens, server, row, file>>

-----------------------------------------------------------------------------
(* The download: continueDownloadingAsync under retryWithDelays.  Every    *)
(* exception but a cancellation ends the coroutine; one second later a new *)
(* one starts from a fresh copy of _track.                                 *)

Failed == dl' = "retry"

StartCoroutine ==
  /\ mode = "partial" /\ dl = "retry"
  /\ IF track.local # track.size
     THEN dl' = "loop" /\ copy' = track
     ELSE dl' = "off" /\ UNCHANGED copy
  /\ UNCHANGED <<opens, server, row, file, mode, wanted, track, web, buffer, position, reading,
                 cancelled, lock>>

LoopHead ==
  /\ dl = "loop"
  /\ dl' = IF copy.local = copy.size THEN "off"
           ELSE IF web = Blank THEN "initialize" ELSE "read"
  /\ UNCHANGED <<opens, server, row, file, mode, wanted, track, web, copy, buffer, position, reading,
                 cancelled, lock>>

(* The web stream was lost: initializeAsync runs again.  It may replace    *)
(* _track; the coroutine goes on with its own copy.                        *)
ReinitializeSucceeds ==
  /\ dl = "initialize" /\ ~cancelled
  /\ Initialize
  /\ dl' = "read"
  /\ UNCHANGED <<opens, server, row, file, mode, wanted, copy, buffer, position, reading, cancelled, lock>>

ReinitializeFails ==
  /\ dl = "initialize" /\ ~cancelled
  /\ Failed
  /\ UNCHANGED <<opens, server, row, file, mode, wanted, track, web, copy, buffer, position, reading,
                 cancelled, lock>>

(* A cancelled token makes every await fail with task_canceled, which the  *)
(* loop swallows: it starts over for as long as the state machine lives.   *)
CancelledAwait ==
  /\ dl \in {"initialize", "read"} /\ cancelled
  /\ dl' = "loop"
  /\ UNCHANGED <<opens, server, row, file, mode, wanted, track, web, copy, buffer, position, reading,
                 cancelled, lock>>

(* Mutant: the end of the server file is not taken into account. *)
ResponsesUnbounded == {[from |-> web, length |-> n] : n \in 1..Chunk}

(* What a read of the web stream at copy.local may return: some of the     *)
(* blocks of its version, nothing at the end of them, or the body of an    *)
(* error response, whose status is not tested.                             *)
Responses ==
  LET left == IF copy.local < Size[web] THEN Size[web] - copy.local ELSE 0
      data == {[from |-> web, length |-> n] : n \in {k \in 1..Chunk : k <= left}}
      page == {[from |-> Garbage, length |-> n] : n \in {k \in 1..Chunk : copy.local + k <= MaxBlocks}}
  IN  (IF left = 0 THEN {NoBuffer} ELSE data)
        \cup (IF "error_body" \in Faults THEN page ELSE {})

(* The blocks are there: ask for the file at once. *)
ReadSucceeds ==
  /\ dl = "read" /\ ~cancelled
  /\ buffer' \in Responses
  /\ dl' = "own"
  /\ UNCHANGED <<opens, server, row, file, mode, wanted, track, web, copy, position, reading, cancelled>>
  /\ Access!Write("downloader")

(* Mutant: the exception ends the download. *)
ReadFailsForGood ==
  /\ dl = "read" /\ ~cancelled
  /\ dl' = "off"
  /\ UNCHANGED <<opens, server, row, file, mode, wanted, track, web, copy, buffer, position, reading,
                 cancelled, lock>>

(* Five seconds without an answer, or a connection error, which drops the  *)
(* web stream.                                                             *)
ReadFails ==
  /\ dl = "read" /\ ~cancelled
  /\ Failed
  /\ web' \in {web, Blank}
  /\ UNCHANGED <<opens, server, row, file, mode, wanted, track, copy, buffer, position, reading,
                 cancelled, lock>>

(* Mutants: the row is updated before the file is written; the lock is not *)
(* awaited.                                                                *)
OwnFileRowFirst ==
  /\ dl = "own" /\ user = "downloader"
  /\ dl' = "write"
  /\ row' = [copy EXCEPT !.local = @ + buffer.length]
  /\ UNCHANGED <<opens, server, file, mode, wanted, track, web, copy, buffer, position, reading,
                 cancelled, lock>>

OwnFileUnasked ==
  /\ dl = "own"
  /\ dl' = "write"
  /\ UNCHANGED <<opens, server, row, file, mode, wanted, track, web, copy, buffer, position, reading,
                 cancelled, lock>>

OwnFile ==
  /\ dl = "own" /\ user = "downloader"
  /\ dl' = "write"
  /\ UNCHANGED <<opens, server, row, file, mode, wanted, track, web, copy, buffer, position, reading,
                 cancelled, lock>>

(* The file after the received block has been written at copy.local. *)
Written ==
  [b \in Blocks |-> IF b \in copy.local..(copy.local + buffer.length - 1)
                    THEN buffer.from ELSE file[b]]

(* Seek, write and flush; then _track takes the value of the copy. *)
WriteSucceeds ==
  /\ dl = "write"
  /\ file' = Written
  /\ copy' = [copy EXCEPT !.local = @ + buffer.length]
  /\ track' = copy'
  /\ dl' = "update"
  /\ UNCHANGED <<opens, server, row, mode, wanted, web, buffer, position, reading, cancelled, lock>>

(* The write or the flush throws; the file may have been written or not.   *)
WriteFails ==
  /\ "io" \in Faults
  /\ dl = "write"
  /\ file' \in {file, Written}
  /\ Failed
  /\ UNCHANGED <<opens, server, row, mode, wanted, track, web, copy, buffer, position, reading, cancelled>>
  /\ Access!Finish

(* The row is updated in one transaction while the file is still owned;    *)
(* the ownership ends with the block.                                      *)
UpdateSucceeds ==
  /\ dl = "update"
  /\ row' = copy
  /\ dl' = "loop"
  /\ buffer' = NoBuffer
  /\ UNCHANGED <<opens, server, file, mode, wanted, track, web, copy, position, reading, cancelled>>
  /\ Access!Finish

UpdateFails ==
  /\ "io" \in Faults
  /\ dl = "update"
  /\ Failed
  /\ UNCHANGED <<opens, server, row, file, mode, wanted, track, web, copy, buffer, position, reading, cancelled>>
  /\ Access!Finish

(* The delay of retryWithDelays is interrupted by the cancellation. *)
RetryAbandoned ==
  /\ mode = "partial" /\ dl = "retry" /\ cancelled
  /\ dl' = "off"
  /\ UNCHANGED <<opens, server, row, file, mode, wanted, track, web, copy, buffer, position, reading,
                 cancelled, lock>>

-----------------------------------------------------------------------------
(* The media pipeline: Seek, then ReadAsync, one read at a time.           *)

(* Mutant: a read that passes the end of the track is not shortened. *)
EndOfReadUnclamped(pos, count) == pos + count

(* count + position after ReadBlockAsync has shortened count.  The         *)
(* difference is cut to the width of count: past the end of a track that   *)
(* has become shorter it wraps round and the read asks for bytes that will *)
(* never be there.                                                         *)
EndOfRead(pos, count) ==
  IF count + pos > track.size
  THEN pos + ((track.size - pos) % CountModulus)
  ELSE count + pos

ReadPartial(pos, count) ==
  /\ mode = "partial" /\ reading = "no"
  /\ pos \in {position} \cup 0..track.size
  /\ position' = pos
  /\ reading' = "asked"
  /\ UNCHANGED <<opens, server, row, file, mode, wanted, track, web, dl, copy, buffer, cancelled>>
  /\ Access!Read("reader", EndOfRead(pos, count))

(* A complete file is a plain file stream: no lock, short at its end. *)
ReadWhole(pos, count) ==
  /\ mode = "complete" /\ reading = "no"
  /\ pos \in 0..track.size
  /\ position' = pos
  /\ reading' = "yes"
  /\ need' = [need EXCEPT !["reader"] =
                IF pos + count > track.size THEN track.size ELSE pos + count]
  /\ UNCHANGED <<opens, server, row, file, mode, wanted, track, web, dl, copy, buffer, cancelled,
                 user, waiting>>

(* Mutant: the file is read as soon as its bytes are there. *)
StartReadUnasked ==
  /\ reading = "asked" /\ need["reader"] <= track.local
  /\ reading' = "yes"
  /\ UNCHANGED <<opens, server, row, file, mode, wanted, track, web, dl, copy, buffer, position,
                 cancelled, lock>>

StartRead ==
  /\ reading = "asked" /\ user = "reader"
  /\ reading' = "yes"
  /\ UNCHANGED <<opens, server, row, file, mode, wanted, track, web, dl, copy, buffer, position,
                 cancelled, lock>>

(* The file gives its bytes and the position moves past them. *)
EndRead ==
  /\ reading = "yes"
  /\ reading' = "no"
  /\ position' = need["reader"]
  /\ UNCHANGED <<opens, server, row, file, mode, wanted, track, web, dl, copy, buffer, cancelled>>
  /\ IF mode = "partial" THEN Access!Finish ELSE UNCHANGED lock

-----------------------------------------------------------------------------
(* The rest of the world *)

(* The media source drops the stream.  A coroutine that holds a shared_ptr *)
(* to the state machine finishes its step first.                           *)
Close ==
  /\ mode \in {"partial", "complete"}
  /\ dl \notin {"initialize", "write", "update"} /\ reading # "yes"
  /\ EndSession
  /\ UNCHANGED <<opens, server, row, file>>

(* MediaBindingEventArgs.Canceled *)
Cancel ==
  /\ mode \in {"touching", "opening", "partial"} /\ ~cancelled
  /\ cancelled' = TRUE
  /\ UNCHANGED <<opens, server, row, file, mode, wanted, track, web, dl, copy, buffer, position,
                 reading, lock>>

(* The application is killed.  A write may have reached the file or not,   *)
(* a transaction the database or not.                                      *)
Crash ==
  /\ "crash" \in Faults
  /\ mode # "closed"
  /\ file' \in IF dl = "write" THEN {file, Written} ELSE {file}
  /\ row' \in IF dl = "update" THEN {row, copy} ELSE IF mode = "touching" THEN {row, track} ELSE {row}
  /\ overwritten' = (overwritten \/ (mode = "touching" /\ row' = track /\ Outdated))
  /\ pending' = {} /\ EndSession
  /\ UNCHANGED server

(* The server publishes another file for the track. *)
ServerChanges(q) ==
  /\ server[q] < MaxStamp
  /\ mode = "closed" \/ "change" \in Faults
  /\ server' = [server EXCEPT ![q] = @ + 1]
  /\ UNCHANGED <<opens, row, file, session>>

Download ==
  \/ StartCoroutine \/ LoopHead \/ ReinitializeSucceeds \/ ReinitializeFails
  \/ CancelledAwait \/ ReadSucceeds \/ ReadFails \/ OwnFile
  \/ WriteSucceeds \/ WriteFails \/ UpdateSucceeds \/ UpdateFails \/ RetryAbandoned

Play ==
  \/ \E pos \in 0..MaxBlocks, count \in 1..MaxBlocks : ReadPartial(pos, count) \/ ReadWhole(pos, count)
  \/ StartRead \/ EndRead

Next ==
  \/ \E q \in Qualities : ReadRow(q) \/ ServerChanges(q)
  \/ \E r \in pending : RequestFails(r) \/ OpenFile(r)
  \/ PutBack \/ OpenSucceeds \/ OpenFails
  \/ Download \/ Play
  \/ Close \/ Cancel \/ Crash

(* The thread pool runs what can run.  The network is only fair in the     *)
(* strong sense: a download that is retried for ever succeeds now and then.*)
Fairness ==
  /\ WF_vars(StartCoroutine) /\ WF_vars(LoopHead) /\ WF_vars(OwnFile)
  /\ WF_vars(WriteSucceeds) /\ WF_vars(UpdateSucceeds)
  /\ WF_vars(StartRead) /\ WF_vars(EndRead)
  /\ SF_vars(ReinitializeSucceeds) /\ SF_vars(ReadSucceeds)

Spec == Init /\ [][Next]_vars

FairSpec == Spec /\ Fairness

-----------------------------------------------------------------------------
(* Properties *)

Holds(t, origin) == \A b \in Blocks : b < t.local => file[b] = origin

(* What is playing is one file: every block below local_size comes from    *)
(* the version _track names.  (The server may change between sessions, the *)
(* application may be killed and writes may fail.)  The exception: another *)
(* request has written the row it had read over what a session recorded    *)
(* meanwhile (getPartialStreamAsync, getCompleteStreamAsync).              *)
TrackCoherent ==
  mode \in {"partial", "complete"} /\ ~overwritten => Holds(track, Version(track))

(* A row that says its file is complete is trusted without asking the      *)
(* server again: its file then is the version it names, entirely, with the *)
(* same exception (resolveCachedStreamAsync).                              *)
CompleteRowCoherent == Complete(row) /\ ~overwritten => Holds(row, Version(row))

(* Without crashes and failures even a partial row names the origin of all *)
(* its blocks, except while a written block is not recorded yet; so a      *)
(* quality change or a resumed download never mixes two files, unless a    *)
(* request has put an outdated row back (continueDownloadingAsync,         *)
(* getPartialStreamAsync).                                                 *)
RowCoherent == dl # "update" /\ ~overwritten => Holds(row, Version(row))

(* The one file stream is not moved or written by the download while a     *)
(* read is on it.                                                          *)
ReadsAlone == ~(mode = "partial" /\ reading = "yes" /\ dl \in {"write", "update"})

(* A read that was let in finds all its bytes in the file.                 *)
ReadsAreBacked ==
  reading = "yes" => \A b \in position..(need["reader"] - 1) : b \in Blocks /\ file[b] # Blank

(* An open track is eventually complete on disk and recorded as such, if   *)
(* it stays open and is not cancelled.                                     *)
DownloadCompletes ==
  mode = "partial" ~>
    \/ mode # "partial" \/ cancelled
    \/ dl = "off" /\ track.local = track.size /\ row = track

(* Playback never hangs on a read: it is served, or the track is closed or *)
(* cancelled.                                                              *)
ReadServed == reading = "asked" ~> reading # "asked" \/ cancelled
=============================================================================
