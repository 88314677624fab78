-------------------------- MODULE TrackCacheProofs --------------------------
(***************************************************************************)
(* Theorems about the cache of a streamed track, without the clean-up      *)
(* (TrackCache) and with it (CacheCleanUp): for any number of qualities,   *)
(* versions and blocks, and for the faults each theorem names.             *)
(***************************************************************************)
EXTENDS CacheCleanUp, TLAPS

-----------------------------------------------------------------------------
(* The session: types, the lock and what the downloader holds *)

(* Who may hold the file or wait for it, by where the two coroutines are.  *)
Locked ==
  /\ mode # "partial" => user = "nobody" /\ waiting = {} /\ dl = "off"
  /\ mode \in {"closed", "touching", "opening"} => reading = "no"
  /\ user = "downloader" \/ "downloader" \in waiting => dl \in {"own", "write", "update"}
  /\ dl \in {"write", "update"} => user = "downloader"
  /\ user = "reader" \/ "reader" \in waiting => reading # "no"
  /\ mode = "partial" /\ reading = "yes" => user = "reader"
  /\ user \notin waiting

(* A read that was let in ends within the file.                            *)
ReadsFit == user = "reader" \/ reading = "yes" => need["reader"] <= MaxBlocks

(* What was received fits behind what there is, and was read from a        *)
(* version of the server's file.                                           *)
BufferFits ==
  /\ dl = "read" => web # Blank
  /\ dl \in {"own", "write"} => copy.local + buffer.length <= MaxBlocks

TypeInv == TypeOK /\ Locked /\ ReadsFit /\ BufferFits

LEMMA Constants ==
  /\ MaxStamp \in Nat /\ MaxStamp >= 1 /\ MaxBlocks \in Nat /\ MaxBlocks >= 1
  /\ Chunk \in Nat /\ Chunk >= 1 /\ CountModulus \in Nat /\ CountModulus > MaxBlocks
  /\ \A v \in Versions : Size[v] \in 1..MaxBlocks
  /\ Blank \notin Versions /\ Garbage \notin Versions /\ Garbage # Blank
  /\ 0 \notin Qualities
BY CacheAssumption

LEMMA VersionParts ==
  ASSUME NEW q \in Qualities, NEW s \in Stamps
  PROVE  <<q, s>> \in Versions /\ <<q, s>>[1] = q /\ <<q, s>>[2] = s
BY DEF Versions

(* A record stays a record when the bytes it counts grow.                  *)
LEMMA LocalGrows ==
  ASSUME NEW t \in Tracks, NEW n \in Nat, t.local + n <= MaxBlocks
  PROVE  [t EXCEPT !.local = @ + n] \in Tracks
BY Constants DEF Tracks

LEMMA NewTrackIsOne == NewTrack \in Tracks
BY Constants DEF NewTrack, Tracks

LEMMA InitializedIsOne ==
  ASSUME NEW t \in Tracks, NEW q \in Qualities, NEW s \in Stamps
  PROVE  Initialized(t, q, <<q, s>>) \in Tracks
BY Constants, VersionParts DEF Initialized, Tracks

LEMMA WrittenIsFile ==
  ASSUME file \in [Blocks -> Versions \cup {Garbage, Blank}],
         buffer.from \in Versions \cup {Garbage, Blank}
  PROVE  Written \in [Blocks -> Versions \cup {Garbage, Blank}]
BY DEF Written

LEMMA SessionEnds ==
  ASSUME TypeInv, EndSession, row' \in Tracks, server' \in [Qualities -> Stamps],
         file' \in [Blocks -> Versions \cup {Garbage, Blank}],
         pending' \subseteq Requests, overwritten' \in BOOLEAN
  PROVE  TypeInv'
<1>1. (CHOOSE q \in Qualities : TRUE) \in Qualities  BY DEF TypeInv, TypeOK
<1>2. NoBuffer \in [from : Versions \cup {Garbage, Blank}, length : 0..Chunk]
      /\ 0 \in 0..MaxBlocks /\ [r \in {"reader"} |-> 0] \in [{"reader"} -> Nat]
      /\ web' \in Versions \cup {Blank}
  BY Constants DEF EndSession, NoBuffer
<1>3. /\ mode' \in Modes /\ dl' \in DownloadPoints /\ reading' \in {"no", "asked", "yes"}
      /\ cancelled' \in BOOLEAN /\ user' \in {"reader", "downloader", "nobody"}
      /\ waiting' \subseteq {"reader", "downloader"}
  BY DEF EndSession, Modes, DownloadPoints
<1>4. TypeOK'
  BY <1>1, <1>2, <1>3, NewTrackIsOne DEF TypeOK, EndSession
<1> QED BY <1>4, Constants DEF TypeInv, EndSession, Locked, ReadsFit, BufferFits

(* The database, the file, the server and the requests change, the session *)
(* does not.                                                               *)
LEMMA SessionStays ==
  ASSUME TypeInv, UNCHANGED session, row' \in Tracks, server' \in [Qualities -> Stamps],
         file' \in [Blocks -> Versions \cup {Garbage, Blank}],
         pending' \subseteq Requests, overwritten' \in BOOLEAN
  PROVE  TypeInv'
BY DEF TypeInv, TypeOK, session, lock, Locked, ReadsFit, BufferFits

(* A step of the download that has no part in the lock, from anywhere but  *)
(* where the file is asked for and held.                                   *)
LEMMA DownloadMoves ==
  ASSUME TypeInv, dl \in {"retry", "loop", "initialize", "read"},
         dl' \in {"off", "retry", "loop", "initialize", "read"},
         track' \in Tracks, copy' \in Tracks, web' \in Versions \cup {Blank},
         dl' = "read" => web' # Blank,
         UNCHANGED <<opens, server, row, file, mode, wanted, buffer, position, reading, cancelled,
                     lock>>
  PROVE  TypeInv'
<1>1. TypeOK'  BY DEF TypeInv, TypeOK, DownloadPoints, lock, opens
<1> QED BY <1>1 DEF TypeInv, Locked, ReadsFit, BufferFits, lock

(* The download gives the file back, after what it has done to the data.   *)
LEMMA DownloadGivesBack ==
  ASSUME TypeInv, dl \in {"write", "update"}, dl' \in {"loop", "retry"}, Access!Finish,
         buffer' \in {buffer, NoBuffer}, row' \in Tracks,
         file' \in [Blocks -> Versions \cup {Garbage, Blank}],
         UNCHANGED <<opens, server, mode, wanted, track, web, copy, position, reading, cancelled>>
  PROVE  TypeInv'
<1>1. /\ user = "downloader" /\ waiting \subseteq {"reader"} /\ need' = need
      /\ mode = "partial"
  BY DEF TypeInv, TypeOK, Locked, Access!Finish
<1>2. /\ user' \in {"reader", "nobody"} /\ waiting' = waiting \ {user'}
      /\ user' = "reader" => "reader" \in waiting /\ need["reader"] <= track.local
  BY <1>1 DEF Access!Finish, Access!Servable
<1>3. track.local <= MaxBlocks /\ track.local \in Nat /\ need["reader"] \in Nat
      /\ NoBuffer \in [from : Versions \cup {Garbage, Blank}, length : 0..Chunk]
  BY Constants DEF TypeInv, TypeOK, Tracks, NoBuffer
<1>4. TypeOK'
  BY <1>1, <1>2, <1>3 DEF TypeInv, TypeOK, DownloadPoints, opens
<1>5. Locked'  BY <1>1, <1>2 DEF TypeInv, Locked
<1>6. ReadsFit'  BY <1>1, <1>2, <1>3, Constants DEF TypeInv, ReadsFit
<1>7. BufferFits'  BY DEF BufferFits
<1> QED BY <1>4, <1>5, <1>6, <1>7 DEF TypeInv

LEMMA InitializedSession ==
  ASSUME TypeInv, Initialize
  PROVE  /\ track' \in Tracks /\ web' \in Versions /\ web' # Blank
         /\ web' = <<wanted, server[wanted]>>
BY InitializedIsOne, VersionParts, Constants DEF TypeInv, TypeOK, Initialize

(* The row is read, or the request given up.                               *)
LEMMA TypesWaits ==
  ASSUME TypeInv, (\E q \in Qualities : ReadRow(q)) \/ (\E r \in pending : RequestFails(r))
  PROVE  TypeInv'
<1>1. UNCHANGED <<server, row, file, overwritten>> /\ UNCHANGED session
  BY DEF ReadRow, RequestFails
<1>2. row \in Tracks /\ pending \subseteq Requests  BY DEF TypeInv, TypeOK
<1>3. \A q \in Qualities : [quality |-> q, seen |-> row] \in Requests
  BY <1>2 DEF Requests
<1>4. pending' \subseteq Requests  BY <1>2, <1>3 DEF ReadRow, RequestFails
<1> QED BY <1>1, <1>4, SessionStays DEF TypeInv, TypeOK

LEMMA TypesOpenFile ==
  ASSUME TypeInv, NEW r \in pending, OpenFile(r)
  PROVE  TypeInv'
<1>1. r.quality \in Qualities /\ r.seen \in Tracks  BY DEF TypeInv, TypeOK, Requests
<1>2. pending' \subseteq Requests  BY DEF TypeInv, TypeOK, OpenFile
<1>3. TypeOK'  BY <1>1, <1>2 DEF TypeInv, TypeOK, OpenFile, Modes, lock
<1> QED BY <1>3 DEF TypeInv, Locked, ReadsFit, BufferFits, OpenFile, lock

LEMMA TypesPutBack == ASSUME TypeInv, PutBack \/ PutBackMisses PROVE TypeInv'
<1>1. /\ mode = "touching" /\ mode' \in {"complete", "opening"}
      /\ row' \in Tracks /\ pending' = pending /\ overwritten' \in BOOLEAN
      /\ UNCHANGED <<server, file, wanted, track, web, dl, copy, buffer, position, reading,
                     cancelled, user, waiting, need>>
  BY DEF TypeInv, TypeOK, PutBack, PutBackMisses, opens, lock
<1>2. TypeOK'  BY <1>1 DEF TypeInv, TypeOK, Modes
<1> QED BY <1>1, <1>2 DEF TypeInv, Locked, ReadsFit, BufferFits

LEMMA TypesOpenSucceeds == ASSUME TypeInv, OpenSucceeds PROVE TypeInv'
<1>1. track' \in Tracks /\ web' \in Versions
  BY InitializedSession DEF OpenSucceeds
<1>2. TypeOK'  BY <1>1 DEF TypeInv, TypeOK, OpenSucceeds, Modes, DownloadPoints, lock, opens
<1> QED BY <1>2 DEF TypeInv, Locked, ReadsFit, BufferFits, OpenSucceeds, lock

(* What a response carries fits into the file.                             *)
LEMMA ResponseFits ==
  ASSUME TypeInv, dl = "read", NEW b \in Responses
  PROVE  /\ b \in [from : Versions \cup {Garbage, Blank}, length : 0..Chunk]
         /\ copy.local + b.length <= MaxBlocks
<1>1. web \in Versions /\ Size[web] \in 1..MaxBlocks /\ copy.local \in 0..MaxBlocks
  BY Constants DEF TypeInv, TypeOK, BufferFits, Tracks
<1>2. CASE b = NoBuffer  BY <1>1, <1>2, Constants DEF NoBuffer
<1>3. CASE \E n \in 1..Chunk : b = [from |-> web, length |-> n] /\ copy.local + n <= Size[web]
  BY <1>1, <1>3, Constants
<1>4. CASE \E n \in 1..Chunk : b = [from |-> Garbage, length |-> n] /\ copy.local + n <= MaxBlocks
  BY <1>1, <1>4, Constants
<1> QED BY <1>1, <1>2, <1>3, <1>4, Constants DEF Responses

LEMMA TypesReadSucceeds == ASSUME TypeInv, ReadSucceeds PROVE TypeInv'
<1>1. /\ buffer' \in [from : Versions \cup {Garbage, Blank}, length : 0..Chunk]
      /\ copy.local + buffer'.length <= MaxBlocks
  BY ResponseFits DEF ReadSucceeds
<1>2. /\ mode = "partial" /\ dl = "read" /\ dl' = "own" /\ "downloader" \notin waiting
      /\ user # "downloader" /\ user \in {"reader", "nobody"} /\ need' = need
  BY DEF TypeInv, TypeOK, Locked, ReadSucceeds, Access!Write, Access!Enter
<1>3. \/ user = "nobody" /\ user' = "downloader" /\ waiting' = waiting
      \/ user # "nobody" /\ user' = user /\ waiting' = waiting \cup {"downloader"}
  BY DEF ReadSucceeds, Access!Write, Access!Enter
<1>4. UNCHANGED <<opens, server, row, file, mode, wanted, track, web, copy, position, reading,
                  cancelled>>
  BY DEF ReadSucceeds
<1>5. TypeOK'  BY <1>1, <1>2, <1>3, <1>4 DEF TypeInv, TypeOK, DownloadPoints, opens
<1> QED BY <1>1, <1>2, <1>3, <1>4, <1>5 DEF TypeInv, Locked, ReadsFit, BufferFits

LEMMA TypesOwnFile == ASSUME TypeInv, OwnFile PROVE TypeInv'
<1>1. TypeOK'  BY DEF TypeInv, TypeOK, OwnFile, DownloadPoints, lock, opens
<1> QED BY <1>1 DEF TypeInv, Locked, ReadsFit, BufferFits, OwnFile, lock

LEMMA TypesWriteSucceeds == ASSUME TypeInv, WriteSucceeds PROVE TypeInv'
<1>1. copy' \in Tracks /\ track' \in Tracks
  BY LocalGrows DEF TypeInv, TypeOK, BufferFits, WriteSucceeds
<1>2. file' \in [Blocks -> Versions \cup {Garbage, Blank}]
  BY WrittenIsFile DEF TypeInv, TypeOK, WriteSucceeds
<1>3. TypeOK'  BY <1>1, <1>2 DEF TypeInv, TypeOK, WriteSucceeds, DownloadPoints, lock, opens
<1> QED BY <1>3 DEF TypeInv, Locked, ReadsFit, BufferFits, WriteSucceeds, lock

(* The wrapped difference is a natural number, too.                        *)
LEMMA EndOfReadIsNat ==
  ASSUME TypeInv, NEW pos \in 0..MaxBlocks, NEW count \in 1..MaxBlocks
  PROVE  EndOfRead(pos, count) \in Nat
<1>1. track.size \in Nat /\ (track.size - pos) % CountModulus \in Nat
  BY Constants DEF TypeInv, TypeOK, Tracks
<1> QED BY <1>1, Constants DEF EndOfRead

LEMMA TypesReadPartial ==
  ASSUME TypeInv, NEW pos \in 0..MaxBlocks, NEW count \in 1..MaxBlocks, ReadPartial(pos, count)
  PROVE  TypeInv'
<1> DEFINE n == EndOfRead(pos, count)
<1>1. n \in Nat  BY EndOfReadIsNat
<1> HIDE DEF n
<1>2. /\ mode = "partial" /\ reading = "no" /\ reading' = "asked" /\ position' = pos
      /\ "reader" \notin waiting /\ user # "reader" /\ user \in {"downloader", "nobody"}
      /\ need' = [need EXCEPT !["reader"] = n]
  BY DEF TypeInv, TypeOK, Locked, ReadPartial, Access!Read, Access!Enter, n
<1>3. \/ n <= track.local /\ user = "nobody" /\ user' = "reader" /\ waiting' = waiting
      \/ user' = user /\ waiting' = waiting \cup {"reader"}
  BY DEF ReadPartial, Access!Read, Access!Enter, n
<1>4. UNCHANGED <<opens, server, row, file, mode, wanted, track, web, dl, copy, buffer, cancelled>>
  BY DEF ReadPartial
<1>5. need'["reader"] = n /\ track.local \in 0..MaxBlocks
  BY <1>2 DEF TypeInv, TypeOK, Tracks
<1>6. TypeOK'  BY <1>1, <1>2, <1>3, <1>4 DEF TypeInv, TypeOK, opens
<1>7. Locked'  BY <1>2, <1>3, <1>4 DEF TypeInv, Locked
<1>8. ReadsFit'  BY <1>1, <1>2, <1>3, <1>5, Constants DEF TypeInv, ReadsFit
<1> QED BY <1>4, <1>6, <1>7, <1>8 DEF TypeInv, BufferFits

LEMMA TypesReadWhole ==
  ASSUME TypeInv, NEW pos \in 0..MaxBlocks, NEW count \in 1..MaxBlocks, ReadWhole(pos, count)
  PROVE  TypeInv'
<1> DEFINE n == IF pos + count > track.size THEN track.size ELSE pos + count
<1>1. n \in Nat /\ n <= MaxBlocks  BY Constants DEF TypeInv, TypeOK, Tracks
<1> HIDE DEF n
<1>2. need' = [need EXCEPT !["reader"] = n]  BY DEF ReadWhole, n
<1>3. need'["reader"] = n  BY <1>2 DEF TypeInv, TypeOK
<1>4. TypeOK'  BY <1>1, <1>2 DEF TypeInv, TypeOK, ReadWhole, opens
<1> QED BY <1>1, <1>3, <1>4 DEF TypeInv, Locked, ReadsFit, BufferFits, ReadWhole

LEMMA TypesStartRead == ASSUME TypeInv, StartRead PROVE TypeInv'
<1>1. TypeOK'  BY DEF TypeInv, TypeOK, StartRead, lock, opens
<1> QED BY <1>1 DEF TypeInv, Locked, ReadsFit, BufferFits, StartRead, lock

LEMMA TypesEndRead == ASSUME TypeInv, EndRead PROVE TypeInv'
<1>1. need["reader"] \in 0..MaxBlocks
  BY Constants DEF TypeInv, TypeOK, ReadsFit, EndRead
<1>2. UNCHANGED <<opens, server, row, file, mode, wanted, track, web, dl, copy, buffer, cancelled>>
      /\ reading = "yes" /\ reading' = "no" /\ position' = need["reader"]
  BY DEF EndRead
<1>3. CASE mode # "partial"
  <2>1. UNCHANGED lock  BY <1>3 DEF EndRead
  <2>2. TypeOK'  BY <1>1, <1>2, <2>1 DEF TypeInv, TypeOK, lock, opens
  <2> QED BY <1>2, <1>3, <2>1, <2>2 DEF TypeInv, Locked, ReadsFit, BufferFits, lock
<1>4. CASE mode = "partial"
  <2>1. user = "reader" /\ waiting \subseteq {"downloader"} /\ Access!Finish
    BY <1>2, <1>4 DEF TypeInv, TypeOK, Locked, EndRead
  <2>2. user' \in {"downloader", "nobody"} /\ waiting' = waiting \ {user'} /\ need' = need
        /\ (user' = "downloader" => "downloader" \in waiting)
        /\ (user' = "nobody" => waiting = {})
    BY <2>1 DEF Access!Finish, Access!Servable
  <2>3. TypeOK'  BY <1>1, <1>2, <2>1, <2>2 DEF TypeInv, TypeOK, opens
  <2> QED BY <1>2, <1>4, <2>1, <2>2, <2>3 DEF TypeInv, Locked, ReadsFit, BufferFits
<1> QED BY <1>3, <1>4

LEMMA TypesCancel == ASSUME TypeInv, Cancel PROVE TypeInv'
<1>1. TypeOK'  BY DEF TypeInv, TypeOK, Cancel, lock, opens
<1> QED BY <1>1 DEF TypeInv, Locked, ReadsFit, BufferFits, Cancel, lock

LEMMA TypesStutter == ASSUME TypeInv, UNCHANGED vars PROVE TypeInv'
<1>1. UNCHANGED session /\ UNCHANGED <<server, row, file, pending, overwritten>>
  BY DEF vars, opens
<1> QED BY <1>1, SessionStays DEF TypeInv, TypeOK

LEMMA TypesServerChanges ==
  ASSUME TypeInv, NEW q \in Qualities, ServerChanges(q)
  PROVE  TypeInv'
<1>1. server' \in [Qualities -> Stamps]
  BY Constants DEF TypeInv, TypeOK, ServerChanges, Stamps
<1> QED BY <1>1, SessionStays DEF TypeInv, TypeOK, ServerChanges, opens

LEMMA TypesCrash == ASSUME TypeInv, Crash PROVE TypeInv'
<1>1. Written \in [Blocks -> Versions \cup {Garbage, Blank}]
  BY WrittenIsFile DEF TypeInv, TypeOK
<1>2. row' \in Tracks /\ server' \in [Qualities -> Stamps]
      /\ file' \in [Blocks -> Versions \cup {Garbage, Blank}]
      /\ pending' \subseteq Requests /\ overwritten' \in BOOLEAN
  BY <1>1 DEF TypeInv, TypeOK, Crash
<1> QED BY <1>2, SessionEnds DEF Crash

LEMMA TypesDownload == ASSUME TypeInv, Download PROVE TypeInv'
<1>1. Written \in [Blocks -> Versions \cup {Garbage, Blank}]
  BY WrittenIsFile DEF TypeInv, TypeOK
<1>2. CASE StartCoroutine  BY <1>2, DownloadMoves DEF StartCoroutine, TypeInv, TypeOK
<1>3. CASE LoopHead  BY <1>3, DownloadMoves DEF LoopHead, TypeInv, TypeOK
<1>4. CASE ReinitializeSucceeds
  BY <1>4, InitializedSession, DownloadMoves DEF ReinitializeSucceeds, TypeInv, TypeOK
<1>5. CASE ReinitializeFails  BY <1>5, DownloadMoves DEF ReinitializeFails, Failed, TypeInv, TypeOK
<1>6. CASE CancelledAwait  BY <1>6, DownloadMoves DEF CancelledAwait, TypeInv, TypeOK
<1>7. CASE ReadFails  BY <1>7, DownloadMoves DEF ReadFails, Failed, TypeInv, TypeOK
<1>8. CASE RetryAbandoned  BY <1>8, DownloadMoves DEF RetryAbandoned, TypeInv, TypeOK
<1>9. CASE WriteFails
  BY <1>1, <1>9, DownloadGivesBack DEF WriteFails, Failed, TypeInv, TypeOK
<1>10. CASE UpdateSucceeds
  BY <1>10, DownloadGivesBack DEF UpdateSucceeds, TypeInv, TypeOK
<1>11. CASE UpdateFails
  BY <1>11, DownloadGivesBack DEF UpdateFails, Failed, TypeInv, TypeOK
<1> QED BY <1>2, <1>3, <1>4, <1>5, <1>6, <1>7, <1>8, <1>9, <1>10, <1>11,
           TypesReadSucceeds, TypesOwnFile, TypesWriteSucceeds DEF Download

LEMMA TypesKept == ASSUME TypeInv, [Next]_vars PROVE TypeInv'
<1>1. ASSUME OpenFails \/ Close PROVE TypeInv'
  BY <1>1, SessionEnds DEF OpenFails, Close, TypeInv, TypeOK, opens
<1>2. ASSUME Play PROVE TypeInv'
  BY <1>2, TypesReadPartial, TypesReadWhole, TypesStartRead, TypesEndRead DEF Play
<1> QED BY <1>1, <1>2, TypesWaits, TypesOpenFile, TypesPutBack, TypesOpenSucceeds, TypesDownload,
           TypesCancel, TypesStutter, TypesServerChanges, TypesCrash DEF Next

LEMMA TypesInit == Init => TypeInv
<1> SUFFICES ASSUME Init PROVE TypeInv  OBVIOUS
<1>1. wanted \in Qualities  BY CacheAssumption DEF Init
<1>2. server \in [Qualities -> Stamps]  BY Constants DEF Init, Stamps
<1>3. NoBuffer \in [from : Versions \cup {Garbage, Blank}, length : 0..Chunk]
      /\ 0 \in 0..MaxBlocks
  BY Constants DEF NoBuffer
<1>4. TypeOK
  BY <1>1, <1>2, <1>3, NewTrackIsOne DEF Init, TypeOK, Modes, DownloadPoints
<1> QED BY <1>4 DEF Init, TypeInv, Locked, ReadsFit, BufferFits

(* Every variable of TrackCache has its type, whatever fails: no record    *)
(* counts more blocks than a file has, no read that was let in passes the  *)
(* end of it, and the lock's holders are where the coroutines are.         *)
THEOREM TypeCorrect == Spec => []TypeOK
<1>1. TypeInv => TypeOK  BY DEF TypeInv
<1> QED BY <1>1, TypesInit, TypesKept, PTL DEF Spec

-----------------------------------------------------------------------------
(* The origin of the bytes, while the server's file does not change under  *)
(* a session and no error page is taken for data                           *)

Calm == Faults \cap {"change", "error_body"} = {}

(* The version the server has, of the quality that is wanted.              *)
Current == <<wanted, server[wanted]>>

OfServer(t) == Version(t) = Current /\ t.size = Size[Current]

(* An open record is of the server's file and its blocks are, too; the     *)
(* coroutine works on the same record and has read from the same file.     *)
SessionInv ==
  /\ mode \in {"opening", "complete"} => track = row
  /\ mode = "complete" => Complete(row)
  /\ mode = "partial" =>
       /\ OfServer(track) /\ Holds(track, Current)
       /\ web \in {Blank, Current}
       /\ dl \notin {"off", "retry"} => copy = track
       /\ dl \in {"own", "write"} /\ buffer.length > 0 => buffer.from = Current

(* What a partial row must be for a session to start from it: of the       *)
(* version it names, if that is what the server still has.                 *)
RowTrusted == mode = "opening" /\ Version(row) = Current => Holds(row, Version(row))

LEMMA CurrentIsVersion == ASSUME TypeInv PROVE Current \in Versions
BY VersionParts DEF TypeInv, TypeOK, Current

(* A write at copy.local leaves the blocks a record counts alone, if it    *)
(* counts no more of them than the copy.                                   *)
LEMMA WriteLeaves ==
  ASSUME TypeInv, NEW t \in Tracks, t.local <= copy.local, NEW v, Holds(t, v)
  PROVE  \A b \in Blocks : b < t.local => Written[b] = v
<1>1. copy.local \in Nat /\ t.local \in Nat /\ buffer.length \in Nat
  BY Constants DEF TypeInv, TypeOK, Tracks
<1>2. ASSUME NEW b \in Blocks, b < t.local PROVE Written[b] = v
  <2>1. b \in Nat  BY Constants DEF Blocks
  <2>2. b \notin copy.local..(copy.local + buffer.length - 1)  BY <1>1, <1>2, <2>1
  <2> QED BY <1>2, <2>2 DEF Written, Holds
<1> QED BY <1>2

(* A block of the version the copy is of makes it longer.                  *)
LEMMA WriteExtends ==
  ASSUME TypeInv, NEW v, Holds(copy, v), buffer.length > 0 => buffer.from = v
  PROVE  \A b \in Blocks : b < copy.local + buffer.length => Written[b] = v
<1>1. copy.local \in Nat /\ buffer.length \in Nat
  BY Constants DEF TypeInv, TypeOK, Tracks
<1>2. ASSUME NEW b \in Blocks, b < copy.local + buffer.length PROVE Written[b] = v
  <2>1. b \in Nat  BY Constants DEF Blocks
  <2>2. CASE b < copy.local
    <3>1. b \notin copy.local..(copy.local + buffer.length - 1)  BY <1>1, <2>1, <2>2
    <3> QED BY <2>2, <3>1 DEF Written, Holds
  <2>3. CASE ~(b < copy.local)
    <3>1. b \in copy.local..(copy.local + buffer.length - 1) /\ buffer.length > 0
          BY <1>1, <1>2, <2>1, <2>3
    <3> QED BY <3>1 DEF Written
  <2> QED BY <2>2, <2>3
<1> QED BY <1>2

(* initializeAsync keeps a record of the server's file, and starts any     *)
(* other from nothing.                                                     *)
LEMMA InitializeDates ==
  ASSUME TypeInv, Initialize
  PROVE  /\ web' = Current
         /\ Version(track') = Current /\ track'.size = Size[Current]
         /\ OfServer(track) => track' = track
         /\ track' # track => track'.local = 0
<1>1. Current[1] = wanted /\ Current[2] = server[wanted]  BY DEF Current
<1>2. CASE track' = track
  BY <1>1, <1>2 DEF Initialize, Initialized, Current, Version, OfServer
<1>3. CASE track' # track
  BY <1>1, <1>3 DEF Initialize, Initialized, Current, Version, OfServer
<1> QED BY <1>2, <1>3

LEMMA SessionWrites ==
  ASSUME TypeInv, SessionInv, WriteSucceeds
  PROVE  SessionInv'
<1>1. mode = "partial" /\ copy = track /\ Holds(copy, Current)
      /\ (buffer.length > 0 => buffer.from = Current)
  BY DEF TypeInv, Locked, SessionInv, WriteSucceeds
<1>2. UNCHANGED <<server, row, mode, wanted, web>> /\ Current' = Current /\ dl' = "update"
  BY DEF WriteSucceeds, Current
<1>3. copy' = track' /\ track'.local = copy.local + buffer.length
      /\ track'.quality = track.quality /\ track'.stamp = track.stamp /\ track'.size = track.size
  BY <1>1 DEF TypeInv, TypeOK, Tracks, WriteSucceeds
<1>4. Holds(track, Current)'
  BY <1>1, <1>2, <1>3, WriteExtends DEF Holds, WriteSucceeds
<1>5. OfServer(track)'
  BY <1>1, <1>2, <1>3 DEF SessionInv, OfServer, Version
<1> QED BY <1>1, <1>2, <1>3, <1>4, <1>5 DEF SessionInv

(* A step that changes neither the record nor what it promises, a write    *)
(* that failed included.                                                   *)
LEMMA SessionQuiet ==
  ASSUME TypeInv, SessionInv,
         UNCHANGED <<server, mode, wanted, track>>, mode = "partial" \/ UNCHANGED row,
         file' = file \/ (dl = "write" /\ file' = Written),
         web' \in {web, Blank, Current}, copy' \in {copy, track},
         dl \in {"off", "retry"} /\ dl' \notin {"off", "retry"} => copy' = track,
         dl' \in {"own", "write"} /\ buffer'.length > 0 =>
           (dl \in {"own", "write"} /\ buffer' = buffer) \/ buffer'.from = Current
  PROVE  SessionInv'
<1>1. Current' = Current  BY DEF Current
<1>2. CASE mode # "partial"
  BY <1>2 DEF SessionInv, Complete
<1>3. CASE mode = "partial"
  <2>1. Holds(track, Current)'
    <3>1. CASE file' = file  BY <1>1, <1>3, <3>1 DEF SessionInv, Holds
    <3>2. CASE dl = "write" /\ file' = Written
      <4>1. copy = track /\ track.local <= copy.local /\ track \in Tracks
            BY <1>3, <3>2, Constants DEF SessionInv, TypeInv, TypeOK, Tracks
      <4> QED BY <1>1, <1>3, <3>2, <4>1, WriteLeaves DEF SessionInv, Holds
    <3> QED BY <3>1, <3>2
  <2>2. OfServer(track)'  BY <1>1, <1>3 DEF SessionInv, OfServer, Version
  <2> QED BY <1>1, <1>3, <2>1, <2>2 DEF SessionInv
<1> QED BY <1>2, <1>3

(* The session begins, or _webStream is found again.                       *)
LEMMA SessionInitializes ==
  ASSUME TypeInv, SessionInv, RowTrusted, OpenSucceeds \/ ReinitializeSucceeds
  PROVE  SessionInv'
<1>1. Initialize /\ UNCHANGED <<server, file, wanted, copy, buffer, row>> /\ Current' = Current
      /\ mode' = "partial"
  BY DEF OpenSucceeds, ReinitializeSucceeds, Current, TypeInv, Locked
<1>2. track' \in Tracks /\ track \in Tracks
  BY <1>1, InitializedSession DEF TypeInv, TypeOK
<1>3. OfServer(track)' /\ web' = Current
  BY <1>1, InitializeDates DEF OfServer, Version
<1>4. CASE OpenSucceeds
  <2>1. mode = "opening" /\ track = row /\ dl' = "retry"
        BY <1>4 DEF OpenSucceeds, SessionInv
  <2>2. Holds(track, Current)'
    <3>1. CASE track' = track
      <4>1. Version(row) = Current  BY <1>1, <2>1, <3>1, InitializeDates
      <4> QED BY <1>1, <2>1, <3>1, <4>1 DEF RowTrusted, Holds
    <3>2. CASE track' # track
      <4>1. track'.local = 0  BY <1>1, <3>2, InitializeDates
      <4>2. \A b \in Blocks : ~(b < 0)  BY Constants DEF Blocks
      <4> QED BY <4>1, <4>2 DEF Holds
    <3> QED BY <3>1, <3>2
  <2> QED BY <1>1, <1>3, <2>1, <2>2 DEF SessionInv
<1>5. CASE ReinitializeSucceeds
  <2>1. mode = "partial" /\ dl = "initialize" /\ dl' = "read" /\ copy = track
        /\ OfServer(track) /\ Holds(track, Current)
        BY <1>5 DEF ReinitializeSucceeds, SessionInv, TypeInv, Locked
  <2>2. track' = track  BY <1>1, <2>1, InitializeDates
  <2>3. Holds(track, Current)'  BY <1>1, <2>1, <2>2 DEF Holds
  <2> QED BY <1>1, <1>3, <2>1, <2>2, <2>3 DEF SessionInv
<1> QED BY <1>4, <1>5

(* A read returns blocks of the version of the stream, or none.            *)
LEMMA ResponseIsCurrent ==
  ASSUME Calm, TypeInv, SessionInv, dl = "read", NEW b \in Responses, b.length > 0
  PROVE  b.from = Current
<1>1. web = Current /\ "error_body" \notin Faults
  BY DEF Calm, TypeInv, Locked, BufferFits, SessionInv
<1> QED BY <1>1 DEF Responses, NoBuffer

LEMMA SessionEndsWell == ASSUME EndSession PROVE SessionInv'
BY DEF EndSession, SessionInv

LEMMA SessionDownloads ==
  ASSUME Calm, TypeInv, SessionInv, RowTrusted, Download
  PROVE  SessionInv'
<1>0. dl # "off" => mode = "partial"  BY DEF TypeInv, Locked
<1>1. CASE StartCoroutine  BY <1>0, <1>1, SessionQuiet DEF StartCoroutine
<1>2. CASE LoopHead  BY <1>0, <1>2, SessionQuiet DEF LoopHead
<1>3. CASE ReinitializeFails  BY <1>0, <1>3, SessionQuiet DEF ReinitializeFails, Failed
<1>4. CASE CancelledAwait  BY <1>0, <1>4, SessionQuiet DEF CancelledAwait
<1>5. CASE ReadSucceeds
  <2>1. buffer'.length > 0 => buffer'.from = Current
        BY <1>5, ResponseIsCurrent DEF ReadSucceeds
  <2> QED BY <1>0, <1>5, <2>1, SessionQuiet DEF ReadSucceeds
<1>6. CASE ReadFails  BY <1>0, <1>6, SessionQuiet DEF ReadFails, Failed
<1>7. CASE OwnFile  BY <1>0, <1>7, SessionQuiet DEF OwnFile
<1>8. CASE WriteFails  BY <1>0, <1>8, SessionQuiet DEF WriteFails, Failed
<1>9. CASE UpdateSucceeds  BY <1>0, <1>9, SessionQuiet DEF UpdateSucceeds, NoBuffer
<1>10. CASE UpdateFails  BY <1>0, <1>10, SessionQuiet DEF UpdateFails, Failed
<1>11. CASE RetryAbandoned  BY <1>0, <1>11, SessionQuiet DEF RetryAbandoned
<1> QED BY <1>1, <1>2, <1>3, <1>4, <1>5, <1>6, <1>7, <1>8, <1>9, <1>10, <1>11,
           SessionWrites, SessionInitializes DEF Download

LEMMA SessionPlays == ASSUME TypeInv, SessionInv, Play PROVE SessionInv'
<1>1. UNCHANGED <<server, row, file, mode, wanted, track, web, dl, copy, buffer>>
  BY DEF Play, ReadPartial, ReadWhole, StartRead, EndRead
<1> QED BY <1>1, SessionQuiet

LEMMA SessionKept ==
  ASSUME Calm, TypeInv, SessionInv, RowTrusted, [Next]_vars
  PROVE  SessionInv'
<1>1. CASE (\E q \in Qualities : ReadRow(q)) \/ (\E r \in pending : RequestFails(r))
  <2>1. UNCHANGED <<server, row, file>> /\ UNCHANGED session  BY <1>1 DEF ReadRow, RequestFails
  <2> QED BY <2>1, SessionQuiet DEF session
<1>7. ASSUME NEW r \in pending, OpenFile(r) PROVE SessionInv'
  BY <1>7 DEF OpenFile, SessionInv
<1>8. CASE PutBack
  BY <1>8 DEF PutBack, SessionInv, Playable, Complete
<1>2. ASSUME NEW q \in Qualities, ServerChanges(q) PROVE SessionInv'
  <2>1. mode' = "closed"  BY <1>2 DEF ServerChanges, session, Calm
  <2> QED BY <2>1 DEF SessionInv
<1>3. CASE OpenFails \/ Close \/ Crash
  BY <1>3, SessionEndsWell DEF OpenFails, Close, Crash
<1>4. CASE Cancel  BY <1>4, SessionQuiet DEF Cancel
<1>5. CASE UNCHANGED vars
  BY <1>5, SessionQuiet DEF vars, session
<1>6. CASE OpenSucceeds  BY <1>6, SessionInitializes
<1> QED BY <1>1, <1>2, <1>3, <1>4, <1>5, <1>6, <1>7, <1>8, SessionDownloads, SessionPlays DEF Next

-----------------------------------------------------------------------------
(* Several qualities, and no failures but of the network *)

(* Once a request has put an outdated row back, nothing is claimed.        *)
CoherentInv == TypeInv /\ (overwritten \/ (SessionInv /\ RowCoherent))

(* Nothing takes that back.                                                *)
LEMMA OverwrittenStays ==
  ASSUME TypeInv, [Next]_vars, overwritten
  PROVE  overwritten'
BY DEF TypeInv, TypeOK, Next, ReadRow, RequestFails, OpenFile, PutBack, OpenSucceeds, OpenFails,
       Download, StartCoroutine, LoopHead, ReinitializeSucceeds, ReinitializeFails, CancelledAwait,
       ReadSucceeds, ReadFails, OwnFile, WriteSucceeds, WriteFails, UpdateSucceeds, UpdateFails,
       RetryAbandoned, Play, ReadPartial, ReadWhole, StartRead, EndRead, Close, Cancel, Crash,
       ServerChanges, opens, vars

(* A row that is put back promises no more than the row of the table, if   *)
(* it is not outdated.                                                     *)
LEMMA PutBackHolds ==
  ASSUME TypeInv, ~Outdated, track.local = 0 \/ Holds(row, Version(row))
  PROVE  Holds(track, Version(track))
<1>1. track.local \in Nat /\ row.local \in Nat /\ \A b \in Blocks : b \in Nat
  BY Constants DEF TypeInv, TypeOK, Tracks, Blocks
<1>2. CASE track.local = 0  BY <1>1, <1>2 DEF Holds
<1>3. CASE track.local # 0
  <2>1. Version(track) = Version(row) /\ track.local <= row.local
    BY <1>1, <1>3 DEF Outdated
  <2> QED BY <1>1, <1>3, <2>1 DEF Holds
<1> QED BY <1>2, <1>3

LEMMA CoherentStep ==
  ASSUME Faults = {}, CoherentInv, [Next]_vars
  PROVE  CoherentInv'
<1>0. TypeInv /\ Calm  BY DEF Calm, CoherentInv
<1>1. TypeInv'  BY <1>0, TypesKept
<1>2. SUFFICES ASSUME ~overwritten, ~overwritten' PROVE SessionInv' /\ RowCoherent'
  BY <1>0, <1>1, OverwrittenStays DEF CoherentInv
<1>3. SessionInv /\ (dl # "update" => Holds(row, Version(row)))
  BY <1>2 DEF CoherentInv, RowCoherent
<1>4. RowTrusted  BY <1>0, <1>3 DEF RowTrusted, TypeInv, Locked, Holds
<1>5. SessionInv'  BY <1>0, <1>3, <1>4, SessionKept
<1>6. RowCoherent'
  <2>1. CASE dl' = "update"  BY <2>1 DEF RowCoherent
  <2>2. CASE UpdateSucceeds
    <3>1. row' = copy /\ file' = file /\ copy = track /\ mode = "partial" /\ Version(track) = Current
          /\ Holds(track, Current)
          BY <1>0, <1>3, <2>2 DEF UpdateSucceeds, SessionInv, TypeInv, Locked, OfServer
    <3> QED BY <3>1 DEF RowCoherent, Holds, Version
  <2>3. CASE UNCHANGED <<row, file>> /\ dl # "update"
    BY <1>3, <2>3 DEF RowCoherent, Holds, Version
  <2>4. CASE UNCHANGED vars
    BY <1>3, <2>4 DEF RowCoherent, Holds, Version, vars, session
  <2>5. CASE PutBack
    <3>1. row' = track /\ file' = file /\ ~Outdated /\ mode = "touching"
      BY <1>2, <2>5 DEF PutBack
    <3>2. dl # "update"  BY <1>0, <3>1 DEF TypeInv, Locked
    <3>3. Holds(track, Version(track))  BY <1>0, <1>3, <3>1, <3>2, PutBackHolds
    <3> QED BY <3>1, <3>3 DEF RowCoherent, Holds, Version
  <2>6. ~Crash /\ ~WriteFails /\ ~UpdateFails /\ (WriteSucceeds => dl' = "update")
    BY DEF Crash, WriteFails, UpdateFails, WriteSucceeds
  <2>7. mode \in {"closed", "touching", "opening", "complete"} => dl # "update"
    BY <1>0 DEF TypeInv, Locked
  <2>8. ASSUME Download, ~UpdateSucceeds, dl' # "update" PROVE UNCHANGED <<row, file>> /\ dl # "update"
    BY <2>6, <2>8 DEF Download, StartCoroutine, LoopHead, ReinitializeSucceeds, ReinitializeFails,
       CancelledAwait, ReadSucceeds, ReadFails, OwnFile, RetryAbandoned
  <2>9. ASSUME Play, dl' # "update" PROVE UNCHANGED <<row, file>> /\ dl # "update"
    BY <2>9 DEF Play, ReadPartial, ReadWhole, StartRead, EndRead
  <2>10. ASSUME \/ \E q \in Qualities : ReadRow(q) \/ ServerChanges(q)
                \/ \E r \in pending : RequestFails(r) \/ OpenFile(r)
                \/ OpenSucceeds \/ OpenFails \/ Close \/ Cancel,
                dl' # "update"
        PROVE  UNCHANGED <<row, file>> /\ dl # "update"
    BY <2>7, <2>10 DEF ReadRow, RequestFails, OpenFile, ServerChanges, OpenSucceeds, OpenFails, Close,
       Cancel, session
  <2> QED BY <2>1, <2>2, <2>3, <2>4, <2>5, <2>6, <2>8, <2>9, <2>10 DEF Next
<1> QED BY <1>5, <1>6

LEMMA CoherentInit == Init => TypeInv /\ SessionInv /\ RowCoherent /\ row = NewTrack
<1> SUFFICES ASSUME Init PROVE TypeInv /\ SessionInv /\ RowCoherent /\ row = NewTrack
    OBVIOUS
<1>1. TypeInv  BY TypesInit
<1>2. \A b \in Blocks : ~(b < 0)  BY Constants DEF Blocks
<1> QED BY <1>1, <1>2 DEF Init, SessionInv, RowCoherent, Holds, NewTrack

(* If nothing fails but the network, and the server's file changes between *)
(* sessions only, then however the user changes the quality, a row names   *)
(* the origin of all the blocks it counts, except between the write of a   *)
(* block and its record, and until a request writes the row it had read    *)
(* over what a session has recorded meanwhile (continueDownloadingAsync,   *)
(* getPartialStreamAsync).                                                 *)
THEOREM RowsNameTheirBytes == ASSUME Faults = {} PROVE Spec => []RowCoherent
<1>1. Init => CoherentInv  BY CoherentInit DEF CoherentInv
<1>2. CoherentInv /\ [Next]_vars => CoherentInv'  BY CoherentStep
<1>3. CoherentInv => RowCoherent  BY DEF CoherentInv, RowCoherent
<1> QED BY <1>1, <1>2, <1>3, PTL DEF Spec

(* And what is playing comes from one version of the server's file, which  *)
(* the record in memory names, with the same exception (initializeAsync,   *)
(* continueDownloadingAsync).                                              *)
THEOREM SwitchesPlayOneFile == ASSUME Faults = {} PROVE Spec => []TrackCoherent
<1>1. Init => CoherentInv  BY CoherentInit DEF CoherentInv
<1>2. CoherentInv /\ [Next]_vars => CoherentInv'  BY CoherentStep
<1>3. CoherentInv => TrackCoherent
  <2> SUFFICES ASSUME CoherentInv PROVE TrackCoherent  OBVIOUS
  <2>1. CASE mode = "partial"
        BY <2>1 DEF CoherentInv, SessionInv, TrackCoherent, OfServer
  <2>2. CASE mode = "complete" /\ ~overwritten
        BY <2>2 DEF CoherentInv, TypeInv, Locked, SessionInv, RowCoherent, TrackCoherent
  <2> QED BY <2>1, <2>2 DEF TrackCoherent
<1> QED BY <1>1, <1>2, <1>3, PTL DEF Spec

-----------------------------------------------------------------------------
(* One quality, with kills and failures of the disk *)

SingleQuality == \A p, q \in Qualities : p = q

(* A record is new or of a version the server t has or had.                *)
Dated(t, servers) ==
  t = NewTrack \/ /\ t.quality \in Qualities
                  /\ t.stamp \in 1..servers[t.quality]
                  /\ t.size = Size[Version(t)]
                  /\ t.local <= t.size

(* So is every record there is, and what is written stays within it.       *)
Dates ==
  /\ Dated(row, server) /\ Dated(track, server)
  /\ \A r \in pending : Dated(r.seen, server)
  /\ dl \in {"own", "write"} => copy.local + buffer.length <= copy.size

RowIsCurrent == row.quality \in Qualities /\ row.stamp = server[row.quality]

(* Blocks of a row are what it says if the server still has that version,  *)
(* or if they are complete: such a row is not downloaded again.            *)
RowHolds == RowIsCurrent \/ Complete(row) => Holds(row, Version(row))

(* A row of the version under download is not ahead of the record; another *)
(* is not complete.                                                        *)
RowBehind ==
  /\ mode = "opening" => ~Complete(row)
  /\ mode = "partial" =>
       IF RowIsCurrent THEN row.local <= track.local ELSE ~Complete(row)

RowInv == Dates /\ RowHolds /\ RowBehind

OneInv == TypeInv /\ (overwritten \/ (SessionInv /\ RowInv))

(* The server's file is never replaced by an older one.                    *)
LEMMA ServerAdvances ==
  ASSUME TypeInv, [Next]_vars
  PROVE  \A q \in Qualities : server[q] \in Nat /\ server'[q] \in Nat /\ server[q] <= server'[q]
<1>1. server \in [Qualities -> Nat]  BY Constants DEF TypeInv, TypeOK, Stamps
<1>2. ASSUME NEW q \in Qualities, ServerChanges(q)
      PROVE  server' = [server EXCEPT ![q] = @ + 1]
  BY <1>2 DEF ServerChanges
<1>3. UNCHANGED server \/ \E q \in Qualities : ServerChanges(q)
  BY DEF Next, ReadRow, RequestFails, OpenFile, PutBack, OpenSucceeds, OpenFails,
       Download, StartCoroutine, LoopHead, ReinitializeSucceeds, ReinitializeFails, CancelledAwait,
       ReadSucceeds, ReadFails, OwnFile, WriteSucceeds, WriteFails, UpdateSucceeds, UpdateFails,
       RetryAbandoned, Play, ReadPartial, ReadWhole, StartRead, EndRead, Close, Cancel, Crash, vars
<1> QED BY <1>1, <1>2, <1>3

LEMMA DatedStays ==
  ASSUME TypeInv, [Next]_vars, NEW t, Dated(t, server)
  PROVE  Dated(t, server')
<1>1. CASE t = NewTrack  BY <1>1 DEF Dated
<1>2. CASE t # NewTrack
  <2>1. t.quality \in Qualities /\ t.stamp \in 1..server[t.quality]  BY <1>2 DEF Dated
  <2>2. t.stamp \in 1..server'[t.quality]  BY <2>1, ServerAdvances
  <2> QED BY <1>2, <2>1, <2>2 DEF Dated
<1> QED BY <1>1, <1>2

(* A record initializeAsync has started from nothing.                      *)
LEMMA InitializedIsDated ==
  ASSUME TypeInv, Initialize, Dated(track, server)
  PROVE  Dated(track', server)
<1>1. wanted \in Qualities /\ server[wanted] \in Nat /\ server[wanted] >= 1
      /\ Size[<<wanted, server[wanted]>>] \in Nat
  BY Constants, VersionParts DEF TypeInv, TypeOK, Stamps
<1>2. CASE track' = track  BY <1>2
<1>3. CASE track' # track
  BY <1>1, <1>3 DEF Initialize, Initialized, Dated, Version
<1> QED BY <1>2, <1>3

(* What a read returns does not pass the end of the server's file.         *)
LEMMA ResponseWithin ==
  ASSUME Calm, TypeInv, SessionInv, Dates, dl = "read", NEW b \in Responses
  PROVE  copy.local + b.length <= copy.size
<1>1. /\ mode = "partial" /\ web = Current /\ "error_body" \notin Faults
      /\ copy = track /\ track.size = Size[Current]
  BY DEF Calm, TypeInv, Locked, BufferFits, SessionInv, OfServer
<1>2. /\ copy.local \in Nat /\ copy.size \in Nat /\ copy.local <= copy.size
  BY <1>1, Constants DEF TypeInv, TypeOK, Tracks, Dates, Dated, NewTrack
<1>3. CASE b = NoBuffer  BY <1>2, <1>3 DEF NoBuffer
<1>4. CASE b # NoBuffer
  <2>1. PICK n \in 1..Chunk : b = [from |-> web, length |-> n] /\ n <= Size[web] - copy.local
                              /\ copy.local < Size[web]
    BY <1>1, <1>4 DEF Responses
  <2> QED BY <1>1, <1>2, <2>1, Constants
<1> QED BY <1>3, <1>4

LEMMA DatesDownload ==
  ASSUME Calm, TypeInv, SessionInv, Dates, Download
  PROVE  Dates'
<1>0. /\ Dated(row, server) /\ Dated(track, server) /\ \A r \in pending : Dated(r.seen, server)
      /\ UNCHANGED <<server, pending>>
  BY DEF Dates, Download, StartCoroutine, LoopHead, ReinitializeSucceeds, ReinitializeFails,
     CancelledAwait, ReadSucceeds, ReadFails, OwnFile, WriteSucceeds, WriteFails, UpdateSucceeds,
     UpdateFails, RetryAbandoned, opens
<1>1. CASE ReadSucceeds
  <2>1. copy.local + buffer'.length <= copy.size  BY <1>1, ResponseWithin DEF ReadSucceeds
  <2> QED BY <1>0, <1>1, <2>1 DEF Dates, ReadSucceeds
<1>2. CASE ReinitializeSucceeds
  <2>1. Dated(track', server)  BY <1>0, <1>2, InitializedIsDated DEF ReinitializeSucceeds
  <2> QED BY <1>0, <1>2, <2>1 DEF Dates, ReinitializeSucceeds
<1>3. CASE WriteSucceeds
  <2>1. mode = "partial" /\ copy = track /\ track # NewTrack
    <3>1. mode = "partial" /\ copy = track /\ Version(track) = Current
      BY <1>3 DEF WriteSucceeds, TypeInv, Locked, SessionInv, OfServer
    <3>2. track.quality \in Qualities  BY <3>1 DEF Version, Current, TypeInv, TypeOK
    <3> QED BY <3>1, <3>2, Constants DEF NewTrack
  <2>2. /\ track' = [track EXCEPT !.local = @ + buffer.length] /\ track \in Tracks
        /\ track.local + buffer.length <= track.size /\ dl' = "update" /\ row' = row
    BY <1>3, <2>1 DEF WriteSucceeds, Dates, TypeInv, TypeOK
  <2>3. /\ track'.quality = track.quality /\ track'.stamp = track.stamp
        /\ track'.size = track.size /\ track'.local = track.local + buffer.length
    BY <2>2 DEF Tracks
  <2>4. Dated(track', server)  BY <1>0, <2>1, <2>2, <2>3 DEF Dated, Version
  <2> QED BY <1>0, <2>2, <2>4 DEF Dates
<1>4. CASE UpdateSucceeds
  <2>1. copy = track  BY <1>4 DEF UpdateSucceeds, TypeInv, Locked, SessionInv
  <2> QED BY <1>0, <1>4, <2>1 DEF Dates, UpdateSucceeds
<1>5. CASE OwnFile  BY <1>0, <1>5 DEF Dates, OwnFile
<1>6. CASE UNCHANGED <<row, track>> /\ dl' \notin {"own", "write"}
  BY <1>0, <1>6 DEF Dates
<1> QED BY <1>1, <1>2, <1>3, <1>4, <1>5, <1>6 DEF Download, StartCoroutine, LoopHead,
           ReinitializeFails, CancelledAwait, ReadFails, WriteFails, UpdateFails, RetryAbandoned, Failed

(* Records are read, put back and thrown away as they are.                 *)
LEMMA DatesKept ==
  ASSUME Calm, TypeInv, SessionInv, Dates, [Next]_vars
  PROVE  Dates'
<1>0. \A t : Dated(t, server) => Dated(t, server')
  BY DatedStays
<1>1. Dated(NewTrack, server')  BY DEF Dated
<1>2. ASSUME NEW q \in Qualities, ReadRow(q) PROVE Dates'
  BY <1>0, <1>2 DEF ReadRow, Dates, session
<1>3. ASSUME NEW r \in pending, RequestFails(r) \/ OpenFile(r) PROVE Dates'
  <2>1. /\ row' = row /\ track' \in {track, r.seen} /\ pending' \subseteq pending
        /\ UNCHANGED <<dl, copy, buffer>>
    BY <1>3 DEF RequestFails, OpenFile, session
  <2> QED BY <1>0, <2>1 DEF Dates
<1>4. CASE PutBack
  <2>1. row' = track /\ UNCHANGED <<track, pending, dl, copy, buffer>>  BY <1>4 DEF PutBack
  <2> QED BY <1>0, <2>1 DEF Dates
<1>5. CASE OpenFails \/ Close \/ Crash
  <2>1. /\ track' = NewTrack /\ dl' = "off" /\ pending' \subseteq pending
        /\ row' \in {row, track} \/ (dl = "update" /\ row' = copy)
    BY <1>5 DEF OpenFails, Close, Crash, EndSession, opens
  <2>2. dl = "update" => copy = track  BY DEF TypeInv, Locked, SessionInv
  <2> QED BY <1>0, <1>1, <2>1, <2>2 DEF Dates
<1>6. CASE OpenSucceeds
  <2>1. Dated(track', server)  BY <1>6, InitializedIsDated DEF OpenSucceeds, Dates
  <2> QED BY <1>6, <2>1 DEF Dates, OpenSucceeds, opens
<1>7. CASE (\E q \in Qualities : ServerChanges(q)) \/ Cancel \/ Play \/ UNCHANGED vars
  <2>1. UNCHANGED <<row, track, pending, dl, copy, buffer>>
    BY <1>7 DEF ServerChanges, Cancel, Play, ReadPartial, ReadWhole, StartRead, EndRead, vars,
       session, opens
  <2> QED BY <1>0, <2>1 DEF Dates
<1> QED BY <1>2, <1>3, <1>4, <1>5, <1>6, <1>7, DatesDownload DEF Next

(* With one quality a current row is of the version that is wanted.        *)
LEMMA RowCurrent ==
  ASSUME SingleQuality, TypeInv
  PROVE  RowIsCurrent <=> Version(row) = Current
<1>1. wanted \in Qualities /\ server \in [Qualities -> Stamps] /\ row \in Tracks
  BY DEF TypeInv, TypeOK
<1>2. ASSUME RowIsCurrent PROVE Version(row) = Current
  BY <1>1, <1>2 DEF RowIsCurrent, Version, Current, SingleQuality
<1>3. ASSUME Version(row) = Current PROVE RowIsCurrent
  BY <1>1, <1>3 DEF RowIsCurrent, Version, Current
<1> QED BY <1>2, <1>3

(* The row stays; the file stays or is written behind what the row counts. *)
LEMMA RowStays ==
  ASSUME SingleQuality, TypeInv, SessionInv, RowInv, UNCHANGED <<server, row>>,
         file' = file \/ (dl = "write" /\ file' = Written)
  PROVE  RowHolds'
<1>2. SUFFICES ASSUME RowIsCurrent \/ Complete(row) PROVE Holds(row, Version(row))'
  BY DEF RowHolds, RowIsCurrent, Complete
<1>3. Holds(row, Version(row))  BY <1>2 DEF RowInv, RowHolds
<1>4. CASE file' = file  BY <1>3, <1>4 DEF Holds, Version
<1>5. CASE dl = "write" /\ file' = Written
  <2>1. mode = "partial" /\ copy = track  BY <1>5 DEF TypeInv, Locked, SessionInv
  <2>2. row.local <= copy.local /\ row \in Tracks
        BY <1>2, <2>1 DEF RowInv, RowBehind, TypeInv, TypeOK
  <2> QED BY <1>3, <1>5, <2>2, WriteLeaves DEF Holds, Version
<1> QED BY <1>4, <1>5

(* The row takes the value of the coroutine's copy.                        *)
LEMMA RowUpdated ==
  ASSUME SingleQuality, TypeInv, SessionInv, dl = "update", row' = copy, UNCHANGED <<server, file>>
  PROVE  RowHolds'
<1>1. copy = track /\ Version(track) = Current /\ Holds(track, Current)
  BY DEF TypeInv, Locked, SessionInv, OfServer
<1> QED BY <1>1 DEF RowHolds, Holds, Version

(* Nothing is promised by a row that is put back and not outdated, but     *)
(* what the row of the table promised.                                     *)
LEMMA RowPutBack ==
  ASSUME SingleQuality, TypeInv, RowInv, ~Outdated, row' = track, UNCHANGED <<server, file>>
  PROVE  RowHolds'
<1>1. /\ track.local \in Nat /\ row.local \in Nat /\ row.size \in Nat
      /\ Dated(row, server) /\ Dated(track, server)
  BY Constants DEF TypeInv, TypeOK, Tracks, RowInv, Dates
<1>2. CASE track.local = 0
  <2>1. \A b \in Blocks : ~(b < 0)  BY Constants DEF Blocks
  <2> QED BY <1>2, <2>1 DEF RowHolds, Holds
<1>3. CASE track.local # 0
  <2>1. Version(track) = Version(row) /\ track.local <= row.local
    BY <1>1, <1>3 DEF Outdated
  <2>2. track # NewTrack /\ track.quality # 0
    BY <1>1, <1>3, Constants DEF Dated, NewTrack
  <2>3. row # NewTrack  BY <2>1, <2>2 DEF Version, NewTrack
  <2>4. track.size = row.size /\ row.local <= row.size
    BY <1>1, <2>1, <2>2, <2>3 DEF Dated
  <2>5. Complete(track) => Complete(row)
    BY <1>1, <2>1, <2>4 DEF Complete
  <2>6. RowIsCurrent' => RowIsCurrent  BY <2>1 DEF RowIsCurrent, Version
  <2>7. RowIsCurrent' \/ Complete(row)' => Holds(row, Version(row))
    BY <2>5, <2>6 DEF RowInv, RowHolds, Complete
  <2>8. Holds(row, Version(row)) => Holds(track, Version(track))
    BY <1>1, <2>1, PutBackHolds
  <2> QED BY <2>7, <2>8 DEF RowHolds, Holds, Version
<1> QED BY <1>2, <1>3

LEMMA RowInits ==
  ASSUME SingleQuality, TypeInv, SessionInv, RowInv, OpenSucceeds \/ ReinitializeSucceeds
  PROVE  RowHolds' /\ RowBehind'
<1>1. Initialize /\ UNCHANGED <<server, row, file, wanted>> /\ mode' = "partial"
  BY DEF OpenSucceeds, ReinitializeSucceeds, TypeInv, Locked
<1>2. RowHolds'  BY <1>1, RowStays
<1>3. RowIsCurrent' <=> RowIsCurrent  BY <1>1 DEF RowIsCurrent
<1>4. CASE OpenSucceeds
  <2>1. mode = "opening" /\ track = row /\ ~Complete(row)
        BY <1>4 DEF OpenSucceeds, SessionInv, RowInv, RowBehind
  <2>2. ASSUME RowIsCurrent PROVE row.local <= track'.local
    <3>1. row # NewTrack  BY <2>2, Constants DEF RowIsCurrent, NewTrack
    <3>2. OfServer(track)
          BY <2>1, <2>2, <3>1, RowCurrent DEF RowInv, Dates, Dated, OfServer
    <3>3. track' = row /\ row.local \in Nat
          BY <1>1, <2>1, <3>2, InitializeDates, Constants DEF TypeInv, TypeOK, Tracks
    <3> QED BY <3>3
  <2> QED BY <1>1, <1>2, <1>3, <2>1, <2>2 DEF RowInv, RowBehind, Complete
<1>5. CASE ReinitializeSucceeds
  <2>1. mode = "partial" /\ OfServer(track)
        BY <1>5 DEF ReinitializeSucceeds, TypeInv, Locked, SessionInv
  <2>2. track' = track  BY <1>1, <2>1, InitializeDates
  <2> QED BY <1>1, <1>2, <1>3, <2>1, <2>2 DEF RowInv, RowBehind, Complete
<1> QED BY <1>4, <1>5

(* A step that leaves the row, what it is compared with and where it is    *)
(* trusted.                                                                *)
LEMMA RowQuiet ==
  ASSUME SingleQuality, TypeInv, SessionInv, RowInv, UNCHANGED <<server, row, track, mode>>,
         file' = file \/ (dl = "write" /\ file' = Written)
  PROVE  RowHolds' /\ RowBehind'
<1>1. RowHolds'  BY RowStays
<1>2. RowBehind'  BY DEF RowInv, RowBehind, RowIsCurrent, Complete
<1> QED BY <1>1, <1>2

LEMMA RowDownloads ==
  ASSUME SingleQuality, TypeInv, SessionInv, RowInv, Download
  PROVE  RowHolds' /\ RowBehind'
<1>1. CASE ReinitializeSucceeds  BY <1>1, RowInits
<1>2. CASE WriteSucceeds
  <2>1. mode = "partial" /\ copy = track /\ UNCHANGED <<server, row, mode>> /\ file' = Written
        /\ dl = "write"
        BY <1>2 DEF WriteSucceeds, TypeInv, Locked, SessionInv
  <2>2. RowHolds'  BY <2>1, RowStays
  <2>3. track'.local = track.local + buffer.length /\ track.local \in Nat
        /\ buffer.length \in Nat /\ row.local \in Nat
        BY <1>2, <2>1, Constants DEF WriteSucceeds, TypeInv, TypeOK, Tracks
  <2>4. RowBehind'
        BY <2>1, <2>3 DEF RowInv, RowBehind, RowIsCurrent, Complete
  <2> QED BY <2>2, <2>4
<1>3. CASE UpdateSucceeds
  <2>1. mode = "partial" /\ copy = track /\ UNCHANGED <<server, file, mode, track>> /\ row' = copy
        /\ dl = "update" /\ track.local \in Nat /\ Version(track) = Current
        /\ wanted \in Qualities
        BY <1>3, Constants DEF UpdateSucceeds, TypeInv, TypeOK, Locked, SessionInv, OfServer, Tracks
  <2>2. RowHolds'  BY <2>1, RowUpdated
  <2>3. RowIsCurrent'  BY <2>1 DEF RowIsCurrent, Version, Current
  <2>4. RowBehind'  BY <2>1, <2>3 DEF RowBehind
  <2> QED BY <2>2, <2>4
<1>4. CASE WriteFails  BY <1>4, RowQuiet DEF WriteFails
<1>5. CASE UNCHANGED <<server, row, track, mode, file>>  BY <1>5, RowQuiet
<1> QED BY <1>1, <1>2, <1>3, <1>4, <1>5 DEF Download, StartCoroutine, LoopHead, ReinitializeFails,
           CancelledAwait, ReadSucceeds, ReadFails, OwnFile, UpdateFails, RetryAbandoned

LEMMA RowKept ==
  ASSUME SingleQuality, Calm, TypeInv, SessionInv, RowInv, [Next]_vars, ~overwritten'
  PROVE  RowHolds' /\ RowBehind'
<1>1. CASE (\E q \in Qualities : ReadRow(q)) \/ (\E r \in pending : RequestFails(r))
  BY <1>1, RowQuiet DEF ReadRow, RequestFails, session
<1>8. ASSUME NEW r \in pending, OpenFile(r) PROVE RowHolds' /\ RowBehind'
  BY <1>8, RowStays DEF OpenFile, RowBehind
<1>9. CASE PutBack
  <2>1. row' = track /\ UNCHANGED <<server, file>> /\ ~Outdated
    BY <1>9 DEF PutBack
  <2>2. RowHolds'  BY <2>1, RowPutBack
  <2>3. ASSUME Complete(track) PROVE Playable
    <3>1. track # NewTrack  BY <2>3 DEF Complete, NewTrack
    <3>2. track.quality \in Qualities  BY <3>1 DEF RowInv, Dates, Dated
    <3> QED BY <2>3, <3>2 DEF SingleQuality, Playable, TypeInv, TypeOK
  <2>4. RowBehind'  BY <1>9, <2>1, <2>3 DEF PutBack, RowBehind, Complete
  <2> QED BY <2>2, <2>4
<1>2. ASSUME NEW q \in Qualities, ServerChanges(q) PROVE RowHolds' /\ RowBehind'
  <2>1. UNCHANGED <<row, file, mode>> /\ mode = "closed" /\ server' = [server EXCEPT ![q] = @ + 1]
        BY <1>2 DEF ServerChanges, session, Calm
  <2>2. server \in [Qualities -> Nat]  BY Constants DEF TypeInv, TypeOK, Stamps
  <2>3. ASSUME row # NewTrack
        PROVE  /\ row.quality \in Qualities /\ row.stamp \in 1..server[row.quality]
               /\ row.size = Size[Version(row)]
        BY <2>3 DEF RowInv, Dates, Dated
  <2>4. \A p \in Qualities : server[p] \in Nat /\ server'[p] >= server[p]
                             /\ (p # q => server'[p] = server[p])
                             /\ (p = q => server'[p] > server[p])
        BY <2>1, <2>2
  <2>6. RowHolds'
    <3>1. RowIsCurrent' => RowIsCurrent
      <4>1. ASSUME RowIsCurrent' PROVE RowIsCurrent
        <5>1. row.quality \in Qualities /\ row.stamp = server'[row.quality] /\ row # NewTrack
              BY <2>1, <4>1, Constants DEF RowIsCurrent, NewTrack
        <5>2. row.stamp \in 1..server[row.quality]  BY <2>3, <5>1
        <5>3. row.quality # q  BY <2>4, <5>1, <5>2
        <5> QED BY <2>4, <5>1, <5>3 DEF RowIsCurrent
      <4> QED BY <4>1
    <3> QED BY <2>1, <3>1 DEF RowInv, RowHolds, Complete, Holds, Version
  <2>7. RowBehind'  BY <2>1 DEF RowBehind
  <2> QED BY <2>6, <2>7
<1>3. CASE OpenFails \/ Close
  <2>1. UNCHANGED <<server, row, file>> /\ mode' = "closed"
        BY <1>3 DEF OpenFails, Close, EndSession
  <2> QED BY <2>1, RowStays DEF RowBehind
<1>4. CASE Crash
  <2>1. mode' = "closed" /\ server' = server  BY <1>4 DEF Crash, EndSession
  <2>2. CASE row' = row
    <3>1. file' = file \/ (dl = "write" /\ file' = Written)  BY <1>4 DEF Crash
    <3> QED BY <2>1, <2>2, <3>1, RowStays DEF RowBehind
  <2>3. CASE row' # row
    <3>1. CASE dl = "update"
      <4>1. row' = copy /\ file' = file  BY <1>4, <2>3, <3>1 DEF Crash
      <4> QED BY <2>1, <3>1, <4>1, RowUpdated DEF RowBehind
    <3>2. CASE dl # "update"
      <4>1. mode = "touching" /\ row' = track  BY <1>4, <2>3, <3>2 DEF Crash
      <4>2. dl = "off"  BY <4>1 DEF TypeInv, Locked
      <4>3. ~Outdated /\ file' = file  BY <1>4, <4>1, <4>2 DEF Crash
      <4> QED BY <2>1, <4>1, <4>3, RowPutBack DEF RowBehind
    <3> QED BY <3>1, <3>2
  <2> QED BY <2>2, <2>3
<1>5. CASE OpenSucceeds  BY <1>5, RowInits
<1>6. CASE Cancel \/ Play
  BY <1>6, RowQuiet DEF Cancel, Play, ReadPartial, ReadWhole, StartRead, EndRead
<1>7. CASE UNCHANGED vars  BY <1>7, RowQuiet DEF vars, session
<1> QED BY <1>1, <1>2, <1>3, <1>4, <1>5, <1>6, <1>7, <1>8, <1>9, RowDownloads DEF Next

LEMMA OneInductive == ASSUME SingleQuality, Calm PROVE Spec => []OneInv
<1>1. Init => OneInv
  <2> SUFFICES ASSUME Init PROVE OneInv  OBVIOUS
  <2>1. TypeInv /\ SessionInv /\ row = NewTrack /\ mode = "closed"
        BY CoherentInit DEF Init
  <2>2. RowHolds
    <3>1. ~RowIsCurrent /\ ~Complete(row)
          BY <2>1, Constants DEF RowIsCurrent, Complete, NewTrack
    <3> QED BY <3>1 DEF RowHolds
  <2>3. Dates  BY DEF Init, Dates, Dated
  <2> QED BY <2>1, <2>2, <2>3 DEF OneInv, RowInv, RowBehind
<1>2. OneInv /\ [Next]_vars => OneInv'
  <2> SUFFICES ASSUME OneInv, [Next]_vars PROVE OneInv'  OBVIOUS
  <2>0. TypeInv /\ TypeInv'  BY TypesKept DEF OneInv
  <2>1. SUFFICES ASSUME ~overwritten, ~overwritten' PROVE SessionInv' /\ RowInv'
    BY <2>0, OverwrittenStays DEF OneInv
  <2>2. SessionInv /\ RowInv  BY <2>1 DEF OneInv
  <2>3. RowTrusted
        BY <2>0, <2>2, RowCurrent DEF RowTrusted, RowInv, RowHolds
  <2>4. Dates'  BY <2>0, <2>2, DatesKept DEF RowInv
  <2> QED BY <2>0, <2>1, <2>2, <2>3, <2>4, SessionKept, RowKept DEF RowInv
<1> QED BY <1>1, <1>2, PTL DEF Spec

(* With one quality, whatever is killed and whichever write fails, what is *)
(* playing comes from one version of the server's file, if that file       *)
(* changes between sessions only and error pages are told from data, and   *)
(* until a request writes the row it had read over what a session has      *)
(* recorded meanwhile (initializeAsync, continueDownloadingAsync,          *)
(* getPartialStreamAsync).                                                 *)
THEOREM PlaysOneFile == ASSUME SingleQuality, Calm PROVE Spec => []TrackCoherent
<1>1. OneInv => TrackCoherent
  <2> SUFFICES ASSUME OneInv PROVE TrackCoherent  OBVIOUS
  <2>1. CASE mode = "partial"
        BY <2>1 DEF OneInv, SessionInv, TrackCoherent, OfServer
  <2>2. CASE mode = "complete"
        BY <2>2 DEF OneInv, SessionInv, RowInv, RowHolds, TrackCoherent
  <2> QED BY <2>1, <2>2 DEF TrackCoherent
<1> QED BY <1>1, OneInductive, PTL

(* And a row that says its file is complete, which is not asked about at   *)
(* the server again, has all its bytes from the version it names, with the *)
(* same exception (resolveCachedStreamAsync).                              *)
THEOREM CompleteRowsAreWhole == ASSUME SingleQuality, Calm PROVE Spec => []CompleteRowCoherent
<1>1. OneInv => CompleteRowCoherent
  BY DEF OneInv, RowInv, RowHolds, CompleteRowCoherent
<1> QED BY <1>1, OneInductive, PTL

(* The lock keeps reads and writes of the one file stream apart, whatever  *)
(* fails (TakeReadOwnershipAsync, TakeWriteOwnershipAsync).                *)
THEOREM ReadsAndWritesApart == Spec => []ReadsAlone
<1>1. TypeInv => ReadsAlone  BY DEF TypeInv, Locked, ReadsAlone
<1> QED BY <1>1, TypesInit, TypesKept, PTL DEF Spec

-----------------------------------------------------------------------------
(* The clean-up *)

CleanTypeInv ==
  /\ TypeInv
  /\ sweep \in {"off", "file", "row"} /\ stored \in BOOLEAN
  /\ wronged \subseteq {"row", "track", "copy", "read"} /\ misled \subseteq pending

(* The first n blocks are there, or the clean-up has deleted what r counts.*)
Backed(n, r) == \A b \in Blocks : b < n => file[b] # Blank \/ r \in wronged

(* Every record of the blocks, and the read that was let in, is backed.    *)
Claims ==
  /\ Backed(row.local, "row")
  /\ Backed(track.local, "track")
  /\ dl \notin {"off", "retry"} => Backed(copy.local, "copy")
  /\ user = "reader" \/ reading = "yes" => Backed(need["reader"], "read")

(* Between sessions no record is in memory, a plain file is complete, and  *)
(* a buffer that is not empty has come from somewhere.                     *)
AtRest ==
  /\ mode = "closed" => track.local = 0
  /\ mode = "complete" => track.local = track.size
  /\ dl \in {"own", "write"} /\ buffer.length > 0 => buffer.from # Blank

(* So is what a request that waits for the file has read.                  *)
RequestsBacked ==
  \A r \in pending : r \notin misled => \A b \in Blocks : b < r.seen.local => file[b] # Blank

CleanIInv == CleanTypeInv /\ Claims /\ AtRest /\ RequestsBacked

FileGrows == \A b \in Blocks : file[b] # Blank => file'[b] # Blank

LEMMA WriteGrows ==
  ASSUME CleanIInv, dl = "write", file' = file \/ file' = Written
  PROVE  FileGrows
<1>1. copy.local \in Nat /\ buffer.length \in Nat
  BY Constants DEF CleanIInv, CleanTypeInv, TypeInv, TypeOK, Tracks
<1>2. ASSUME NEW b \in Blocks, file[b] # Blank PROVE Written[b] # Blank
  <2>1. CASE b \in copy.local..(copy.local + buffer.length - 1)
    <3>1. buffer.length > 0  BY <1>1, <2>1
    <3> QED BY <2>1, <3>1 DEF Written, CleanIInv, AtRest
  <2>2. CASE b \notin copy.local..(copy.local + buffer.length - 1)
    BY <1>2, <2>2 DEF Written
  <2> QED BY <2>1, <2>2
<1> QED BY <1>2 DEF FileGrows

(* What the ghost says after a step, one record at a time.                 *)
LEMMA DeceivedSays ==
  /\ "row" \in Deceived <=> IF dl = "update" /\ row' = copy THEN "copy" \in wronged
                            ELSE IF mode = "touching" /\ row' = track THEN "track" \in wronged
                            ELSE "row" \in wronged
  /\ "track" \in Deceived <=> /\ track'.local # 0
                              /\ IF dl = "write" /\ dl' = "update" THEN "copy" \in wronged
                                 ELSE "track" \in wronged
  /\ "copy" \in Deceived <=> /\ dl' \notin {"off", "retry"}
                             /\ IF dl = "retry" THEN "track" \in wronged ELSE "copy" \in wronged
  /\ "read" \in Deceived <=> /\ reading' # "no"
                             /\ IF LetIn THEN "track" \in wronged ELSE "read" \in wronged
  /\ Deceived \subseteq {"row", "track", "copy", "read"}
<1> DEFINE was(r) == IF r \in wronged THEN {r} ELSE {}
           from(r, s) == IF s \in wronged THEN {r} ELSE {}
           Row == IF dl = "update" /\ row' = copy THEN from("row", "copy")
                  ELSE IF mode = "touching" /\ row' = track THEN from("row", "track") ELSE was("row")
           Track == IF track'.local = 0 THEN {}
                    ELSE IF dl = "write" /\ dl' = "update" THEN from("track", "copy")
                    ELSE was("track")
           Copy == IF dl' \in {"off", "retry"} THEN {}
                   ELSE IF dl = "retry" THEN from("copy", "track") ELSE was("copy")
           Read == IF reading' = "no" THEN {}
                   ELSE IF LetIn THEN from("read", "track") ELSE was("read")
<1>1. Deceived = Track \cup Copy \cup Read \cup Row
  BY DEF Deceived
<1>2. Row \subseteq {"row"} /\ Track \subseteq {"track"} /\ Copy \subseteq {"copy"}
      /\ Read \subseteq {"read"}
  OBVIOUS
<1>3. "row" \in Row <=> IF dl = "update" /\ row' = copy THEN "copy" \in wronged
                        ELSE IF mode = "touching" /\ row' = track THEN "track" \in wronged
                        ELSE "row" \in wronged
  OBVIOUS
<1>4. "track" \in Track <=> /\ track'.local # 0
                            /\ IF dl = "write" /\ dl' = "update" THEN "copy" \in wronged
                               ELSE "track" \in wronged
  OBVIOUS
<1>5. "copy" \in Copy <=> /\ dl' \notin {"off", "retry"}
                          /\ IF dl = "retry" THEN "track" \in wronged ELSE "copy" \in wronged
  OBVIOUS
<1>6. "read" \in Read <=> /\ reading' # "no"
                          /\ IF LetIn THEN "track" \in wronged ELSE "read" \in wronged
  OBVIOUS
<1> HIDE DEF Row, Track, Copy, Read
<1> QED BY <1>1, <1>2, <1>3, <1>4, <1>5, <1>6

(* How a step may change the records: each takes a value that was backed   *)
(* before.                                                                 *)
RowFrom ==
  \/ row' = row
  \/ dl = "update" /\ row' = copy
  \/ mode = "touching" /\ row' = track

TrackFrom == track'.local = 0 \/ (track' = track /\ ~(dl = "write" /\ dl' = "update"))

CopyFrom ==
  \/ dl' \in {"off", "retry"}
  \/ dl = "retry" /\ copy' = track
  \/ dl \notin {"off", "retry"} /\ copy' = copy

ReadFrom ==
  \/ user' # "reader" /\ reading' # "yes"
  \/ /\ reading' # "no" /\ need' = need
     /\ user = "reader" \/ (reading = "yes" /\ user' # "reader")
  \/ LetIn /\ reading' # "no" /\ need'["reader"] <= track.local

LEMMA ClaimsFollow ==
  ASSUME CleanIInv, wronged' = Deceived, FileGrows, TypeInv', RowFrom, TrackFrom, CopyFrom, ReadFrom
  PROVE  Claims'
<1> USE DeceivedSays
<1>0. \A b \in Blocks : b \in Nat  BY Constants DEF Blocks
<1>1. Backed(row.local, "row")'
  <2>0. dl = "update" => Backed(copy.local, "copy")  BY DEF CleanIInv, Claims
  <2>1. CASE dl = "update" /\ row' = copy
        BY <2>0, <2>1 DEF Backed, FileGrows
  <2>2. CASE mode = "touching" /\ row' = track /\ ~(dl = "update" /\ row' = copy)
        BY <2>2 DEF CleanIInv, Claims, Backed, FileGrows
  <2>3. CASE row' = row /\ ~(dl = "update" /\ row' = copy) /\ ~(mode = "touching" /\ row' = track)
        BY <2>3 DEF CleanIInv, Claims, Backed, FileGrows
  <2> QED BY <2>1, <2>2, <2>3 DEF RowFrom
<1>2. Backed(track.local, "track")'
  <2>1. CASE track'.local = 0
        BY <1>0, <2>1 DEF Backed
  <2>2. CASE track' = track /\ ~(dl = "write" /\ dl' = "update") /\ track'.local # 0
        BY <2>2 DEF CleanIInv, Claims, Backed, FileGrows
  <2> QED BY <2>1, <2>2 DEF TrackFrom
<1>3. ASSUME dl' \notin {"off", "retry"} PROVE Backed(copy.local, "copy")'
  <2>1. CASE dl = "retry" /\ copy' = track
        BY <1>3, <2>1 DEF CleanIInv, Claims, Backed, FileGrows
  <2>2. CASE dl \notin {"off", "retry"} /\ copy' = copy
        BY <1>3, <2>2 DEF CleanIInv, Claims, Backed, FileGrows
  <2> QED BY <1>3, <2>1, <2>2 DEF CopyFrom
<1>4. ASSUME user' = "reader" \/ reading' = "yes" PROVE Backed(need["reader"], "read")'
  <2>1. CASE LetIn /\ reading' # "no" /\ need'["reader"] <= track.local
    <3>1. need'["reader"] \in Nat /\ track.local \in Nat
          BY Constants DEF CleanIInv, CleanTypeInv, TypeInv, TypeOK, Tracks
    <3>2. \A b \in Blocks : b < need'["reader"] => b < track.local
          BY <1>0, <2>1, <3>1
    <3> QED BY <2>1, <3>2 DEF CleanIInv, Claims, Backed, FileGrows
  <2>2. CASE /\ reading' # "no" /\ need' = need
             /\ user = "reader" \/ (reading = "yes" /\ user' # "reader")
    <3>1. ~LetIn
          BY <2>2 DEF LetIn, CleanIInv, CleanTypeInv, TypeInv, Locked
    <3> QED BY <2>2, <3>1 DEF CleanIInv, Claims, Backed, FileGrows
  <2> QED BY <1>4, <2>1, <2>2 DEF ReadFrom
<1> QED BY <1>1, <1>2, <1>3, <1>4 DEF Claims

LEMMA RecordsStay ==
  ASSUME CleanIInv, UNCHANGED <<row, track>>, ~(dl = "write" /\ dl' = "update")
  PROVE  RowFrom /\ TrackFrom
BY DEF RowFrom, TrackFrom

LEMMA ReadStays ==
  ASSUME CleanIInv, UNCHANGED <<user, need, reading>>
  PROVE  ReadFrom
BY DEF ReadFrom, CleanIInv, CleanTypeInv, TypeInv, Locked

LEMMA FileStays == ASSUME UNCHANGED file PROVE FileGrows
BY DEF FileGrows

(* When the download gives the file back, a waiting reader is let in only  *)
(* if its bytes are below local_size.                                      *)
LEMMA HandedOver ==
  ASSUME CleanIInv, dl \in {"write", "update"}, Access!Finish, UNCHANGED <<mode, reading>>
  PROVE  ReadFrom
<1>1. user = "downloader" /\ need' = need /\ mode = "partial" /\ waiting \subseteq {"reader"}
      /\ reading # "yes"
  BY DEF CleanIInv, CleanTypeInv, TypeInv, TypeOK, Locked, Access!Finish
<1>2. CASE user' = "reader"
  <2>1. "reader" \in waiting /\ need["reader"] <= track.local
        BY <1>1, <1>2 DEF Access!Finish, Access!Servable
  <2> QED BY <1>1, <1>2, <2>1 DEF ReadFrom, LetIn, CleanIInv, CleanTypeInv, TypeInv, Locked
<1>3. CASE user' # "reader"  BY <1>1, <1>3 DEF ReadFrom
<1> QED BY <1>2, <1>3

(* Steps of the download.                                                  *)
LEMMA ClaimsDownload ==
  ASSUME CleanIInv, Download \/ UpdateMisses, TypeInv', wronged' = Deceived
  PROVE  Claims' /\ AtRest'
<1>0. /\ dl # "off" => mode = "partial"
      /\ TypeInv /\ AtRest
  BY DEF CleanIInv, CleanTypeInv, TypeInv, Locked
<1>1. CASE \/ StartCoroutine \/ LoopHead \/ ReinitializeFails \/ CancelledAwait \/ ReadFails
           \/ OwnFile \/ RetryAbandoned
  <2>1. UNCHANGED <<row, track, user, need, reading, file, mode, buffer>>
        /\ dl \notin {"off", "write", "update"} /\ (dl' \in {"own", "write"} => dl = "own")
    BY <1>1 DEF StartCoroutine, LoopHead, ReinitializeFails, CancelledAwait, ReadFails, OwnFile,
       RetryAbandoned, Failed, lock
  <2>2. CopyFrom
    BY <1>1 DEF CopyFrom, StartCoroutine, LoopHead, ReinitializeFails, CancelledAwait, ReadFails,
       OwnFile, RetryAbandoned, Failed
  <2>3. Claims'  BY <2>1, <2>2, RecordsStay, ReadStays, FileStays, ClaimsFollow
  <2>4. AtRest'  BY <1>0, <2>1 DEF AtRest
  <2> QED BY <2>3, <2>4
<1>2. CASE ReinitializeSucceeds
  <2>1. UNCHANGED <<row, file, mode, copy, user, need, reading, buffer>> /\ Initialize
        /\ dl = "initialize" /\ dl' = "read"
        BY <1>2 DEF ReinitializeSucceeds, lock
  <2>2. mode = "partial" /\ (track' = track \/ track'.local = 0)
        BY <1>0, <2>1, InitializeDates
  <2>3. RowFrom /\ TrackFrom /\ CopyFrom
        BY <2>1, <2>2 DEF RowFrom, TrackFrom, CopyFrom
  <2>4. Claims'  BY <2>1, <2>3, ReadStays, FileStays, ClaimsFollow
  <2>5. AtRest'  BY <2>1, <2>2 DEF AtRest
  <2> QED BY <2>4, <2>5
<1>3. CASE ReadSucceeds
  <2>1. UNCHANGED <<row, file, mode, copy, track, reading, need>> /\ dl = "read" /\ dl' = "own"
        /\ (user' = "reader" <=> user = "reader") /\ buffer' \in Responses /\ web # Blank
        BY <1>0, <1>3 DEF ReadSucceeds, Access!Write, Access!Enter, TypeInv, Locked, BufferFits
  <2>2. ReadFrom
        BY <1>0, <2>1 DEF ReadFrom, TypeInv, Locked
  <2>3. Claims'  BY <2>1, <2>2, RecordsStay, FileStays, ClaimsFollow DEF CopyFrom
  <2>4. buffer'.length > 0 => buffer'.from # Blank
        BY <2>1, Constants DEF Responses, NoBuffer
  <2>5. AtRest'  BY <1>0, <2>1, <2>4 DEF AtRest
  <2> QED BY <2>3, <2>5
<1>4. CASE WriteFails
  <2>1. UNCHANGED <<row, track, mode, reading, buffer>> /\ dl = "write" /\ dl' = "retry"
        /\ (file' = file \/ file' = Written) /\ Access!Finish
        BY <1>4 DEF WriteFails, Failed
  <2>2. Claims'
        BY <2>1, RecordsStay, HandedOver, WriteGrows, ClaimsFollow DEF CopyFrom
  <2> QED BY <1>0, <2>1, <2>2 DEF AtRest
<1>5. CASE UpdateSucceeds \/ UpdateMisses \/ UpdateFails
  <2>1. UNCHANGED <<track, copy, file, mode, reading>> /\ dl = "update" /\ dl' \in {"loop", "retry"}
        /\ RowFrom /\ Access!Finish
        BY <1>5 DEF UpdateSucceeds, UpdateMisses, UpdateFails, Failed, RowFrom
  <2>2. TrackFrom /\ CopyFrom
        BY <1>0, <2>1 DEF TrackFrom, CopyFrom
  <2>3. Claims'  BY <2>1, <2>2, HandedOver, FileStays, ClaimsFollow
  <2> QED BY <1>0, <2>1, <2>3 DEF AtRest
<1>6. CASE WriteSucceeds
  <2>1. /\ UNCHANGED <<row, mode, reading, buffer, user, need>> /\ dl = "write" /\ dl' = "update"
        /\ file' = Written /\ track' = copy' /\ mode = "partial"
        BY <1>0, <1>6 DEF WriteSucceeds, lock
  <2>2. copy'.local = copy.local + buffer.length
        BY <1>6 DEF WriteSucceeds, CleanIInv, CleanTypeInv, TypeInv, TypeOK, Tracks
  <2>3. FileGrows  BY <2>1, WriteGrows
  <2>4. copy.local \in Nat /\ buffer.length \in Nat
        BY Constants DEF CleanIInv, CleanTypeInv, TypeInv, TypeOK, Tracks
  <2>5. ASSUME NEW b \in Blocks, b < copy'.local, "copy" \notin wronged
        PROVE  Written[b] # Blank
    <3>1. b \in Nat  BY Constants DEF Blocks
    <3>2. CASE b < copy.local
          BY <2>1, <2>3, <2>5, <3>2 DEF FileGrows, CleanIInv, Claims, Backed
    <3>3. CASE ~(b < copy.local)
      <4>1. b \in copy.local..(copy.local + buffer.length - 1) /\ buffer.length > 0
            BY <2>2, <2>4, <2>5, <3>1, <3>3
      <4> QED BY <2>1, <4>1 DEF Written, CleanIInv, AtRest
    <3> QED BY <3>2, <3>3
  <2>6. /\ "row" \in wronged' <=> "row" \in wronged
        /\ "copy" \in wronged' <=> "copy" \in wronged
        /\ "track" \in wronged' <=> track'.local # 0 /\ "copy" \in wronged
        /\ user = "reader" \/ reading = "yes" =>
             ("read" \in wronged' <=> "read" \in wronged)
        BY <1>0, <2>1, DeceivedSays DEF LetIn, TypeInv, Locked
  <2>7. Backed(row.local, "row")' /\ (user' = "reader" \/ reading' = "yes" => Backed(need["reader"], "read")')
        BY <2>1, <2>3, <2>6 DEF CleanIInv, Claims, Backed, FileGrows
  <2>8. Backed(copy.local, "copy")'
        BY <2>1, <2>5, <2>6 DEF Backed
  <2>9. Backed(track.local, "track")'
    <3>1. \A b \in Blocks : ~(b < 0)  BY Constants DEF Blocks
    <3> QED BY <2>1, <2>5, <2>6, <3>1 DEF Backed
  <2>10. AtRest'  BY <2>1 DEF AtRest
  <2> QED BY <2>7, <2>8, <2>9, <2>10 DEF Claims
<1> QED BY <1>1, <1>2, <1>3, <1>4, <1>5, <1>6 DEF Download

(* The session ends: nothing in memory counts a block any more.            *)
LEMMA ClaimsEnd ==
  ASSUME CleanIInv, EndSession, RowFrom, FileGrows, TypeInv', wronged' = Deceived
  PROVE  Claims' /\ AtRest'
<1>1. TrackFrom /\ CopyFrom /\ ReadFrom
  BY DEF EndSession, NewTrack, TrackFrom, CopyFrom, ReadFrom
<1>2. AtRest'  BY DEF EndSession, NewTrack, NoBuffer, AtRest
<1> QED BY <1>1, <1>2, ClaimsFollow

(* The row may have been put back over one that counted less, but nothing  *)
(* the record in memory did not count.                                     *)
LEMMA ClaimsOpen ==
  ASSUME CleanIInv, TypeInv', wronged' = Deceived,
         PutBack \/ PutBackMisses \/ OpenSucceeds
  PROVE  Claims' /\ AtRest'
<1>1. CASE PutBack \/ PutBackMisses
  <2>1. /\ mode = "touching" /\ mode' \in {"opening", "complete"} /\ row' \in {row, track}
        /\ mode' = "complete" => Complete(track)
        /\ UNCHANGED <<file, track, user, need, reading, copy, dl, buffer>>
        BY <1>1 DEF PutBack, PutBackMisses, Playable, opens, lock
  <2>2. dl = "off"  BY <2>1 DEF CleanIInv, CleanTypeInv, TypeInv, Locked
  <2>3. RowFrom /\ TrackFrom /\ CopyFrom
        BY <2>1, <2>2 DEF RowFrom, TrackFrom, CopyFrom
  <2>4. Claims'  BY <2>1, <2>3, ReadStays, FileStays, ClaimsFollow
  <2>5. AtRest'  BY <2>1, <2>2 DEF AtRest, Complete
  <2> QED BY <2>4, <2>5
<1>2. CASE OpenSucceeds
  <2>1. /\ mode = "opening" /\ mode' = "partial" /\ Initialize /\ dl' = "retry"
        /\ UNCHANGED <<row, file, user, need, reading, copy, buffer>>
        BY <1>2 DEF OpenSucceeds, lock
  <2>2. track' = track \/ track'.local = 0
        BY <2>1, InitializeDates DEF CleanIInv, CleanTypeInv
  <2>3. RowFrom /\ TrackFrom /\ CopyFrom
        BY <2>1, <2>2 DEF RowFrom, TrackFrom, CopyFrom
  <2>4. Claims'  BY <2>1, <2>3, ReadStays, FileStays, ClaimsFollow
  <2> QED BY <2>1, <2>4 DEF AtRest
<1> QED BY <1>1, <1>2

LEMMA ClaimsPlay ==
  ASSUME CleanIInv, TypeInv', wronged' = Deceived, Play
  PROVE  Claims' /\ AtRest'
<1>1. UNCHANGED <<row, file, mode, track, dl, copy, buffer>>
  BY DEF Play, ReadPartial, ReadWhole, StartRead, EndRead
<1>2. CopyFrom  BY <1>1 DEF CopyFrom
<1>3. AtRest'  BY <1>1 DEF CleanIInv, AtRest
<1>4. ReadFrom
  <2>1. ASSUME NEW pos \in 0..MaxBlocks, NEW count \in 1..MaxBlocks, ReadPartial(pos, count)
        PROVE  ReadFrom
    <3> DEFINE n == EndOfRead(pos, count)
    <3> HIDE DEF n
    <3>1. /\ mode = "partial" /\ reading = "no" /\ reading' = "asked" /\ user # "reader"
          /\ need' = [need EXCEPT !["reader"] = n]
          BY <2>1 DEF ReadPartial, Access!Read, Access!Enter, n, CleanIInv, CleanTypeInv, TypeInv, Locked
    <3>2. need'["reader"] = n
          BY <3>1 DEF CleanIInv, CleanTypeInv, TypeInv, TypeOK
    <3>3. user' = "reader" => n <= track.local
          BY <2>1, <3>1 DEF ReadPartial, Access!Read, Access!Enter, n
    <3> QED BY <3>1, <3>2, <3>3 DEF ReadFrom, LetIn
  <2>2. ASSUME NEW pos \in 0..MaxBlocks, NEW count \in 1..MaxBlocks, ReadWhole(pos, count)
        PROVE  ReadFrom
    <3> DEFINE n == IF pos + count > track.size THEN track.size ELSE pos + count
    <3>1. track.size \in Nat  BY Constants DEF CleanIInv, CleanTypeInv, TypeInv, TypeOK, Tracks
    <3>2. n <= track.size  BY <3>1, Constants
    <3> HIDE DEF n
    <3>3. need'["reader"] = n
          BY <2>2 DEF ReadWhole, n, CleanIInv, CleanTypeInv, TypeInv, TypeOK
    <3>4. track.local = track.size /\ reading = "no" /\ reading' = "yes"
          BY <2>2 DEF ReadWhole, CleanIInv, AtRest
    <3> QED BY <3>2, <3>3, <3>4 DEF ReadFrom, LetIn
  <2>3. ASSUME StartRead PROVE ReadFrom
    BY <2>3 DEF StartRead, ReadFrom, lock
  <2>4. ASSUME EndRead PROVE ReadFrom
    <3>1. reading = "yes" /\ reading' = "no"  BY <2>4 DEF EndRead
    <3>2. user' # "reader"
      <4>1. CASE mode = "partial"
        <5>1. "reader" \notin waiting /\ Access!Finish
              BY <2>4, <3>1, <4>1 DEF EndRead, CleanIInv, CleanTypeInv, TypeInv, Locked
        <5> QED BY <5>1 DEF Access!Finish, Access!Servable
      <4>2. CASE mode # "partial"
        BY <2>4, <4>2 DEF EndRead, lock, CleanIInv, CleanTypeInv, TypeInv, Locked
      <4> QED BY <4>1, <4>2
    <3> QED BY <3>1, <3>2 DEF ReadFrom
  <2> QED BY <2>1, <2>2, <2>3, <2>4 DEF Play
<1> QED BY <1>1, <1>2, <1>3, <1>4, RecordsStay, FileStays, ClaimsFollow

(* The record of a session that begins is what the request has read.       *)
LEMMA ClaimsOpenFile ==
  ASSUME CleanIInv, NEW r \in pending, OpenTrackFile(r)
  PROVE  Claims' /\ AtRest'
<1>1. /\ mode = "closed" /\ mode' = "touching" /\ track' = r.seen
      /\ UNCHANGED <<row, file, user, need, reading, copy, dl, buffer>>
      /\ wronged' = IF r \in misled THEN wronged \cup {"track"} ELSE wronged
  BY DEF OpenTrackFile, OpenFile, lock
<1>2. dl = "off" /\ user = "nobody" /\ reading = "no"
  BY <1>1 DEF CleanIInv, CleanTypeInv, TypeInv, Locked
<1>3. Backed(row.local, "row")'
  BY <1>1 DEF CleanIInv, Claims, Backed
<1>4. Backed(track.local, "track")'
  BY <1>1 DEF CleanIInv, RequestsBacked, Backed
<1>5. AtRest'  BY <1>1, <1>2 DEF AtRest
<1> QED BY <1>1, <1>2, <1>3, <1>4, <1>5 DEF Claims

(* What the requests have read stays backed, because no block goes away    *)
(* but with the file.                                                      *)
LEMMA RequestsStay ==
  ASSUME CleanIInv, pending' \subseteq pending, misled \cap pending' \subseteq misled', FileGrows
  PROVE  RequestsBacked'
BY DEF CleanIInv, RequestsBacked, FileGrows

LEMMA FileOnlyGrows ==
  ASSUME CleanIInv, Next \/ UpdateMisses \/ PutBackMisses
  PROVE  FileGrows
<1>1. file' = file \/ (dl = "write" /\ file' = Written)
  BY DEF Next, ReadRow, RequestFails, OpenFile, PutBack, OpenSucceeds, OpenFails,
       Download, StartCoroutine, LoopHead, ReinitializeSucceeds, ReinitializeFails, CancelledAwait,
       ReadSucceeds, ReadFails, OwnFile, WriteSucceeds, WriteFails, UpdateSucceeds, UpdateFails,
       RetryAbandoned, Play, ReadPartial, ReadWhole, StartRead, EndRead, Close, Cancel, Crash,
       ServerChanges, UpdateMisses, PutBackMisses
<1> QED BY <1>1, FileStays, WriteGrows

LEMMA RequestsKept ==
  ASSUME CleanIInv, [CleanNext]_cleanVars
  PROVE  RequestsBacked'
<1>0. misled \subseteq pending  BY DEF CleanIInv, CleanTypeInv
<1>1. CASE CacheStep
  <2>1. UNCHANGED <<pending, misled>>
    BY <1>1 DEF CacheStep, Others, PutBack, OpenSucceeds, OpenFails, StartCoroutine, LoopHead,
       ReinitializeSucceeds, ReinitializeFails, CancelledAwait, ReadSucceeds, ReadFails, OwnFile,
       WriteSucceeds, WriteFails, UpdateSucceeds, UpdateFails, RetryAbandoned, Play, ReadPartial,
       ReadWhole, StartRead, EndRead, Close, Cancel, ServerChanges, UpdateMisses, PutBackMisses, opens
  <2>2. FileGrows  BY <1>1, FileOnlyGrows DEF CacheStep, Next, Download
  <2> QED BY <2>1, <2>2, RequestsStay
<1>2. ASSUME NEW q \in Qualities, ReadTrackRow(q) PROVE RequestsBacked'
  <2> DEFINE new == [quality |-> q, seen |-> row]
  <2>1. pending' = pending \cup {new} /\ file' = file
    BY <1>2 DEF ReadTrackRow, ReadRow
  <2>2. misled' = IF "row" \in wronged THEN misled \cup {new} ELSE misled
    BY <1>2 DEF ReadTrackRow
  <2>3. new.seen = row  OBVIOUS
  <2> HIDE DEF new
  <2>4. ASSUME new \notin misled' PROVE \A b \in Blocks : b < new.seen.local => file[b] # Blank
    BY <2>2, <2>3, <2>4 DEF CleanIInv, Claims, Backed
  <2>5. ASSUME NEW r \in pending, r \notin misled'
        PROVE \A b \in Blocks : b < r.seen.local => file[b] # Blank
    BY <2>2, <2>5 DEF CleanIInv, RequestsBacked
  <2> QED BY <2>1, <2>4, <2>5 DEF RequestsBacked
<1>3. ASSUME NEW r \in pending, GiveUpRequest(r) \/ OpenTrackFile(r) PROVE RequestsBacked'
  <2>1. pending' \subseteq pending /\ file' = file /\ misled \cap pending' \subseteq misled'
    BY <1>3 DEF GiveUpRequest, OpenTrackFile, RequestFails, OpenFile
  <2> QED BY <2>1, RequestsStay, FileStays
<1>4. CASE Kill  BY <1>4 DEF Kill, Crash, RequestsBacked
<1>5. CASE DeleteFile
  <2>1. /\ pending' = pending /\ pending \subseteq Requests
        /\ misled' = {r \in pending : r.seen.local > 0}
    BY <1>5 DEF DeleteFile, opens, CleanIInv, CleanTypeInv, TypeInv, TypeOK
  <2>2. \A r \in pending : r.seen.local \in Nat  BY <2>1, Constants DEF Requests, Tracks
  <2>3. \A b \in Blocks : b \in Nat  BY Constants DEF Blocks
  <2> QED BY <2>1, <2>2, <2>3 DEF RequestsBacked
<1>6. CASE KillSweep \/ ListTrack \/ LeaveFile \/ DeleteRow \/ UNCHANGED cleanVars
  BY <1>6, RequestsStay, FileStays DEF KillSweep, ListTrack, LeaveFile, DeleteRow, cleanVars, vars,
     others, opens
<1> QED BY <1>1, <1>2, <1>3, <1>4, <1>5, <1>6 DEF CleanNext

LEMMA CleanTypesKept ==
  ASSUME CleanTypeInv, [CleanNext]_cleanVars
  PROVE  CleanTypeInv'
<1>0. TypeInv  BY DEF CleanTypeInv
<1>1. CASE CacheStep
  <2>1. TypeInv'
    <3>1. CASE UpdateMisses
      BY <1>0, <3>1, DownloadGivesBack DEF UpdateMisses, TypeInv, TypeOK
    <3>2. CASE PutBackMisses  BY <1>0, <3>2, TypesPutBack
    <3>3. CASE ~UpdateMisses /\ ~PutBackMisses
      BY <1>0, <1>1, <3>3, TypesKept DEF CacheStep, Next, Download
    <3> QED BY <3>1, <3>2, <3>3
  <2>2. wronged' = Deceived /\ UNCHANGED <<sweep, stored, misled, pending>>
    BY <1>1 DEF CacheStep, Others, PutBack, OpenSucceeds, OpenFails, StartCoroutine, LoopHead,
       ReinitializeSucceeds, ReinitializeFails, CancelledAwait, ReadSucceeds, ReadFails, OwnFile,
       WriteSucceeds, WriteFails, UpdateSucceeds, UpdateFails, RetryAbandoned, Play, ReadPartial,
       ReadWhole, StartRead, EndRead, Close, Cancel, ServerChanges, UpdateMisses, PutBackMisses, opens
  <2> QED BY <2>1, <2>2, DeceivedSays DEF CleanTypeInv
<1>2. CASE (\E q \in Qualities : ReadTrackRow(q)) \/ (\E r \in pending : GiveUpRequest(r))
  <2>1. TypeInv'  BY <1>0, <1>2, TypesWaits DEF ReadTrackRow, GiveUpRequest
  <2>2. misled' \subseteq pending' /\ UNCHANGED <<sweep, wronged>> /\ stored' \in BOOLEAN
    BY <1>2 DEF ReadTrackRow, GiveUpRequest, ReadRow, RequestFails, CleanTypeInv
  <2> QED BY <2>1, <2>2 DEF CleanTypeInv
<1>3. ASSUME NEW r \in pending, OpenTrackFile(r) PROVE CleanTypeInv'
  BY <1>0, <1>3, TypesOpenFile DEF OpenTrackFile, CleanTypeInv
<1>4. CASE Kill
  BY <1>0, <1>4, TypesCrash, DeceivedSays DEF Kill, CleanTypeInv
<1>5. CASE KillSweep \/ ListTrack \/ LeaveFile \/ UNCHANGED cleanVars
  <2>1. TypeInv'
        BY <1>0, <1>5, TypesStutter DEF KillSweep, ListTrack, LeaveFile, cleanVars
  <2> QED BY <1>5, <2>1 DEF KillSweep, ListTrack, LeaveFile, cleanVars, others, vars, opens,
                            CleanTypeInv
<1>6. CASE DeleteFile
  <2>1. TypeInv'
        BY <1>0, <1>6, SessionStays DEF DeleteFile, NoFile, TypeInv, TypeOK, opens
  <2> QED BY <1>6, <2>1 DEF DeleteFile, CleanTypeInv, opens
<1>7. CASE DeleteRow
  <2>1. TypeInv'
        BY <1>0, <1>7, SessionStays, NewTrackIsOne DEF DeleteRow, TypeInv, TypeOK, opens
  <2> QED BY <1>7, <2>1 DEF DeleteRow, CleanTypeInv, opens
<1> QED BY <1>1, <1>2, <1>3, <1>4, <1>5, <1>6, <1>7 DEF CleanNext

LEMMA CleanKept ==
  ASSUME CleanIInv, [CleanNext]_cleanVars
  PROVE  CleanIInv'
<1>0. CleanTypeInv' /\ TypeInv' /\ RequestsBacked'
  BY CleanTypesKept, RequestsKept DEF CleanIInv, CleanTypeInv
<1>1. ASSUME Download \/ UpdateMisses, Others PROVE Claims' /\ AtRest'
  BY <1>0, <1>1, ClaimsDownload DEF Others
<1>2. ASSUME Play, Others PROVE Claims' /\ AtRest'
  BY <1>0, <1>2, ClaimsPlay DEF Others
<1>3. ASSUME PutBack \/ PutBackMisses \/ OpenSucceeds, wronged' = Deceived
      PROVE  Claims' /\ AtRest'
  BY <1>0, <1>3, ClaimsOpen
<1>4. ASSUME OpenFails \/ Close, wronged' = Deceived PROVE Claims' /\ AtRest'
  <2>1. EndSession /\ UNCHANGED <<row, file>>  BY <1>4 DEF OpenFails, Close
  <2> QED BY <1>0, <1>4, <2>1, ClaimsEnd, FileStays DEF RowFrom
<1>5. ASSUME Cancel \/ (\E q \in Qualities : ServerChanges(q)), wronged' = Deceived
      PROVE  Claims' /\ AtRest'
  <2>1. UNCHANGED <<row, file, mode, track, dl, copy, buffer, user, need, reading>>
        BY <1>5 DEF Cancel, ServerChanges, session, lock
  <2>2. CopyFrom  BY <2>1 DEF CopyFrom
  <2>3. AtRest'  BY <2>1 DEF CleanIInv, AtRest
  <2> QED BY <1>0, <1>5, <2>1, <2>2, <2>3, RecordsStay, ReadStays, FileStays, ClaimsFollow
<1>6. ASSUME Crash, wronged' = Deceived PROVE Claims' /\ AtRest'
  <2>1. EndSession /\ RowFrom  BY <1>6 DEF Crash, RowFrom
  <2>2. FileGrows
    <3>1. CASE dl = "write"  BY <1>6, <3>1, WriteGrows DEF Crash
    <3>2. CASE dl # "write"  BY <1>6, <3>2, FileStays DEF Crash
    <3> QED BY <3>1, <3>2
  <2> QED BY <1>0, <1>6, <2>1, <2>2, ClaimsEnd
<1>7. CASE KillSweep \/ ListTrack \/ LeaveFile \/ UNCHANGED cleanVars
  <2>1. UNCHANGED vars /\ UNCHANGED wronged
        BY <1>7 DEF KillSweep, ListTrack, LeaveFile, cleanVars, others
  <2>2. Claims' /\ AtRest'
        BY <2>1 DEF vars, session, lock, CleanIInv, Claims, Backed, AtRest
  <2> QED BY <1>0, <2>2 DEF CleanIInv
<1>8. CASE DeleteFile
  <2>1. /\ dl = "off" /\ reading = "no" /\ user = "nobody"
        BY <1>8 DEF DeleteFile, CleanIInv, CleanTypeInv, TypeInv, Locked
  <2>2. /\ UNCHANGED <<row, mode, track, dl, copy, buffer, user, need, reading>>
        /\ row.local > 0 => "row" \in wronged'
        /\ track.local = 0
        BY <1>8 DEF DeleteFile, session, lock, CleanIInv, AtRest
  <2>3. row.local \in Nat /\ track.local \in Nat /\ \A b \in Blocks : b \in Nat
        BY Constants DEF CleanIInv, CleanTypeInv, TypeInv, TypeOK, Tracks, Blocks
  <2>4. Backed(row.local, "row")' /\ Backed(track.local, "track")'
        BY <2>2, <2>3 DEF Backed
  <2>5. AtRest'  BY <2>1, <2>2 DEF CleanIInv, AtRest
  <2> QED BY <1>0, <2>1, <2>2, <2>4, <2>5 DEF CleanIInv, Claims
<1>9. CASE DeleteRow
  <2>1. /\ UNCHANGED <<file, mode, track, dl, copy, buffer, user, need, reading>>
        /\ row'.local = 0 /\ wronged' = wronged \ {"row"}
        BY <1>9 DEF DeleteRow, NewTrack, session, lock
  <2>2. \A b \in Blocks : ~(b < 0)  BY Constants DEF Blocks
  <2>3. Claims'  BY <2>1, <2>2 DEF CleanIInv, Claims, Backed
  <2>4. AtRest'  BY <2>1 DEF CleanIInv, AtRest
  <2> QED BY <1>0, <2>3, <2>4 DEF CleanIInv
<1>10. CASE CacheStep
  <2>1. Claims' /\ AtRest'
        BY <1>1, <1>2, <1>3, <1>4, <1>5, <1>10 DEF CacheStep, Download, Others
  <2> QED BY <1>0, <2>1 DEF CleanIInv
<1>11. CASE Kill
  <2>1. Claims' /\ AtRest'  BY <1>6, <1>11 DEF Kill
  <2> QED BY <1>0, <2>1 DEF CleanIInv
<1>12. CASE (\E q \in Qualities : ReadTrackRow(q)) \/ (\E r \in pending : GiveUpRequest(r))
  <2>1. UNCHANGED <<row, file, mode, track, dl, copy, buffer, user, need, reading, wronged>>
        BY <1>12 DEF ReadTrackRow, GiveUpRequest, ReadRow, RequestFails, session
  <2>2. Claims' /\ AtRest'  BY <2>1 DEF CleanIInv, Claims, Backed, AtRest
  <2> QED BY <1>0, <2>2 DEF CleanIInv
<1>13. ASSUME NEW r \in pending, OpenTrackFile(r) PROVE CleanIInv'
  BY <1>0, <1>13, ClaimsOpenFile DEF CleanIInv
<1> QED BY <1>7, <1>8, <1>9, <1>10, <1>11, <1>12, <1>13 DEF CleanNext

LEMMA CleanInductive == CleanSpec => []CleanIInv
<1>1. CleanInit => CleanIInv
  <2> SUFFICES ASSUME CleanInit PROVE CleanIInv  OBVIOUS
  <2>1. CleanTypeInv  BY TypesInit DEF CleanInit, CleanTypeInv
  <2>2. \A b \in Blocks : ~(b < 0)  BY Constants DEF Blocks
  <2>3. Claims /\ AtRest
        BY <2>2 DEF CleanInit, Init, NewTrack, NoBuffer, Claims, Backed, AtRest
  <2>4. RequestsBacked  BY DEF CleanInit, Init, RequestsBacked
  <2> QED BY <2>1, <2>3, <2>4 DEF CleanIInv
<1>2. CleanIInv /\ [CleanNext]_cleanVars => CleanIInv'  BY CleanKept
<1> QED BY <1>1, <1>2, PTL DEF CleanSpec

(* Whatever fails, changes on the server or is cleaned up: a record, in    *)
(* the database or in memory, counts no block that the file lacks, unless  *)
(* the clean-up has deleted that file and not yet the row, or the track    *)
(* was opened by a request that had read such a row                        *)
(* (continueDownloadingAsync, the clean-up of StorageStatistics.cpp).      *)
THEOREM CleanUpKeepsPromises == CleanSpec => []CleanInv
<1>1. CleanIInv => CleanInv
  BY DEF CleanIInv, CleanTypeInv, TypeInv, Claims, Backed, CleanInv, CleanTypeOK, PromisesKept
<1> QED BY <1>1, CleanInductive, PTL

(* Reads and writes of the stream never overlap, and a read that was let   *)
(* in finds all its bytes in the file, with the same exception             *)
(* (ReadBlockAsync).                                                       *)
THEOREM ReadsFindTheirBytes == CleanSpec => []ReadsAreSafe
<1>1. CleanIInv => ReadsAreSafe
  <2> SUFFICES ASSUME CleanIInv PROVE ReadsAreSafe  OBVIOUS
  <2>1. ReadsAlone
        BY DEF CleanIInv, CleanTypeInv, TypeInv, Locked, ReadsAlone
  <2>2. ASSUME reading = "yes", "read" \notin wronged,
               NEW b \in position..(need["reader"] - 1)
        PROVE  b \in Blocks /\ file[b] # Blank
    <3>1. need["reader"] \in Nat /\ need["reader"] <= MaxBlocks /\ position \in Nat
          BY <2>2, Constants DEF CleanIInv, CleanTypeInv, TypeInv, TypeOK, ReadsFit
    <3>2. b \in Blocks /\ b < need["reader"]
          BY <3>1, Constants DEF Blocks
    <3> QED BY <2>2, <3>2 DEF CleanIInv, Claims, Backed
  <2> QED BY <2>1, <2>2 DEF ReadsAreSafe, ReadsAreBacked
<1> QED BY <1>1, CleanInductive, PTL

-----------------------------------------------------------------------------
(* The use of the lock: what the download and the reads of an open track   *)
(* do together is what FileAccess allows its clients.                      *)

(* FileAccess names a bound on what a read asks for; a count that wrapped  *)
(* (EndOfRead) passes it.                                                  *)
LockStep ==
  \/ Access!Next
  \/ \E n \in Nat : Access!Read("reader", n)
  \/ UNCHANGED Access!vars

Obeys == mode' = "partial" => IF mode = "partial" THEN LockStep ELSE Access!Init'

(* The copy of the coroutine never counts less than _track, and no read    *)
(* has asked for anything before the track is open.                        *)
Using ==
  /\ dl \notin {"off", "retry"} => track.local <= copy.local
  /\ mode \in {"closed", "touching", "opening"} => need = [r \in {"reader"} |-> 0]

(* Steps that leave lock and local_size alone.                             *)
LEMMA IdleObeys ==
  ASSUME UNCHANGED <<mode, user, waiting, need>>, track'.local = track.local
  PROVE  Obeys
BY DEF Obeys, LockStep, Access!vars

LEMMA FinishObeys ==
  ASSUME Access!Finish
  PROVE  Obeys
<1>1. mode = "partial" /\ mode' = "partial"  BY DEF Access!Finish
<1> QED BY <1>1 DEF Obeys, LockStep, Access!Next

(* Only the owner of the file raises local_size.                           *)
LEMMA WriteUses == ASSUME TypeInv, Using, WriteSucceeds PROVE Using' /\ Obeys
<1>1. /\ dl = "write" /\ dl' = "update" /\ user = "downloader" /\ mode = "partial"
      /\ track' = copy' /\ UNCHANGED <<mode, user, waiting, need>>
  BY DEF WriteSucceeds, lock, TypeInv, Locked
<1>2. /\ copy'.local = copy.local + buffer.length /\ copy.local + buffer.length <= MaxBlocks
      /\ copy.local \in Nat /\ buffer.length \in Nat /\ track.local \in Nat
  BY Constants DEF WriteSucceeds, TypeInv, TypeOK, BufferFits, Tracks
<1>3. track'.local \in track.local..MaxBlocks  BY <1>1, <1>2, Constants DEF Using
<1>4. Access!Extend  BY <1>1, <1>3 DEF Access!Extend
<1> QED BY <1>1, <1>2, <1>4 DEF Using, Obeys, LockStep, Access!Next

(* A version that was replaced is thrown away by a download that neither   *)
(* has the file nor waits for it.                                          *)
LEMMA ReinitializeUses == ASSUME TypeInv, Using, ReinitializeSucceeds PROVE Using' /\ Obeys
<1>1. /\ dl = "initialize" /\ dl' = "read" /\ mode = "partial" /\ Initialize
      /\ user # "downloader" /\ "downloader" \notin waiting
      /\ UNCHANGED <<mode, copy, user, waiting, need>>
  BY DEF ReinitializeSucceeds, lock, TypeInv, Locked
<1>2. track' = track \/ track'.local = 0  BY <1>1, InitializeDates
<1>3. Using'
  <2>1. copy.local \in Nat  BY Constants DEF TypeInv, TypeOK, Tracks
  <2> QED BY <1>1, <1>2, <2>1 DEF Using
<1>4. CASE track' = track  BY <1>1, <1>3, <1>4, IdleObeys
<1>5. CASE track'.local = 0
  <2>1. Access!Discard  BY <1>1, <1>5 DEF Access!Discard
  <2> QED BY <1>1, <1>3, <2>1 DEF Obeys, LockStep, Access!Next
<1> QED BY <1>2, <1>4, <1>5

LEMMA OpenUses == ASSUME TypeInv, TypeInv', Using, OpenSucceeds PROVE Using' /\ Obeys
<1>1. /\ mode = "opening" /\ mode' = "partial" /\ dl' = "retry" /\ UNCHANGED <<user, waiting, need>>
      /\ user = "nobody" /\ waiting = {} /\ need = [r \in {"reader"} |-> 0]
  BY DEF OpenSucceeds, lock, TypeInv, Locked, Using
<1>2. track'.local \in 0..MaxBlocks  BY DEF TypeInv, TypeOK, Tracks
<1>3. Access!Init'  BY <1>1, <1>2 DEF Access!Init
<1> QED BY <1>1, <1>3 DEF Using, Obeys

LEMMA ReadUses ==
  ASSUME TypeInv, Using, NEW pos \in 0..MaxBlocks, NEW count \in 1..MaxBlocks,
         ReadPartial(pos, count)
  PROVE  Using' /\ Obeys
<1> DEFINE n == EndOfRead(pos, count)
<1>1. n \in Nat  BY EndOfReadIsNat
<1>2. Access!Read("reader", n) /\ mode = "partial" /\ UNCHANGED <<mode, dl, track, copy>>
  BY DEF ReadPartial
<1> HIDE DEF n
<1> QED BY <1>1, <1>2 DEF Using, Obeys, LockStep

LEMMA PlayUses == ASSUME TypeInv, Using, Play PROVE Using' /\ Obeys
<1>1. ASSUME NEW pos \in 0..MaxBlocks, NEW count \in 1..MaxBlocks, ReadWhole(pos, count)
      PROVE  Using' /\ Obeys
  BY <1>1 DEF ReadWhole, Using, Obeys
<1>2. CASE StartRead  BY <1>2, IdleObeys DEF StartRead, lock, Using
<1>3. CASE EndRead
  <2>1. UNCHANGED <<mode, dl, track, copy>> /\ (mode = "partial" => Access!Finish)
        /\ (mode # "partial" => UNCHANGED need)
    BY <1>3 DEF EndRead, lock
  <2>2. Obeys  BY <2>1, FinishObeys DEF Obeys
  <2> QED BY <2>1, <2>2 DEF Using
<1> QED BY <1>1, <1>2, <1>3, ReadUses DEF Play

LEMMA DownloadUses == ASSUME TypeInv, Using, Download \/ UpdateMisses PROVE Using' /\ Obeys
<1>1. CASE StartCoroutine \/ LoopHead \/ ReinitializeFails \/ CancelledAwait \/ ReadFails
           \/ OwnFile \/ RetryAbandoned
  <2>1. /\ UNCHANGED <<mode, track, user, waiting, need>>
        /\ dl' \notin {"off", "retry"} =>
             copy' = track \/ (dl \notin {"off", "retry"} /\ copy' = copy)
    BY <1>1 DEF StartCoroutine, LoopHead, ReinitializeFails, CancelledAwait, ReadFails, OwnFile,
                RetryAbandoned, Failed, lock
  <2>2. track.local \in Nat  BY Constants DEF TypeInv, TypeOK, Tracks
  <2> QED BY <2>1, <2>2, IdleObeys DEF Using
<1>2. CASE ReadSucceeds
  <2>1. Access!Write("downloader") /\ dl = "read" /\ UNCHANGED <<mode, track, copy>>
    BY <1>2 DEF ReadSucceeds
  <2>2. mode = "partial" /\ UNCHANGED need  BY <2>1 DEF Access!Write, Access!Enter
  <2> QED BY <2>1, <2>2 DEF Using, Obeys, LockStep, Access!Next
<1>3. CASE WriteFails \/ UpdateSucceeds \/ UpdateFails \/ UpdateMisses
  <2>1. Access!Finish /\ dl \in {"write", "update"} /\ UNCHANGED <<mode, track, copy>>
    BY <1>3 DEF WriteFails, UpdateSucceeds, UpdateFails, UpdateMisses
  <2>2. UNCHANGED need  BY <2>1 DEF Access!Finish
  <2> QED BY <2>1, <2>2, FinishObeys DEF Using
<1> QED BY <1>1, <1>2, <1>3, WriteUses, ReinitializeUses DEF Download

LEMMA EndUses == ASSUME EndSession PROVE Using' /\ Obeys
BY DEF EndSession, Using, Obeys

LEMMA StayUses == ASSUME Using, UNCHANGED <<mode, dl, track, copy, lock>> PROVE Using' /\ Obeys
BY IdleObeys DEF Using, lock

LEMMA Uses == ASSUME CleanIInv, Using, [CleanNext]_cleanVars PROVE Using' /\ Obeys
<1>1. TypeInv /\ TypeInv'  BY CleanKept DEF CleanIInv, CleanTypeInv
<1>2. ASSUME NEW r \in pending, OpenFile(r) PROVE Using' /\ Obeys
  <2>1. /\ mode = "closed" /\ mode' = "touching" /\ dl' = dl /\ need' = need
    BY <1>2 DEF OpenFile, lock
  <2>2. dl = "off"  BY <1>1, <2>1 DEF TypeInv, Locked
  <2> QED BY <2>1, <2>2 DEF Using, Obeys
<1>7. CASE PutBack \/ PutBackMisses
  <2>1. /\ mode = "touching" /\ mode' \in {"complete", "opening"} /\ dl' = dl /\ need' = need
    BY <1>7 DEF PutBack, PutBackMisses, lock
  <2>2. dl = "off"  BY <1>1, <2>1 DEF TypeInv, Locked
  <2> QED BY <2>1, <2>2 DEF Using, Obeys
<1>3. CASE OpenFails \/ Close \/ Crash  BY <1>3, EndUses DEF OpenFails, Close, Crash
<1>4. CASE Cancel \/ (\E q \in Qualities : ServerChanges(q)) \/ UNCHANGED session
  <2>1. UNCHANGED <<mode, dl, track, copy, lock>>  BY <1>4 DEF Cancel, ServerChanges, session, lock
  <2> QED BY <2>1, StayUses
<1>5. CASE CacheStep
  BY <1>1, <1>3, <1>4, <1>5, <1>7, OpenUses, DownloadUses, PlayUses DEF CacheStep, Download
<1>6. CASE \/ KillSweep \/ ListTrack \/ LeaveFile \/ DeleteFile \/ DeleteRow \/ UNCHANGED cleanVars
           \/ (\E q \in Qualities : ReadTrackRow(q)) \/ (\E r \in pending : GiveUpRequest(r))
  <2>1. UNCHANGED session
    BY <1>6 DEF KillSweep, ListTrack, LeaveFile, DeleteFile, DeleteRow, cleanVars, vars,
       ReadTrackRow, GiveUpRequest, ReadRow, RequestFails
  <2> QED BY <1>4, <2>1
<1> QED BY <1>2, <1>3, <1>5, <1>6 DEF CleanNext, OpenTrackFile, Kill

(* Under every fault and beside the clean-up, an open track is a behaviour *)
(* of FileAccess, the specification the ownership lock implements: it      *)
(* begins in an initial state of it, only the owner of the file raises     *)
(* local_size, only a download that neither has the file nor waits for it  *)
(* resets it, and nobody asks twice (continueDownloadingAsync,             *)
(* ReadBlockAsync, initializeAsync).  So what StreamOwnership supposes of  *)
(* its clients is true of these.                                           *)
THEOREM TracksObeyTheLock == CleanSpec => [][Obeys]_cleanVars
<1>1. CleanInit => Using  BY DEF CleanInit, Init, Using
<1>2. CleanIInv /\ Using /\ [CleanNext]_cleanVars => Using' /\ Obeys  BY Uses
<1> QED BY <1>1, <1>2, CleanInductive, PTL DEF CleanSpec
=============================================================================
