------------------------ MODULE StreamOwnershipProofs ------------------------
(***************************************************************************)
(* The safety of the ownership lock for any number of readers and writers  *)
(* and any file size.  No single invariant of StreamOwnership is inductive *)
(* by itself: that an idle lock has no waiters needs the state to tell who *)
(* holds the file, and that needs listed clients to be waiting ones.       *)
(***************************************************************************)
EXTENDS StreamOwnershipImpl, SequenceTheorems, TLAPS

IInv ==
  /\ TypeOK
  /\ SingleOwner
  /\ StateMatchesHolder
  /\ WaitersListed
  /\ NoLostWakeup

(* RemoveAt, the model of vector::erase, deletes one element and keeps the *)
(* order of the others.                                                    *)
LEMMA RemoveAtProperties ==
  ASSUME NEW S, NEW s \in Seq(S), NEW k \in 1..Len(s)
  PROVE  /\ RemoveAt(s, k) \in Seq(S)
         /\ Len(RemoveAt(s, k)) = Len(s) - 1
         /\ \A i \in 1..(Len(s) - 1) : RemoveAt(s, k)[i] = IF i < k THEN s[i] ELSE s[i + 1]
<1> DEFINE a == SubSeq(s, 1, k - 1)
           b == SubSeq(s, k + 1, Len(s))
<1>1. /\ Len(s) \in Nat
      /\ \A i \in 1..Len(s) : s[i] \in S
  BY LenProperties, ElementOfSeq
<1>2. /\ a \in Seq(S)
      /\ Len(a) = k - 1
      /\ \A i \in 1..(k - 1) : a[i] = s[i]
  <2>1. \A i \in 1..(k - 1) : s[i] \in S
    BY <1>1
  <2>2. 1 \in Int /\ k - 1 \in Int
    OBVIOUS
  <2> QED
    BY <1>1, <2>1, <2>2, SubSeqProperties
<1>3. /\ b \in Seq(S)
      /\ Len(b) = Len(s) - k
      /\ \A i \in 1..(Len(s) - k) : b[i] = s[k + i]
  <2>1. \A i \in (k + 1)..Len(s) : s[i] \in S
    BY <1>1
  <2>2. k + 1 \in Int /\ Len(s) \in Int
    BY <1>1
  <2>3. /\ b \in Seq(S)
        /\ Len(b) = IF k + 1 <= Len(s) THEN Len(s) - (k + 1) + 1 ELSE 0
        /\ \A i \in 1..(Len(s) - (k + 1) + 1) : b[i] = s[(k + 1) + i - 1]
    BY <2>1, <2>2, SubSeqProperties
  <2> QED
    BY <1>1, <2>3
<1>4. /\ a \o b \in Seq(S)
      /\ Len(a \o b) = Len(a) + Len(b)
      /\ \A i \in 1..(Len(a) + Len(b)) : (a \o b)[i] = IF i <= Len(a) THEN a[i] ELSE b[i - Len(a)]
  BY <1>2, <1>3, ConcatProperties
<1>5. RemoveAt(s, k) = a \o b
  BY DEF RemoveAt
<1> HIDE DEF a, b
<1>6. Len(a) + Len(b) = Len(s) - 1
  BY <1>1, <1>2, <1>3
<1>7. ASSUME NEW i \in 1..(Len(s) - 1)
      PROVE  (a \o b)[i] = IF i < k THEN s[i] ELSE s[i + 1]
  <2>1. /\ Len(s) \in Nat
        /\ k \in 1..Len(s)
        /\ i \in 1..(Len(s) - 1)
        /\ i \in 1..(Len(a) + Len(b))
    BY <1>1, <1>6
  <2>2. CASE i < k
    <3>1. i <= Len(a) /\ i \in 1..(k - 1)
      BY <2>1, <2>2, <1>2
    <3>2. (a \o b)[i] = a[i]
      BY <1>4, <2>1, <3>1
    <3> QED
      BY <2>2, <3>1, <3>2, <1>2
  <2>3. CASE ~(i < k)
    <3>1. ~(i <= Len(a)) /\ (i - Len(a)) \in 1..(Len(s) - k) /\ k + (i - Len(a)) = i + 1
      BY <2>1, <2>3, <1>2
    <3>2. (a \o b)[i] = b[i - Len(a)]
      BY <1>4, <2>1, <3>1
    <3>3. b[i - Len(a)] = s[k + (i - Len(a))]
      BY <1>3, <3>1
    <3> QED
      BY <2>3, <3>1, <3>2, <3>3
  <2> QED
    BY <2>2, <2>3
<1> QED
  BY <1>4, <1>5, <1>6, <1>7

(* Append, the model of vector::push_back. *)
LEMMA AppendFacts ==
  ASSUME NEW S, NEW s \in Seq(S), NEW e \in S
  PROVE  /\ Append(s, e) \in Seq(S)
         /\ DOMAIN s = 1..Len(s)
         /\ DOMAIN Append(s, e) = 1..(Len(s) + 1)
         /\ Len(s) \in Nat
         /\ \A i \in 1..Len(s) : Append(s, e)[i] = s[i] /\ s[i] \in S
         /\ Append(s, e)[Len(s) + 1] = e
OBVIOUS

-----------------------------------------------------------------------------
(* The clients C that f says are waiting are exactly the ones in the list  *)
(* q, each at one place of it.                                             *)

ListedOnce(q, C, f) ==
  /\ \A c \in C : f[c] = "waiting" <=> \E i \in DOMAIN q : q[i] = c
  /\ \A i, j \in DOMAIN q : q[i] = q[j] => i = j

LEMMA WaitersListedIsListedOnce ==
  WaitersListed <=> (alive => /\ ListedOnce(pendingReaders, Readers, phase)
                              /\ ListedOnce(pendingWriters, Writers, phase))
BY DEF WaitersListed, ListedOnce

LEMMA ListedUnchanged ==
  ASSUME NEW C, NEW q, NEW f, NEW g, ListedOnce(q, C, f),
         \A c \in C : g[c] = "waiting" <=> f[c] = "waiting"
  PROVE  ListedOnce(q, C, g)
BY DEF ListedOnce

LEMMA ListedAppend ==
  ASSUME NEW C, NEW q \in Seq(C), NEW f, NEW g, NEW c \in C,
         ListedOnce(q, C, f), f[c] # "waiting", g[c] = "waiting",
         \A d \in C \ {c} : g[d] = f[d]
  PROVE  ListedOnce(Append(q, c), C, g)
<1> DEFINE p == Append(q, c)
<1>1. /\ DOMAIN q = 1..Len(q) /\ Len(q) \in Nat
      /\ DOMAIN p = 1..(Len(q) + 1)
      /\ \A i \in 1..Len(q) : p[i] = q[i] /\ q[i] \in C
      /\ p[Len(q) + 1] = c
  BY AppendFacts
<1> HIDE DEF p
<1>2. \A i \in DOMAIN q : q[i] # c
  BY DEF ListedOnce
<1>3. \A d \in C : g[d] = "waiting" <=> \E i \in DOMAIN p : p[i] = d
  <2>1. (\E i \in DOMAIN p : p[i] = c)
    BY <1>1
  <2>2. ASSUME NEW d \in C \ {c}
        PROVE  (\E i \in DOMAIN p : p[i] = d) <=> (\E i \in DOMAIN q : q[i] = d)
    BY <1>1
  <2> QED
    BY <2>1, <2>2 DEF ListedOnce
<1>4. ASSUME NEW i \in DOMAIN p, NEW j \in DOMAIN p, p[i] = p[j]
      PROVE  i = j
  <2>1. i \in 1..Len(q) \/ i = Len(q) + 1
    BY <1>1
  <2>2. j \in 1..Len(q) \/ j = Len(q) + 1
    BY <1>1
  <2> QED
    BY <1>1, <1>2, <1>4, <2>1, <2>2 DEF ListedOnce
<1> QED
  BY <1>3, <1>4 DEF ListedOnce, p

LEMMA ListedRemove ==
  ASSUME NEW C, NEW q \in Seq(C), NEW f, NEW g, NEW k \in 1..Len(q), NEW p,
         ListedOnce(q, C, f), g[q[k]] # "waiting",
         \A d \in C \ {q[k]} : g[d] = "waiting" <=> f[d] = "waiting",
         DOMAIN p = 1..(Len(q) - 1),
         \A i \in 1..(Len(q) - 1) : p[i] = IF i < k THEN q[i] ELSE q[i + 1]
  PROVE  ListedOnce(p, C, g)
<1>1. /\ DOMAIN q = 1..Len(q) /\ Len(q) \in Nat
      /\ \A i \in 1..Len(q) : q[i] \in C
  BY LenProperties, ElementOfSeq
<1> DEFINE old(i) == IF i < k THEN i ELSE i + 1
<1>2. \A i \in DOMAIN p : old(i) \in DOMAIN q /\ old(i) # k /\ p[i] = q[old(i)]
  BY <1>1
<1>3. \A i, j \in DOMAIN p : old(i) = old(j) => i = j
  BY <1>1
<1>4. ASSUME NEW n \in DOMAIN q, n # k
      PROVE  \E i \in DOMAIN p : old(i) = n
  <2>1. CASE n < k
    BY <1>1, <2>1, n \in DOMAIN p, old(n) = n
  <2>2. CASE n > k
    BY <1>1, <2>2, n - 1 \in DOMAIN p, old(n - 1) = n
  <2> QED
    BY <1>1, <1>4, <2>1, <2>2
<1> HIDE DEF old
<1>5. ASSUME NEW i \in DOMAIN p, NEW j \in DOMAIN p, p[i] = p[j]
      PROVE  i = j
  BY <1>2, <1>3, <1>5 DEF ListedOnce
<1>6. ASSUME NEW d \in C
      PROVE  g[d] = "waiting" <=> \E i \in DOMAIN p : p[i] = d
  <2>1. CASE d = q[k]
    <3>1. \A i \in DOMAIN p : p[i] # q[k]
      BY <1>1, <1>2 DEF ListedOnce
    <3> QED
      BY <2>1, <3>1
  <2>2. CASE d # q[k]
    <3>1. (\E i \in DOMAIN p : p[i] = d) <=> (\E n \in DOMAIN q : q[n] = d)
      BY <1>1, <1>2, <1>4, <2>2
    <3>2. g[d] = "waiting" <=> f[d] = "waiting"
      BY <2>2
    <3> QED
      BY <3>1, <3>2 DEF ListedOnce
  <2> QED
    BY <2>1, <2>2
<1> QED
  BY <1>5, <1>6 DEF ListedOnce

-----------------------------------------------------------------------------
LEMMA InitInv == Init => IInv
<1> SUFFICES ASSUME Init PROVE IInv
  OBVIOUS
<1> USE ClientsAssumption DEF Init, Clients
<1>1. TypeOK
  BY DEF TypeOK, StreamStates, Phases
<1>2. Holding = {}
  BY DEF Holding
<1>3. SingleOwner /\ StateMatchesHolder
  BY <1>2 DEF SingleOwner, StateMatchesHolder
<1>4. WaitersListed /\ NoLostWakeup
  BY DEF WaitersListed, NoLostWakeup
<1> QED
  BY <1>1, <1>3, <1>4 DEF IInv

(* What an action must establish of the queues and the holder after it.    *)
LEMMA StepTakeWrite ==
  ASSUME IInv, NEW w \in Writers, TakeWriteOwnership(w)
  PROVE  IInv'
<1> USE ClientsAssumption DEF Clients
<1>0. TypeOK
  BY DEF IInv
<1>1. CASE streamState = "Idle"
  <2> USE <1>0, <1>1 DEF TakeWriteOwnership, TypeOK
  <2>1. TypeOK'
    BY DEF StreamStates, Phases
  <2>2. Holding = {}
    BY DEF IInv, StateMatchesHolder
  <2>3. Holding' = {w}
    BY <2>2 DEF Holding
  <2>4. SingleOwner' /\ StateMatchesHolder'
    BY <2>3 DEF SingleOwner, StateMatchesHolder
  <2>5. WaitersListed'
    BY DEF IInv, WaitersListed
  <2>6. NoLostWakeup'
    BY DEF NoLostWakeup
  <2> QED
    BY <2>1, <2>4, <2>5, <2>6 DEF IInv
<1>2. CASE streamState # "Idle"
  <2>0. /\ pendingWriters' = Append(pendingWriters, w)
        /\ phase' = [phase EXCEPT ![w] = "waiting"]
        /\ phase[w] = "out"
        /\ UNCHANGED streamState
    BY <1>2 DEF TakeWriteOwnership
  <2>a. pendingWriters \in Seq(Writers) /\ phase \in [Clients -> Phases]
    BY <1>0 DEF TypeOK
  <2>b. pendingWriters' \in Seq(Writers)
    BY <2>0, <2>a, AppendFacts
  <2> USE <1>0, <1>2 DEF TakeWriteOwnership, TypeOK
  <2>1. TypeOK'
    BY <2>0, <2>b DEF StreamStates, Phases
  <2>2. Holding' = Holding
    BY DEF Holding
  <2>3. SingleOwner' /\ StateMatchesHolder'
    BY <2>2 DEF IInv, SingleOwner, StateMatchesHolder
  <2>4. WaitersListed'
    <3>1. ListedOnce(pendingReaders, Readers, phase) /\ ListedOnce(pendingWriters, Writers, phase)
      BY WaitersListedIsListedOnce DEF IInv
    <3>2. ListedOnce(pendingWriters', Writers, phase')
      <4>1. phase[w] # "waiting" /\ phase'[w] = "waiting" /\ \A d \in Writers \ {w} : phase'[d] = phase[d]
        BY <2>0, <2>a
      <4>2. ListedOnce(Append(pendingWriters, w), Writers, phase')
        BY <2>a, <3>1, <4>1, ListedAppend
      <4> QED
        BY <2>0, <4>2
    <3>3. ListedOnce(pendingReaders', Readers, phase')
      BY <3>1, ListedUnchanged
    <3> QED
      BY <3>2, <3>3 DEF WaitersListed, ListedOnce
  <2>5. NoLostWakeup'
    BY DEF NoLostWakeup
  <2> QED
    BY <2>1, <2>3, <2>4, <2>5 DEF IInv
<1> QED
  BY <1>1, <1>2

LEMMA StepTakeRead ==
  ASSUME IInv, NEW r \in Readers, NEW required \in 0..MaxSize, TakeReadOwnership(r, required)
  PROVE  IInv'
<1> USE ClientsAssumption DEF Clients
<1>0. TypeOK
  BY DEF IInv
<1>1. CASE streamState = "Idle" /\ localSize >= required
  <2> USE <1>0, <1>1 DEF TakeReadOwnership, TypeOK
  <2>1. TypeOK'
    BY DEF StreamStates, Phases
  <2>2. Holding = {}
    BY DEF IInv, StateMatchesHolder
  <2>3. Holding' = {r}
    BY <2>2 DEF Holding
  <2>4. SingleOwner' /\ StateMatchesHolder'
    BY <2>3 DEF SingleOwner, StateMatchesHolder
  <2>5. WaitersListed'
    BY DEF IInv, WaitersListed
  <2>6. NoLostWakeup'
    BY DEF NoLostWakeup
  <2> QED
    BY <2>1, <2>4, <2>5, <2>6 DEF IInv
<1>2. CASE ~(streamState = "Idle" /\ localSize >= required)
  <2>0. /\ pendingReaders' = Append(pendingReaders, r)
        /\ phase' = [phase EXCEPT ![r] = "waiting"]
        /\ phase[r] = "out"
        /\ UNCHANGED streamState
    BY <1>2 DEF TakeReadOwnership
  <2>a. pendingReaders \in Seq(Readers) /\ phase \in [Clients -> Phases]
    BY <1>0 DEF TypeOK
  <2>b. pendingReaders' \in Seq(Readers)
    BY <2>0, <2>a, AppendFacts
  <2> USE <1>0, <1>2 DEF TakeReadOwnership, TypeOK
  <2>1. TypeOK'
    BY <2>0, <2>b DEF StreamStates, Phases
  <2>2. Holding' = Holding
    BY DEF Holding
  <2>3. SingleOwner' /\ StateMatchesHolder'
    BY <2>2 DEF IInv, SingleOwner, StateMatchesHolder
  <2>4. WaitersListed'
    <3>1. ListedOnce(pendingReaders, Readers, phase) /\ ListedOnce(pendingWriters, Writers, phase)
      BY WaitersListedIsListedOnce DEF IInv
    <3>2. ListedOnce(pendingReaders', Readers, phase')
      <4>1. phase[r] # "waiting" /\ phase'[r] = "waiting" /\ \A d \in Readers \ {r} : phase'[d] = phase[d]
        BY <2>0, <2>a
      <4>2. ListedOnce(Append(pendingReaders, r), Readers, phase')
        BY <2>a, <3>1, <4>1, ListedAppend
      <4> QED
        BY <2>0, <4>2
    <3>3. ListedOnce(pendingWriters', Writers, phase')
      BY <3>1, ListedUnchanged
    <3> QED
      BY <3>2, <3>3 DEF WaitersListed, ListedOnce
  <2>5. NoLostWakeup'
    <3> SUFFICES ASSUME streamState = "Idle"
                 PROVE  /\ pendingWriters' = <<>>
                        /\ \A i \in DOMAIN pendingReaders' : need'[pendingReaders'[i]] > localSize'
      BY DEF NoLostWakeup
    <3>1. required > localSize
      OBVIOUS
    <3>2. pendingWriters = <<>> /\ \A i \in DOMAIN pendingReaders : need[pendingReaders[i]] > localSize
      BY DEF IInv, NoLostWakeup
    <3>3. \A i \in DOMAIN pendingReaders : pendingReaders[i] # r
      BY DEF IInv, WaitersListed
    <3>4. ASSUME NEW i \in DOMAIN pendingReaders'
          PROVE  need'[pendingReaders'[i]] > localSize'
      <4>1. CASE i \in DOMAIN pendingReaders
        <5>1. pendingReaders'[i] = pendingReaders[i] /\ pendingReaders[i] \in Readers
          BY <2>0, <2>a, <4>1, AppendFacts
        <5> QED
          BY <4>1, <5>1, <3>2, <3>3
      <4>2. CASE i \notin DOMAIN pendingReaders
        <5>1. pendingReaders'[i] = r
          BY <2>0, <2>a, <2>b, <4>2, AppendFacts
        <5> QED
          BY <5>1, <3>1
      <4> QED
        BY <4>1, <4>2
    <3> QED
      BY <3>2, <3>4
  <2> QED
    BY <2>1, <2>3, <2>4, <2>5 DEF IInv
<1> QED
  BY <1>1, <1>2

LEMMA StepResume ==
  ASSUME IInv, NEW c \in Clients, Resume(c)
  PROVE  IInv'
<1> USE ClientsAssumption DEF Clients
<1>0. TypeOK
  BY DEF IInv
<1> USE <1>0 DEF Resume, TypeOK
<1>1. TypeOK'
  BY DEF Phases
<1>2. \A d \in Clients : phase'[d] = "waiting" <=> phase[d] = "waiting"
  OBVIOUS
<1>3. WaitersListed'
  <2>1. CASE alive
    <3>1. ListedOnce(pendingReaders, Readers, phase) /\ ListedOnce(pendingWriters, Writers, phase)
      BY <2>1, WaitersListedIsListedOnce DEF IInv
    <3>2. ListedOnce(pendingReaders, Readers, phase') /\ ListedOnce(pendingWriters, Writers, phase')
      BY <1>2, <3>1 DEF ListedOnce
    <3> QED
      BY <3>2 DEF WaitersListed, ListedOnce
  <2>2. CASE ~alive
    BY <2>2 DEF WaitersListed
  <2> QED
    BY <2>1, <2>2
<1>4. SingleOwner'
  BY DEF IInv, SingleOwner, Holding
<1>5. StateMatchesHolder'
  <2>1. CASE alive
    <3>1. Holding' = Holding
      BY <2>1 DEF Holding
    <3> QED
      BY <2>1, <3>1 DEF IInv, StateMatchesHolder
  <2>2. CASE ~alive
    BY <2>2 DEF StateMatchesHolder
  <2> QED
    BY <2>1, <2>2
<1>6. NoLostWakeup'
  BY DEF IInv, NoLostWakeup
<1> QED
  BY <1>1, <1>3, <1>4, <1>5, <1>6 DEF IInv

(* The three ways an Ownership is destroyed. *)
LEMMA StepHandToReader ==
  ASSUME IInv, NEW c \in Clients, alive, phase[c] = "owner", HandToReader(c),
         UNCHANGED <<localSize, need, alive>>
  PROVE  IInv'
<1> USE ClientsAssumption DEF Clients
<1>0. TypeOK
  BY DEF IInv
<1>1. PICK k \in DOMAIN pendingReaders :
        /\ streamState' = "Reading"
        /\ phase' = [phase EXCEPT ![c] = "out", ![pendingReaders[k]] = "granted"]
        /\ pendingReaders' = RemoveAt(pendingReaders, k)
        /\ UNCHANGED pendingWriters
  BY DEF HandToReader
<1> DEFINE r == pendingReaders[k]
<1>2. /\ pendingReaders \in Seq(Readers) /\ k \in 1..Len(pendingReaders)
      /\ DOMAIN pendingReaders = 1..Len(pendingReaders)
      /\ r \in Readers /\ phase \in [Clients -> Phases]
  BY <1>0, <1>1, LenProperties, ElementOfSeq DEF TypeOK
<1>3. /\ pendingReaders' \in Seq(Readers)
      /\ Len(pendingReaders') = Len(pendingReaders) - 1
      /\ \A i \in 1..(Len(pendingReaders) - 1) :
            pendingReaders'[i] = IF i < k THEN pendingReaders[i] ELSE pendingReaders[i + 1]
  BY <1>1, <1>2, RemoveAtProperties
<1>4. DOMAIN pendingReaders' = 1..(Len(pendingReaders) - 1)
  BY <1>3, LenProperties
<1>5. /\ ListedOnce(pendingReaders, Readers, phase)
      /\ ListedOnce(pendingWriters, Writers, phase)
  BY WaitersListedIsListedOnce DEF IInv
<1>6. phase[r] = "waiting" /\ r # c
  BY <1>1, <1>2, <1>5 DEF ListedOnce
<1>7. Holding = {c}
  BY DEF IInv, SingleOwner, Holding
<1> HIDE DEF r
<1>8. phase' = [phase EXCEPT ![c] = "out", ![r] = "granted"]
  BY <1>1 DEF r
<1>9. Holding' = {r}
  BY <1>2, <1>6, <1>7, <1>8 DEF Holding
<1>10. TypeOK'
  BY <1>0, <1>1, <1>2, <1>3, <1>8 DEF TypeOK, StreamStates, Phases
<1>11. SingleOwner' /\ StateMatchesHolder'
  BY <1>1, <1>2, <1>9 DEF SingleOwner, StateMatchesHolder
<1>12. WaitersListed'
  <2>1. phase'[r] # "waiting" /\ \A d \in Clients \ {r} : phase'[d] = "waiting" <=> phase[d] = "waiting"
    BY <1>2, <1>6, <1>8
  <2>2. ListedOnce(pendingReaders', Readers, phase')
    BY <1>2, <1>3, <1>4, <1>5, <2>1, ListedRemove DEF r
  <2>3. ListedOnce(pendingWriters', Writers, phase')
    BY <1>1, <1>2, <1>5, <2>1, ListedUnchanged
  <2> QED
    BY <2>2, <2>3 DEF WaitersListed, ListedOnce
<1>13. NoLostWakeup'
  BY <1>1 DEF NoLostWakeup
<1> QED
  BY <1>10, <1>11, <1>12, <1>13 DEF IInv

LEMMA StepHandToWriter ==
  ASSUME IInv, NEW c \in Clients, alive, phase[c] = "owner", HandToWriter(c),
         UNCHANGED <<localSize, need, alive>>
  PROVE  IInv'
<1> USE ClientsAssumption DEF Clients
<1>0. TypeOK
  BY DEF IInv
<1> DEFINE w == Head(pendingWriters)
<1>1. /\ pendingWriters # <<>>
      /\ streamState' = "Writing"
      /\ phase' = [phase EXCEPT ![c] = "out", ![w] = "granted"]
      /\ pendingWriters' = Tail(pendingWriters)
      /\ UNCHANGED pendingReaders
  BY DEF HandToWriter
<1>2. /\ pendingWriters \in Seq(Writers) /\ 1 \in 1..Len(pendingWriters)
      /\ DOMAIN pendingWriters = 1..Len(pendingWriters)
      /\ Len(pendingWriters) \in Nat
      /\ w = pendingWriters[1] /\ w \in Writers /\ phase \in [Clients -> Phases]
  BY <1>0, <1>1, EmptySeq, LenProperties, HeadTailProperties DEF TypeOK
<1>3. /\ pendingWriters' \in Seq(Writers)
      /\ Len(pendingWriters') = Len(pendingWriters) - 1
      /\ \A i \in 1..(Len(pendingWriters) - 1) : pendingWriters'[i] = pendingWriters[i + 1]
  BY <1>1, <1>2, HeadTailProperties
<1>4. DOMAIN pendingWriters' = 1..(Len(pendingWriters) - 1)
  BY <1>3, LenProperties
<1>5. /\ ListedOnce(pendingReaders, Readers, phase)
      /\ ListedOnce(pendingWriters, Writers, phase)
  BY WaitersListedIsListedOnce DEF IInv
<1>6. phase[w] = "waiting" /\ w # c
  BY <1>2, <1>5 DEF ListedOnce
<1>7. Holding = {c}
  BY DEF IInv, SingleOwner, Holding
<1> HIDE DEF w
<1>8. Holding' = {w}
  BY <1>1, <1>2, <1>6, <1>7 DEF Holding
<1>9. TypeOK'
  BY <1>0, <1>1, <1>2, <1>3 DEF TypeOK, StreamStates, Phases
<1>10. SingleOwner' /\ StateMatchesHolder'
  BY <1>1, <1>2, <1>8 DEF SingleOwner, StateMatchesHolder
<1>11. WaitersListed'
  <2>1. phase'[w] # "waiting" /\ \A d \in Clients \ {w} : phase'[d] = "waiting" <=> phase[d] = "waiting"
    BY <1>1, <1>2, <1>6
  <2>2. \A i \in 1..(Len(pendingWriters) - 1) :
          pendingWriters'[i] = IF i < 1 THEN pendingWriters[i] ELSE pendingWriters[i + 1]
    BY <1>2, <1>3
  <2>3. ListedOnce(pendingWriters', Writers, phase')
    BY <1>2, <1>4, <1>5, <2>1, <2>2, ListedRemove
  <2>4. ListedOnce(pendingReaders', Readers, phase')
    BY <1>1, <1>2, <1>5, <2>1, ListedUnchanged
  <2> QED
    BY <2>3, <2>4 DEF WaitersListed, ListedOnce
<1>12. NoLostWakeup'
  BY <1>1 DEF NoLostWakeup
<1> QED
  BY <1>9, <1>10, <1>11, <1>12 DEF IInv

LEMMA StepLeaveIdle ==
  ASSUME IInv, NEW c \in Clients, alive, phase[c] = "owner", LeaveIdle(c),
         UNCHANGED <<localSize, need, alive>>
  PROVE  IInv'
<1> USE ClientsAssumption DEF Clients
<1>0. TypeOK
  BY DEF IInv
<1> USE <1>0 DEF LeaveIdle, TypeOK
<1>1. Holding = {c}
  BY DEF IInv, SingleOwner, Holding
<1>2. Holding' = {}
  BY <1>1 DEF Holding
<1>3. TypeOK'
  BY DEF StreamStates, Phases
<1>4. SingleOwner' /\ StateMatchesHolder'
  BY <1>2 DEF SingleOwner, StateMatchesHolder
<1>5. WaitersListed'
  <2>1. ListedOnce(pendingReaders, Readers, phase) /\ ListedOnce(pendingWriters, Writers, phase)
    BY WaitersListedIsListedOnce DEF IInv
  <2>2. \A d \in Clients : phase'[d] = "waiting" <=> phase[d] = "waiting"
    OBVIOUS
  <2>3. ListedOnce(pendingReaders', Readers, phase') /\ ListedOnce(pendingWriters', Writers, phase')
    BY <2>1, <2>2 DEF ListedOnce
  <2> QED
    BY <2>3 DEF WaitersListed, ListedOnce
<1>6. NoLostWakeup'
  <2>1. \A i \in DOMAIN pendingReaders : ~(need[pendingReaders[i]] <= localSize)
    BY DEF Servable
  <2>2. \A i \in DOMAIN pendingReaders : need[pendingReaders[i]] \in Nat
    OBVIOUS
  <2> QED
    BY <2>1, <2>2 DEF NoLostWakeup
<1> QED
  BY <1>3, <1>4, <1>5, <1>6 DEF IInv

LEMMA StepData ==
  ASSUME IInv, NEW w \in Writers, AppendBlock(w) \/ ResetTrack(w)
  PROVE  IInv'
<1>1. UNCHANGED <<streamState, pendingReaders, pendingWriters, need, phase, alive>>
  BY DEF AppendBlock, ResetTrack, lockVars
<1>2. TypeOK'
  BY <1>1, ClientsAssumption DEF IInv, TypeOK, AppendBlock, ResetTrack
<1>3. Holding' = Holding
  BY <1>1 DEF Holding
<1>4. SingleOwner' /\ StateMatchesHolder'
  BY <1>1, <1>3 DEF IInv, SingleOwner, StateMatchesHolder
<1>5. WaitersListed'
  <2>1. WaitersListed
    BY DEF IInv
  <2> QED
    BY <1>1, <2>1 DEF WaitersListed
<1>6. NoLostWakeup'
  <2>1. CASE AppendBlock(w)
    <3>1. w \in Holding
      BY <2>1 DEF Holding, AppendBlock, Clients
    <3>2. alive => streamState # "Idle"
      BY <3>1 DEF IInv, StateMatchesHolder
    <3> QED
      BY <1>1, <3>2 DEF NoLostWakeup
  <2>2. CASE ResetTrack(w)
    <3>1. \A i \in DOMAIN pendingReaders : need[pendingReaders[i]] \in Nat
      BY DEF IInv, TypeOK
    <3>2. localSize \in Nat /\ localSize' = 0
      BY <2>2, ClientsAssumption DEF IInv, TypeOK, ResetTrack
    <3> QED
      BY <1>1, <3>1, <3>2 DEF IInv, NoLostWakeup
  <2> QED
    BY <2>1, <2>2
<1> QED
  BY <1>2, <1>4, <1>5, <1>6 DEF IInv

LEMMA StepDrop ==
  ASSUME IInv, Drop
  PROVE  IInv'
BY DEF IInv, Drop, lockVars, TypeOK, SingleOwner, StateMatchesHolder, Holding, WaitersListed, NoLostWakeup

LEMMA StepInv == IInv /\ [Next]_vars => IInv'
<1> SUFFICES ASSUME IInv, [Next]_vars PROVE IInv'
  OBVIOUS
<1>1. ASSUME NEW w \in Writers, TakeWriteOwnership(w) PROVE IInv'
  BY <1>1, StepTakeWrite
<1>2. ASSUME NEW w \in Writers, AppendBlock(w) \/ ResetTrack(w) PROVE IInv'
  BY <1>2, StepData
<1>3. ASSUME NEW r \in Readers, ReadRequest(r) PROVE IInv'
  BY <1>3, StepTakeRead DEF ReadRequest
<1>4. ASSUME NEW c \in Clients, Resume(c) PROVE IInv'
  BY <1>4, StepResume
<1>5. ASSUME NEW c \in Clients, Release(c) PROVE IInv'
  BY <1>5, StepHandToReader, StepHandToWriter, StepLeaveIdle DEF Release
<1>6. CASE Drop
  BY <1>6, StepDrop
<1>7. CASE UNCHANGED vars
  <2> USE <1>7 DEF vars, IInv
  <2>1. TypeOK'
    BY DEF TypeOK
  <2>2. Holding' = Holding
    BY DEF Holding
  <2>3. SingleOwner' /\ StateMatchesHolder'
    BY <2>2 DEF SingleOwner, StateMatchesHolder
  <2>4. WaitersListed' /\ NoLostWakeup'
    BY DEF WaitersListed, NoLostWakeup
  <2> QED
    BY <2>1, <2>3, <2>4
<1> QED
  BY <1>1, <1>2, <1>3, <1>4, <1>5, <1>6, <1>7 DEF Next

(* The conjunction of the lock's invariants is inductive, so it holds in   *)
(* every reachable state.                                                  *)
THEOREM Inductive == Spec => []IInv
<1>1. Init => IInv
  BY InitInv
<1>2. IInv /\ [Next]_vars => IInv'
  BY StepInv
<1> QED
  BY <1>1, <1>2, PTL DEF Spec

(* The variables keep their types whatever the coroutines do.              *)
THEOREM TypeCorrect == Spec => []TypeOK
<1>1. IInv => TypeOK
  BY DEF IInv
<1> QED
  BY <1>1, Inductive, PTL

(* Mutual exclusion: the file stream of a track, whose position is shared, *)
(* is never used by two coroutines at once.                                *)
THEOREM MutualExclusion == Spec => []SingleOwner
<1>1. IInv => SingleOwner
  BY DEF IInv
<1> QED
  BY <1>1, Inductive, PTL

(* _streamState is Idle, Reading or Writing exactly as the file is used.   *)
THEOREM StateIsTruthful == Spec => []StateMatchesHolder
<1>1. IInv => StateMatchesHolder
  BY DEF IInv
<1> QED
  BY <1>1, Inductive, PTL

(* An idle lock has no pending writer and no pending reader whose bytes    *)
(* are there: no request that could be served is left asleep.              *)
THEOREM NoWakeupIsLost == Spec => []NoLostWakeup
<1>1. IInv => NoLostWakeup
  BY DEF IInv
<1> QED
  BY <1>1, Inductive, PTL

(* Every waiting coroutine is in its list, once.                           *)
THEOREM NoWaiterIsForgotten == Spec => []WaitersListed
<1>1. IInv => WaitersListed
  BY DEF IInv
<1> QED
  BY <1>1, Inductive, PTL

(* A reader's event is set only when its bytes are below local_size.       *)
THEOREM GrantsHaveBytes == Spec => GrantHasBytes
<1> DEFINE Good == \A r \in Readers : phase[r] # "granted" /\ phase'[r] = "granted" => need'[r] <= localSize
<1>1. IInv /\ [Next]_vars => [Good]_vars
  <2> SUFFICES ASSUME IInv, Next, NEW r \in Readers, phase[r] # "granted", phase'[r] = "granted"
               PROVE  need'[r] <= localSize
    OBVIOUS
  <2> USE ClientsAssumption DEF Clients
  <2>0. TypeOK
    BY DEF IInv
  <2>1. ASSUME NEW w \in Writers, TakeWriteOwnership(w) \/ AppendBlock(w) \/ ResetTrack(w)
        PROVE  need'[r] <= localSize
    BY <2>0, <2>1 DEF TypeOK, TakeWriteOwnership, AppendBlock, ResetTrack, lockVars
  <2>2. ASSUME NEW q \in Readers, NEW required \in 0..MaxSize, TakeReadOwnership(q, required)
        PROVE  need'[r] <= localSize
    BY <2>0, <2>2 DEF TypeOK, TakeReadOwnership
  <2>3. ASSUME NEW c \in Clients, Resume(c) PROVE need'[r] <= localSize
    BY <2>0, <2>3 DEF TypeOK, Resume
  <2>4. ASSUME NEW c \in Clients, Release(c) PROVE need'[r] <= localSize
    <3>1. CASE HandToReader(c)
      <4>1. PICK k \in DOMAIN pendingReaders :
              /\ k \in Servable
              /\ phase' = [phase EXCEPT ![c] = "out", ![pendingReaders[k]] = "granted"]
        BY <3>1 DEF HandToReader, FirstServable
      <4>2. r = pendingReaders[k]
        BY <2>0, <4>1 DEF TypeOK
      <4> QED
        BY <2>4, <4>1, <4>2 DEF Servable, Release
    <3>2. CASE HandToWriter(c)
      <4>1. pendingWriters \in Seq(Writers) /\ pendingWriters # <<>>
        BY <2>0, <3>2 DEF HandToWriter, TypeOK
      <4>2. Head(pendingWriters) \in Writers
        BY <4>1, HeadTailProperties
      <4> QED
        BY <2>0, <3>2, <4>2 DEF HandToWriter, TypeOK
    <3>3. CASE LeaveIdle(c)
      BY <2>0, <3>3 DEF LeaveIdle, TypeOK
    <3> QED
      BY <2>4, <3>1, <3>2, <3>3 DEF Release
  <2>5. CASE Drop
    BY <2>5 DEF Drop, lockVars
  <2> QED
    BY <2>1, <2>2, <2>3, <2>4, <2>5 DEF Next, ReadRequest
<1> QED
  BY <1>1, Inductive, PTL DEF Spec, GrantHasBytes

-----------------------------------------------------------------------------
(* The refinement *)

LEMMA UserOfHolding ==
  /\ Holding = {} => User = NoOne
  /\ \A c : Holding = {c} => User = c
BY DEF User

LEMMA HoldingIsUser ==
  ASSUME IInv
  PROVE  /\ Holding = {} \/ \E c \in Clients : Holding = {c}
         /\ User = NoOne <=> Holding = {}
         /\ \A c \in Clients : c \in Holding <=> User = c
<1>1. Holding \subseteq Clients
  BY DEF Holding
<1>2. Holding = {} \/ \E c \in Clients : Holding = {c}
  BY <1>1 DEF IInv, SingleOwner
<1> QED
  BY <1>2, UserOfHolding, NobodyAssumption

LEMMA SameHolding ==
  ASSUME Holding' = Holding
  PROVE  User' = User
BY DEF User

LEMMA RefineInit == Init => Access!Init
<1> SUFFICES ASSUME Init PROVE Access!Init
  OBVIOUS
<1>1. Holding = {} /\ Waiting = {}
  BY DEF Init, Holding, Waiting
<1> QED
  BY <1>1, UserOfHolding DEF Init, Access!Init

LEMMA RefineTakeWrite ==
  ASSUME IInv, IInv', NEW w \in Writers, TakeWriteOwnership(w)
  PROVE  Access!Write(w)
<1> USE DEF Clients
<1>1. phase \in [Clients -> Phases] /\ streamState \in StreamStates /\ alive /\ phase[w] = "out"
  BY DEF IInv, TypeOK, TakeWriteOwnership
<1>2. w # User /\ w \notin Waiting
  BY <1>1, HoldingIsUser DEF Holding, Waiting
<1>3. CASE streamState = "Idle"
  <2>1. phase' = [phase EXCEPT ![w] = "granted"] /\ UNCHANGED <<need, localSize, alive>>
    BY <1>3 DEF TakeWriteOwnership
  <2>2. Holding = {}
    BY <1>1, <1>3 DEF IInv, StateMatchesHolder
  <2>3. Holding' = {w} /\ Waiting' = Waiting
    BY <1>1, <2>1, <2>2 DEF Holding, Waiting
  <2>4. User = NoOne /\ User' = w
    BY <2>2, <2>3, UserOfHolding, HoldingIsUser DEF User
  <2> QED
    BY <1>1, <1>2, <2>1, <2>3, <2>4 DEF Access!Write, Access!Enter
<1>4. CASE streamState # "Idle"
  <2>1. phase' = [phase EXCEPT ![w] = "waiting"] /\ UNCHANGED <<need, localSize, alive>>
    BY <1>4 DEF TakeWriteOwnership
  <2>2. Holding # {}
    BY <1>1, <1>4 DEF IInv, StateMatchesHolder, StreamStates
  <2>3. Holding' = Holding /\ Waiting' = Waiting \cup {w}
    BY <1>1, <2>1 DEF Holding, Waiting
  <2>4. User # NoOne /\ User' = User
    BY <2>2, <2>3, HoldingIsUser, SameHolding
  <2> QED
    BY <1>1, <1>2, <2>1, <2>3, <2>4 DEF Access!Write, Access!Enter
<1> QED
  BY <1>3, <1>4

LEMMA RefineTakeRead ==
  ASSUME IInv, IInv', NEW r \in Readers, NEW n \in 0..MaxSize, TakeReadOwnership(r, n)
  PROVE  Access!Read(r, n)
<1> USE DEF Clients
<1>1. /\ phase \in [Clients -> Phases] /\ streamState \in StreamStates
      /\ localSize \in 0..MaxSize /\ MaxSize \in Nat
      /\ alive /\ phase[r] = "out" /\ need' = [need EXCEPT ![r] = n]
  BY ClientsAssumption DEF IInv, TypeOK, TakeReadOwnership
<1>2. r # User /\ r \notin Waiting
  BY <1>1, HoldingIsUser DEF Holding, Waiting
<1>3. CASE streamState = "Idle" /\ localSize >= n
  <2>1. phase' = [phase EXCEPT ![r] = "granted"] /\ UNCHANGED <<localSize, alive>>
    BY <1>3 DEF TakeReadOwnership
  <2>2. Holding = {}
    BY <1>1, <1>3 DEF IInv, StateMatchesHolder
  <2>3. Holding' = {r} /\ Waiting' = Waiting
    BY <1>1, <2>1, <2>2 DEF Holding, Waiting
  <2>4. User = NoOne /\ User' = r
    BY <2>2, <2>3, UserOfHolding, HoldingIsUser DEF User
  <2>5. n <= localSize
    BY <1>1, <1>3
  <2> QED
    BY <1>1, <1>2, <2>1, <2>3, <2>4, <2>5 DEF Access!Read, Access!Enter
<1>4. CASE ~(streamState = "Idle" /\ localSize >= n)
  <2>1. phase' = [phase EXCEPT ![r] = "waiting"] /\ UNCHANGED <<localSize, alive>>
    BY <1>4 DEF TakeReadOwnership
  <2>2. Holding # {} \/ ~(n <= localSize)
    BY <1>1, <1>4 DEF IInv, StateMatchesHolder, StreamStates
  <2>3. Holding' = Holding /\ Waiting' = Waiting \cup {r}
    BY <1>1, <2>1 DEF Holding, Waiting
  <2>4. User' = User /\ ~(User = NoOne /\ n <= localSize)
    BY <2>2, <2>3, HoldingIsUser, SameHolding
  <2> QED
    BY <1>1, <1>2, <2>1, <2>3, <2>4 DEF Access!Read, Access!Enter
<1> QED
  BY <1>3, <1>4

LEMMA RefineResume ==
  ASSUME IInv, NEW c \in Clients, Resume(c)
  PROVE  [Access!Next]_(Access!vars)
<1>1. /\ phase \in [Clients -> Phases] /\ phase[c] = "granted"
      /\ phase' = [phase EXCEPT ![c] = IF alive THEN "owner" ELSE "cancelled"]
      /\ UNCHANGED <<need, localSize, alive>>
  BY DEF IInv, TypeOK, Resume
<1>2. Waiting' = Waiting
  BY <1>1 DEF Waiting
<1>3. CASE alive
  <2>1. Holding' = Holding
    BY <1>1, <1>3 DEF Holding
  <2> QED
    BY <1>1, <1>2, <2>1, SameHolding DEF Access!vars
<1>4. CASE ~alive
  <2>1. Holding = {c}
    BY <1>1 DEF IInv, SingleOwner, Holding
  <2>2. Holding' = {}
    BY <1>1, <1>4, <2>1 DEF Holding
  <2>3. User = c /\ User' = NoOne /\ c # NoOne
    BY <2>1, <2>2, UserOfHolding, NobodyAssumption DEF User
  <2> QED
    BY <1>1, <1>2, <1>4, <2>3 DEF Access!Next, Access!Abandon
<1> QED
  BY <1>3, <1>4

LEMMA RefineRelease ==
  ASSUME IInv, IInv', NEW c \in Clients, Release(c)
  PROVE  Access!Finish
<1> USE DEF Clients
<1>1. /\ phase \in [Clients -> Phases] /\ phase[c] = "owner" /\ alive
      /\ pendingReaders \in Seq(Readers) /\ pendingWriters \in Seq(Writers)
      /\ UNCHANGED <<need, localSize, alive>>
  BY DEF IInv, TypeOK, Release
<1>2. Holding = {c}
  BY <1>1 DEF IInv, SingleOwner, Holding
<1>3. User # NoOne
  BY <1>2, HoldingIsUser
<1>4. /\ \A r \in Readers : r \in Waiting <=> \E i \in DOMAIN pendingReaders : pendingReaders[i] = r
      /\ \A w \in Writers : w \in Waiting <=> \E i \in DOMAIN pendingWriters : pendingWriters[i] = w
  BY <1>1 DEF IInv, WaitersListed, Waiting
<1>5. Servable = {} => Access!Servable = {}
  BY <1>4 DEF Servable, Access!Servable
<1>6. CASE HandToReader(c)
  <2>1. PICK k \in DOMAIN pendingReaders :
          /\ k \in Servable
          /\ phase' = [phase EXCEPT ![c] = "out", ![pendingReaders[k]] = "granted"]
    BY <1>6 DEF HandToReader, FirstServable
  <2>2. PICK r \in Readers : r = pendingReaders[k]
    BY <1>1, ElementOfSeq, LenProperties
  <2>3. r \in Waiting /\ r \in Access!Servable
    BY <1>4, <2>1, <2>2 DEF Servable, Access!Servable
  <2>4. phase' = [phase EXCEPT ![c] = "out", ![r] = "granted"] /\ phase[r] = "waiting"
    BY <2>1, <2>2, <2>3 DEF Waiting
  <2>5. Holding' = {r} /\ Waiting' = Waiting \ {r}
    BY <1>1, <1>2, <2>4 DEF Holding, Waiting
  <2>6. User' = r
    BY <2>5 DEF User
  <2> QED
    BY <1>1, <1>3, <2>3, <2>5, <2>6 DEF Access!Finish
<1>7. CASE HandToWriter(c)
  <2>1. PICK w \in Writers : w = Head(pendingWriters) /\ w = pendingWriters[1] /\ 1 \in DOMAIN pendingWriters
    BY <1>1, <1>7, HeadTailProperties, EmptySeq, LenProperties DEF HandToWriter
  <2>2. w \in Waiting
    BY <1>4, <2>1
  <2>3. phase' = [phase EXCEPT ![c] = "out", ![w] = "granted"] /\ phase[w] = "waiting" /\ Servable = {}
    BY <1>7, <2>1, <2>2 DEF HandToWriter, Waiting
  <2>4. Holding' = {w} /\ Waiting' = Waiting \ {w}
    BY <1>1, <1>2, <2>3 DEF Holding, Waiting
  <2>5. User' = w
    BY <2>4 DEF User
  <2> QED
    BY <1>1, <1>3, <1>5, <2>2, <2>3, <2>4, <2>5 DEF Access!Finish
<1>8. CASE LeaveIdle(c)
  <2>1. phase' = [phase EXCEPT ![c] = "out"] /\ Servable = {} /\ pendingWriters = <<>>
    BY <1>8 DEF LeaveIdle
  <2>2. Waiting \cap Writers = {}
    BY <1>4, <2>1
  <2>3. Holding' = {} /\ Waiting' = Waiting
    BY <1>1, <1>2, <2>1 DEF Holding, Waiting
  <2>4. User' = NoOne /\ NoOne \notin Waiting
    BY <2>3, NobodyAssumption DEF User, Waiting
  <2> QED
    BY <1>1, <1>3, <1>5, <2>1, <2>2, <2>3, <2>4 DEF Access!Finish
<1> QED
  BY <1>6, <1>7, <1>8 DEF Release

LEMMA RefineData ==
  ASSUME IInv, NEW w \in Writers, AppendBlock(w) \/ ResetTrack(w)
  PROVE  Access!Next
<1> USE DEF Clients
<1>1. UNCHANGED <<need, phase, alive>> /\ phase \in [Clients -> Phases]
  BY DEF AppendBlock, ResetTrack, lockVars, IInv, TypeOK
<1>2. Waiting' = Waiting /\ User' = User
  BY <1>1 DEF Waiting, User, Holding
<1>3. CASE AppendBlock(w)
  <2>1. w \in Holding /\ localSize' \in localSize..MaxSize
    BY <1>1, <1>3 DEF AppendBlock, Holding
  <2>2. User \in Writers
    BY <2>1, HoldingIsUser
  <2> QED
    BY <1>1, <1>2, <2>1, <2>2 DEF Access!Next, Access!Extend
<1>4. CASE ResetTrack(w)
  <2>1. alive /\ localSize' = 0 /\ phase[w] = "out"
    BY <1>4 DEF ResetTrack
  <2>2. w # User /\ w \notin Waiting
    BY <1>1, <2>1, HoldingIsUser DEF Holding, Waiting
  <2> QED
    BY <1>1, <1>2, <2>1, <2>2 DEF Access!Next, Access!Discard
<1> QED
  BY <1>3, <1>4

LEMMA RefineStep == IInv /\ IInv' /\ [Next]_vars => [Access!Next]_(Access!vars)
<1> SUFFICES ASSUME IInv, IInv', [Next]_vars PROVE [Access!Next]_(Access!vars)
  OBVIOUS
<1>1. ASSUME NEW w \in Writers, TakeWriteOwnership(w) PROVE Access!Next
  BY <1>1, RefineTakeWrite DEF Access!Next
<1>2. ASSUME NEW w \in Writers, AppendBlock(w) \/ ResetTrack(w) PROVE Access!Next
  BY <1>2, RefineData
<1>3. ASSUME NEW r \in Readers, ReadRequest(r) PROVE Access!Next
  BY <1>3, RefineTakeRead DEF ReadRequest, Access!Next
<1>4. ASSUME NEW c \in Clients, Resume(c) PROVE [Access!Next]_(Access!vars)
  BY <1>4, RefineResume
<1>5. ASSUME NEW c \in Clients, Release(c) PROVE Access!Next
  BY <1>5, RefineRelease DEF Access!Next
<1>6. CASE Drop
  <2>1. Waiting' = Waiting /\ User' = User
    BY <1>6 DEF Drop, lockVars, Waiting, User, Holding
  <2> QED
    BY <1>6, <2>1 DEF Drop, lockVars, Access!Next, Access!Destroy
<1>7. CASE UNCHANGED vars
  BY <1>7 DEF vars, Access!vars, Waiting, User, Holding
<1> QED
  BY <1>1, <1>2, <1>3, <1>4, <1>5, <1>6, <1>7 DEF Next

(* The lock implements FileAccess: whatever its queues, events and state   *)
(* word go through, the file is used by one coroutine at a time and handed *)
(* over in the promised order of preference.                               *)
THEOREM ImplementsFileAccess == Spec => ExclusiveAccess
<1>1. Init => Access!Init
  BY RefineInit
<1>2. IInv /\ IInv' /\ [Next]_vars => [Access!Next]_(Access!vars)
  BY RefineStep
<1> QED
  BY <1>1, <1>2, Inductive, PTL DEF Spec, Access!Spec, ExclusiveAccess

=============================================================================
