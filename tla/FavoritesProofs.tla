-------------------------- MODULE FavoritesProofs --------------------------
(***************************************************************************)
(* Theorems about Favorites: for any users, kinds and items, any number of *)
(* refreshes and edits at one time and lists of any length, what nothing   *)
(* overlapped mirrors the server.                                          *)
(***************************************************************************)
EXTENDS Favorites, SequenceTheorems, FiniteSetTheorems, WellFoundedInduction, TLAPS

-----------------------------------------------------------------------------
(* The inductive invariant *)

Answers == ServerLists \cup {Pending, Failed}

(* A refresh that awaits a query has a user.                               *)
Refreshing ==
  {f \in [at : 0..Delay, pool : BOOLEAN, of : Users \cup {Nobody},
          answers : [KindSet -> Answers], alone : SUBSET KindSet] :
     f.at \in 1..Len(Kinds) => f.of \in Users}

Editing == [at : {"sent", "accepted"}, of : Users, kind : KindSet, item : Items,
            adds : BOOLEAN, alone : BOOLEAN]

Shape ==
  /\ user \in Users \cup {Nobody} /\ server \in [Users -> [KindSet -> ServerLists]]
  /\ ids \in [KindSet -> SUBSET Items] /\ list \in [KindSet -> Seq(Items)]
  /\ stale \subseteq KindSet
  /\ refresh \in [1..MaxRefreshes -> Refreshing]
  /\ edit \in [1..MaxEdits -> Editing \cup {NoEdit}]

(* An edit that nothing overlapped is the user's, and the only one of its  *)
(* kind; its button is right unless the kind is stale.                     *)
EditsAlone ==
  \A e \in 1..MaxEdits, k \in KindSet : edit[e].alone /\ edit[e].kind = k =>
    /\ edit[e].of = user
    /\ Edits(k) = {e}
    /\ k \notin stale => (edit[e].adds <=> edit[e].item \notin ids[k])

(* While nothing overlaps a refresh in a kind, nobody edits the kind, and  *)
(* an answer that has come is what the server still has.                   *)
Backed(f, k) ==
  /\ f.of = user /\ user \in Users
  /\ Edits(k) = {}
  /\ f.answers[k] \in {Pending, Failed, server[user][k]}

RefreshesAlone == \A r \in 1..MaxRefreshes : \A k \in refresh[r].alone : Backed(refresh[r], k)

(* What the server makes of a list.                                        *)
Edited(l, adds, i) == IF adds THEN <<i>> \o l ELSE Without(l, i)

Accepted(k) == {e \in Edits(k) : edit[e].at = "accepted"}

(* The memory mirrors the server, which is ahead by the edit it accepted.  *)
Ahead(k, e) ==
  /\ list[k] \in ServerLists /\ ids[k] = Range(list[k])
  /\ server[user][k] = Edited(list[k], edit[e].adds, edit[e].item)

Mirroring ==
  \A k \in KindSet \ stale :
    /\ Accepted(k) = {} => Mirrors(k)
    /\ \A e \in Accepted(k) : edit[e].alone => Ahead(k, e)

IInv == Shape /\ EditsAlone /\ RefreshesAlone /\ Mirroring

-----------------------------------------------------------------------------
(* Lists *)

LEMMA Injective == ASSUME NEW l PROVE IsInjective(l) <=> \A a, b \in DOMAIN l : l[a] = l[b] => a = b
BY DEF IsInjective

(* The lists of the server are those without duplicates: one that were     *)
(* longer than there are items would name an item twice.                   *)
LEMMA ListsWithoutDuplicates ==
  ASSUME NEW l
  PROVE  l \in ServerLists <=> l \in Seq(Items) /\ IsInjective(l)
<1>0. IsFiniteSet(Items) /\ Cardinality(Items) \in Nat
  BY FavoritesAssumption, FS_CardinalityType
<1>1. ASSUME l \in ServerLists PROVE l \in Seq(Items) /\ IsInjective(l)
  <2>1. PICK n \in 0..Cardinality(Items) : l \in [1..n -> Items]  BY <1>1 DEF ServerLists
  <2>2. n \in Nat  BY <1>0, <2>1
  <2> QED BY <1>1, <2>1, <2>2, SeqDef DEF ServerLists
<1>2. ASSUME l \in Seq(Items), IsInjective(l) PROVE l \in ServerLists
  <2>1. Len(l) \in Nat /\ l \in [1..Len(l) -> Items]  BY <1>2, LenProperties
  <2>2. l \in Injection(1..Len(l), Items)  BY <1>2, <2>1 DEF Injection
  <2>3. Cardinality(1..Len(l)) <= Cardinality(Items)  BY <1>0, <2>2, FS_Injection
  <2>4. Cardinality(1..Len(l)) = Len(l)  BY <2>1, FS_Interval
  <2>5. Len(l) \in 0..Cardinality(Items)  BY <1>0, <2>1, <2>3, <2>4
  <2> QED BY <1>2, <2>1, <2>5 DEF ServerLists
<1> QED BY <1>1, <1>2

LEMMA EmptyLists == <<>> \in ServerLists /\ <<>> \in Seq(Items) /\ Range(<<>>) = {}
<1>1. <<>> \in Seq(Items) /\ DOMAIN <<>> = {}  OBVIOUS
<1> QED BY <1>1, ListsWithoutDuplicates, Injective DEF Range

(* An addition puts the item in front.                                     *)
LEMMA InFront ==
  ASSUME NEW l \in Seq(Items), NEW i \in Items
  PROVE  /\ <<i>> \o l \in Seq(Items) /\ Range(<<i>> \o l) = Range(l) \cup {i}
         /\ IsInjective(l) /\ i \notin Range(l) => IsInjective(<<i>> \o l)
<1> DEFINE m == <<i>> \o l
<1>1. Len(l) \in Nat /\ DOMAIN l = 1..Len(l) /\ \A n \in 1..Len(l) : l[n] \in Items
  BY LenProperties, ElementOfSeq
<1>2. <<i>> \in Seq(Items) /\ Len(<<i>>) = 1 /\ <<i>>[1] = i  OBVIOUS
<1>3. /\ m \in Seq(Items) /\ Len(m) = 1 + Len(l)
      /\ \A n \in 1..(1 + Len(l)) : m[n] = IF n <= 1 THEN <<i>>[n] ELSE l[n - 1]
  BY <1>2, ConcatProperties
<1>4. DOMAIN m = 1..(1 + Len(l))  BY <1>3, LenProperties
<1>5. m[1] = i /\ \A n \in 2..(1 + Len(l)) : n - 1 \in 1..Len(l) /\ m[n] = l[n - 1]
  BY <1>1, <1>2, <1>3
<1>6. \A n \in 1..Len(l) : n + 1 \in 2..(1 + Len(l)) /\ m[n + 1] = l[n]
  BY <1>1, <1>5
<1> HIDE DEF m
<1>7. Range(m) = Range(l) \cup {i}
  <2>1. ASSUME NEW x \in Range(m) PROVE x \in Range(l) \cup {i}
    <3>1. PICK n \in 1..(1 + Len(l)) : x = m[n]  BY <1>4 DEF Range
    <3>2. n = 1 \/ n \in 2..(1 + Len(l))  BY <1>1
    <3> QED BY <1>1, <1>5, <3>1, <3>2 DEF Range
  <2>2. ASSUME NEW x \in Range(l) PROVE x \in Range(m)
    <3>1. PICK n \in 1..Len(l) : x = l[n]  BY <1>1 DEF Range
    <3>2. n + 1 \in 1..(1 + Len(l))  BY <1>1
    <3> QED BY <1>4, <1>6, <3>1, <3>2 DEF Range
  <2>3. i \in Range(m)
    <3>1. 1 \in 1..(1 + Len(l))  BY <1>1
    <3> QED BY <1>4, <1>5, <3>1 DEF Range
  <2> QED BY <2>1, <2>2, <2>3
<1>8. ASSUME IsInjective(l), i \notin Range(l) PROVE IsInjective(m)
  <2>1. \A n \in 1..Len(l) : l[n] # i  BY <1>1, <1>8 DEF Range
  <2>2. ASSUME NEW a \in 1..(1 + Len(l)), NEW b \in 1..(1 + Len(l)), m[a] = m[b] PROVE a = b
    <3>1. (a = 1 \/ a \in 2..(1 + Len(l))) /\ (b = 1 \/ b \in 2..(1 + Len(l)))  BY <1>1
    <3>2. CASE a = 1 \/ b = 1  BY <1>5, <2>1, <2>2, <3>1, <3>2
    <3>3. CASE a \in 2..(1 + Len(l)) /\ b \in 2..(1 + Len(l))
      <4>1. l[a - 1] = l[b - 1]  BY <1>5, <2>2, <3>3
      <4>2. a - 1 = b - 1  BY <1>1, <1>5, <1>8, <3>3, <4>1, Injective
      <4> QED BY <3>3, <4>2
    <3> QED BY <3>1, <3>2, <3>3
  <2> QED BY <1>4, <2>2, Injective
<1> QED BY <1>3, <1>7, <1>8 DEF m

(* RemoveAt keeps the order of the others.                                 *)
LEMMA RemoveAtFacts ==
  ASSUME NEW l \in Seq(Items), NEW n \in 1..Len(l)
  PROVE  /\ RemoveAt(l, n) \in Seq(Items) /\ Len(RemoveAt(l, n)) = Len(l) - 1
         /\ \A m \in 1..(Len(l) - 1) : RemoveAt(l, n)[m] = IF m < n THEN l[m] ELSE l[m + 1]
<1> DEFINE before == SubSeq(l, 1, n - 1)
           after == SubSeq(l, n + 1, Len(l))
<1>1. Len(l) \in Nat /\ \A m \in 1..Len(l) : l[m] \in Items
  BY LenProperties, ElementOfSeq
<1>2. before \in Seq(Items) /\ Len(before) = n - 1 /\ \A m \in 1..(n - 1) : before[m] = l[m]
  BY <1>1, SubSeqProperties
<1>3. after \in Seq(Items) /\ Len(after) = Len(l) - n
      /\ \A m \in 1..(Len(l) - n) : after[m] = l[n + m]
  BY <1>1, SubSeqProperties
<1>4. RemoveAt(l, n) = before \o after  BY DEF RemoveAt
<1> HIDE DEF before, after
<1>5. /\ before \o after \in Seq(Items) /\ Len(before \o after) = Len(l) - 1
      /\ \A m \in 1..(Len(l) - 1) :
           (before \o after)[m] = IF m <= n - 1 THEN before[m] ELSE after[m - (n - 1)]
  <2>1. /\ before \o after \in Seq(Items) /\ Len(before \o after) = Len(before) + Len(after)
        /\ \A m \in 1..(Len(before) + Len(after)) :
             (before \o after)[m] = IF m <= Len(before) THEN before[m] ELSE after[m - Len(before)]
    BY <1>2, <1>3, ConcatProperties
  <2>2. Len(before) + Len(after) = Len(l) - 1  BY <1>1, <1>2, <1>3
  <2> QED BY <1>2, <2>1, <2>2
<1>6. ASSUME NEW m \in 1..(Len(l) - 1)
      PROVE  (before \o after)[m] = IF m < n THEN l[m] ELSE l[m + 1]
  <2>1. CASE m < n
    <3>1. m <= n - 1 /\ m \in 1..(n - 1)  BY <1>1, <2>1
    <3> QED BY <1>2, <1>5, <2>1, <3>1
  <2>2. CASE ~(m < n)
    <3>1. ~(m <= n - 1) /\ m - (n - 1) \in 1..(Len(l) - n) /\ n + (m - (n - 1)) = m + 1
      BY <1>1, <2>2
    <3> QED BY <1>3, <1>5, <2>2, <3>1
  <2> QED BY <2>1, <2>2
<1> QED BY <1>4, <1>5, <1>6

(* From a list without duplicates the item disappears.                     *)
LEMMA RemoveAtRange ==
  ASSUME NEW l \in Seq(Items), NEW n \in 1..Len(l), IsInjective(l)
  PROVE  IsInjective(RemoveAt(l, n)) /\ Range(RemoveAt(l, n)) = Range(l) \ {l[n]}
<1> DEFINE p == RemoveAt(l, n)
           old(m) == IF m < n THEN m ELSE m + 1
<1>1. DOMAIN l = 1..Len(l) /\ Len(l) \in Nat  BY LenProperties
<1>2. DOMAIN p = 1..(Len(l) - 1) /\ \A m \in 1..(Len(l) - 1) : p[m] = IF m < n THEN l[m] ELSE l[m + 1]
  BY RemoveAtFacts, LenProperties
<1> HIDE DEF p
<1>3. \A m \in DOMAIN p : old(m) \in DOMAIN l /\ old(m) # n /\ p[m] = l[old(m)]
  BY <1>1, <1>2
<1>4. \A a, b \in DOMAIN p : old(a) = old(b) => a = b
  BY <1>1, <1>2
<1>5. ASSUME NEW j \in DOMAIN l, j # n PROVE \E m \in DOMAIN p : old(m) = j
  <2>1. CASE j < n  BY <1>1, <1>2, <2>1, j \in DOMAIN p, old(j) = j
  <2>2. CASE j > n  BY <1>1, <1>2, <2>2, j - 1 \in DOMAIN p, old(j - 1) = j
  <2> QED BY <1>1, <1>5, <2>1, <2>2
<1> HIDE DEF old
<1>6. IsInjective(p)  BY <1>3, <1>4, Injective
<1>7. ASSUME NEW x PROVE x \in Range(p) <=> x \in Range(l) /\ x # l[n]
  <2>1. ASSUME x \in Range(p) PROVE x \in Range(l) /\ x # l[n]
    <3>1. PICK m \in DOMAIN p : x = p[m]  BY <2>1 DEF Range
    <3> QED BY <1>1, <1>3, <3>1, Injective DEF Range
  <2>2. ASSUME x \in Range(l), x # l[n] PROVE x \in Range(p)
    <3>1. PICK j \in DOMAIN l : x = l[j]  BY <2>2 DEF Range
    <3>2. PICK m \in DOMAIN p : old(m) = j  BY <1>5, <2>2, <3>1
    <3> QED BY <1>3, <3>1, <3>2 DEF Range
  <2> QED BY <2>1, <2>2
<1> QED BY <1>6, <1>7 DEF p

(* What the memory removes is the first place of the item.                 *)
LEMMA FirstPlace ==
  ASSUME NEW l \in Seq(Items), NEW i, i \in Range(l)
  PROVE  \E n \in 1..Len(l) : l[n] = i /\ RemoveFirst(l, i) = RemoveAt(l, n)
<1> DEFINE places == {n \in 1..Len(l) : l[n] = i}
           Below == OpToRel(<, Nat)
<1>1. DOMAIN l = 1..Len(l) /\ Len(l) \in Nat  BY LenProperties
<1>2. places # {} /\ places \subseteq Nat
  <2>1. PICK n \in 1..Len(l) : l[n] = i  BY <1>1 DEF Range
  <2>2. 1..Len(l) \subseteq Nat  BY <1>1
  <2> QED BY <2>1, <2>2
<1>3. IsWellFoundedOn(Below, Nat)  BY NatLessThanWellFounded
<1>4. \A a, b \in Nat : <<b, a>> \in Below <=> b < a  BY DEF OpToRel
<1>5. SelectInSeq(l, LAMBDA v : v = i) = Min(places)
  BY <1>2 DEF SelectInSeq
<1>6. RemoveFirst(l, i) = RemoveAt(l, Min(places))
  BY <1>2, <1>5 DEF RemoveFirst
<1> HIDE DEF Below, places
<1>7. PICK n \in places : \A m \in places : ~(<<m, n>> \in Below)
  BY <1>2, <1>3, WFMin
<1>8. \A m \in places : n <= m
  <2> TAKE m \in places
  <2>1. n \in Nat /\ m \in Nat /\ ~(m < n)  BY <1>2, <1>4, <1>7
  <2> QED BY <2>1
<1>9. Min(places) \in places  BY <1>8 DEF Min
<1> QED BY <1>6, <1>9 DEF places

LEMMA RemovedFirst ==
  ASSUME NEW l \in Seq(Items), NEW i
  PROVE  RemoveFirst(l, i) \in Seq(Items) /\ (i \notin Range(l) => RemoveFirst(l, i) = l)
<1>1. DOMAIN l = 1..Len(l)  BY LenProperties
<1>2. CASE i \in Range(l)  BY <1>2, FirstPlace, RemoveAtFacts
<1>3. CASE i \notin Range(l)
  <2>1. ~\E n \in 1..Len(l) : l[n] = i  BY <1>1, <1>3 DEF Range
  <2> QED BY <2>1 DEF RemoveFirst
<1> QED BY <1>2, <1>3

(* The server and the memory remove the same.                              *)
LEMMA Removed ==
  ASSUME NEW l \in ServerLists, NEW i
  PROVE  /\ Without(l, i) \in ServerLists /\ Range(Without(l, i)) = Range(l) \ {i}
         /\ RemoveFirst(l, i) = Without(l, i)
<1>1. l \in Seq(Items) /\ IsInjective(l) /\ DOMAIN l = 1..Len(l)
  BY ListsWithoutDuplicates, LenProperties
<1>2. CASE i \notin Range(l)  BY <1>1, <1>2, RemovedFirst DEF Without
<1>3. CASE i \in Range(l)
  <2>1. PICK n \in 1..Len(l) : l[n] = i /\ RemoveFirst(l, i) = RemoveAt(l, n)
    BY <1>1, <1>3, FirstPlace
  <2>2. \A m \in DOMAIN l : l[m] = i => m = n  BY <1>1, <2>1, Injective
  <2>3. (CHOOSE m \in DOMAIN l : l[m] = i) = n  BY <1>1, <2>1, <2>2
  <2>4. Without(l, i) = RemoveAt(l, n)  BY <1>3, <2>3 DEF Without
  <2> QED BY <1>1, <2>1, <2>4, RemoveAtFacts, RemoveAtRange, ListsWithoutDuplicates
<1> QED BY <1>2, <1>3

-----------------------------------------------------------------------------
(* Refreshes *)

LEMMA KindFacts ==
  /\ Len(Kinds) \in Nat /\ \A n \in 1..Len(Kinds) : Kinds[n] \in KindSet
  /\ MaxRefreshes \in Nat /\ MaxEdits \in Nat
<1>1. Len(Kinds) \in Nat /\ DOMAIN Kinds = 1..Len(Kinds)  BY FavoritesAssumption, LenProperties
<1> QED BY <1>1, FavoritesAssumption DEF KindSet, Range

LEMMA Blanks ==
  /\ NoRefresh \in Refreshing /\ NoRefresh.alone = {}
  /\ [NoRefresh EXCEPT !.at = Delay] \in Refreshing /\ [NoRefresh EXCEPT !.at = Delay].alone = {}
  /\ NoEdit.alone = FALSE /\ NoEdit.at = "none"
<1>1. NoEdit.alone = FALSE /\ NoEdit.at = "none"  BY DEF NoEdit
<1>2. /\ Delay = Len(Kinds) + 1 /\ Delay \notin 1..Len(Kinds)
      /\ 0 \in 0..Delay /\ Delay \in 0..Delay /\ 0 \notin 1..Len(Kinds)
  BY KindFacts DEF Delay
<1> QED BY <1>1, <1>2 DEF NoRefresh, Refreshing, Answers

(* A refresh that goes on has its user, its answers and no more kinds.     *)
LEMMA AdvancedFacts ==
  ASSUME NEW f \in Refreshing, f.at \in 1..Len(Kinds)
  PROVE  /\ Advanced(f) \in Refreshing
         /\ Advanced(f).alone # {} =>
              Advanced(f).alone = f.alone /\ Advanced(f).of = f.of /\ Advanced(f).answers = f.answers
<1>1. CASE f.at < Len(Kinds)
  <2>1. Advanced(f) = [f EXCEPT !.at = @ + 1]  BY <1>1 DEF Advanced
  <2>2. f.at + 1 \in 0..Delay  BY <1>1, KindFacts DEF Delay
  <2> QED BY <2>1, <2>2 DEF Refreshing
<1>2. CASE ~(f.at < Len(Kinds))
  BY <1>2, Blanks DEF Advanced
<1> QED BY <1>1, <1>2

(* Steps that only change what one refresh knows.                          *)
LEMMA RefreshMoves ==
  ASSUME IInv, NEW r \in 1..MaxRefreshes, NEW f \in Refreshing, \A k \in f.alone : Backed(f, k),
         refresh' = [refresh EXCEPT ![r] = f], UNCHANGED <<user, server, memory, edit, stale>>
  PROVE  IInv'
<1>1. UNCHANGED <<user, server, ids, list, edit, stale>>  BY DEF memory
<1>2. Shape'  BY <1>1 DEF IInv, Shape
<1>3. \A k : Edits(k)' = Edits(k) /\ Accepted(k)' = Accepted(k) /\ Mirrors(k)' = Mirrors(k)
  BY <1>1 DEF Edits, Accepted, Mirrors, Favorites
<1>4. EditsAlone'  BY <1>1, <1>3 DEF IInv, EditsAlone
<1>5. RefreshesAlone'
  <2>1. \A q \in 1..MaxRefreshes : refresh'[q] = IF q = r THEN f ELSE refresh[q]
    BY DEF IInv, Shape
  <2> QED BY <1>1, <1>3, <2>1 DEF IInv, RefreshesAlone, Backed
<1>6. Mirroring'  BY <1>1, <1>3 DEF IInv, Mirroring, Ahead
<1> QED BY <1>2, <1>4, <1>5, <1>6 DEF IInv

(* Steps that replace a kind, by the server's list or by anything else.    *)
LEMMA KindReplaced ==
  ASSUME IInv, NEW r \in 1..MaxRefreshes, NEW f \in Refreshing, \A k \in f.alone : Backed(f, k),
         refresh' = [refresh EXCEPT ![r] = f], UNCHANGED <<user, server, edit>>,
         NEW K \in KindSet, NEW l \in Seq(Items),
         ids' = [ids EXCEPT ![K] = Range(l)], list' = [list EXCEPT ![K] = l],
         \/ stale' = stale \cup {K}
         \/ stale' = stale \ {K} /\ user \in Users /\ Edits(K) = {} /\ l = server[user][K]
  PROVE  IInv'
<1>1. Range(l) \subseteq Items  BY LenProperties, ElementOfSeq DEF Range
<1>2. Shape'  BY <1>1 DEF IInv, Shape
<1>3. /\ \A k : Edits(k)' = Edits(k) /\ Accepted(k)' = Accepted(k)
      /\ \A k \in KindSet : k # K =>
           /\ ids'[k] = ids[k] /\ list'[k] = list[k] /\ Mirrors(k)' = Mirrors(k)
           /\ k \in stale' <=> k \in stale
      /\ ids'[K] = Range(l) /\ list'[K] = l
  BY DEF Edits, Accepted, Mirrors, Favorites, IInv, Shape
<1>4. EditsAlone'
  <2> SUFFICES ASSUME NEW e \in 1..MaxEdits, NEW k \in KindSet, edit[e].alone, edit[e].kind = k
               PROVE  /\ edit[e].of = user /\ Edits(k)' = {e}
                      /\ k \notin stale' => (edit[e].adds <=> edit[e].item \notin ids'[k])
    BY DEF EditsAlone
  <2>1. edit[e].of = user /\ Edits(k) = {e}  BY DEF IInv, EditsAlone
  <2>2. k = K => k \in stale'  BY <2>1
  <2> QED BY <1>3, <2>1, <2>2 DEF IInv, EditsAlone
<1>5. RefreshesAlone'
  <2>1. \A q \in 1..MaxRefreshes : refresh'[q] = IF q = r THEN f ELSE refresh[q]
    BY DEF IInv, Shape
  <2> QED BY <1>3, <2>1 DEF IInv, RefreshesAlone, Backed
<1>6. Mirroring'
  <2> SUFFICES ASSUME NEW k \in KindSet, k \notin stale'
               PROVE  /\ Accepted(k)' = {} => Mirrors(k)'
                      /\ \A e \in Accepted(k)' : edit[e].alone => Ahead(k, e)'
    BY DEF Mirroring
  <2>1. CASE k # K
    <3>1. k \notin stale /\ \A e : Ahead(k, e)' = Ahead(k, e)  BY <1>3, <2>1 DEF Ahead
    <3> QED BY <1>3, <2>1, <3>1 DEF IInv, Mirroring
  <2>2. CASE k = K
    <3>1. user \in Users /\ Edits(K) = {} /\ l = server[user][K]  BY <2>2
    <3>2. Accepted(K) = {}  BY <3>1 DEF Accepted
    <3>3. user # Nobody  BY <3>1, FavoritesAssumption
    <3> QED BY <1>3, <2>2, <3>1, <3>2, <3>3 DEF Mirrors, Favorites
  <2> QED BY <2>1, <2>2
<1> QED BY <1>2, <1>4, <1>5, <1>6 DEF IInv

(* Where nothing is alone and every kind is stale, or cleared for nobody,  *)
(* only the types are left to show.                                        *)
LEMMA NothingAlone ==
  ASSUME Shape', \A e \in 1..MaxEdits : ~edit'[e].alone, \A r \in 1..MaxRefreshes : refresh'[r].alone = {},
         \/ stale' = KindSet
         \/ user' = Nobody /\ list' = Empty /\ ids' = [k \in KindSet |-> {}]
  PROVE  IInv'
<1>1. EditsAlone' /\ RefreshesAlone'  BY DEF EditsAlone, RefreshesAlone
<1>2. Mirroring'
  <2>1. CASE stale' = KindSet  BY <2>1 DEF Mirroring
  <2>2. CASE user' = Nobody /\ list' = Empty /\ ids' = [k \in KindSet |-> {}]
    <3>1. \A k \in KindSet : Mirrors(k)'  BY <2>2, EmptyLists DEF Mirrors, Favorites, Empty
    <3>2. \A k : \A e \in Accepted(k)' : ~edit'[e].alone
      <4>1. DOMAIN edit' = 1..MaxEdits  BY DEF Shape
      <4> QED BY <4>1 DEF Accepted, Edits
    <3> QED BY <3>1, <3>2 DEF Mirroring
  <2> QED BY <2>1, <2>2
<1> QED BY <1>1, <1>2 DEF IInv

(* With nobody signed in nothing is alone.                                 *)
LEMMA NobodyAlone ==
  ASSUME IInv, user = Nobody
  PROVE  /\ \A e \in 1..MaxEdits : ~edit[e].alone
         /\ \A r \in 1..MaxRefreshes : refresh[r].alone = {}
<1>1. Nobody \notin Users  BY FavoritesAssumption
<1>2. ASSUME NEW e \in 1..MaxEdits, edit[e].alone PROVE FALSE
  <2>1. edit[e].of \in Users /\ edit[e].kind \in KindSet  BY <1>2, Blanks DEF IInv, Shape, Editing
  <2> QED BY <1>1, <1>2, <2>1 DEF IInv, EditsAlone
<1>3. ASSUME NEW r \in 1..MaxRefreshes, NEW k \in refresh[r].alone PROVE FALSE
  BY <1>1, <1>3 DEF IInv, RefreshesAlone, Backed
<1> QED BY <1>2, <1>3

LEMMA EmptyShape == Empty \in [KindSet -> Seq(Items)] /\ [k \in KindSet |-> {}] \in [KindSet -> SUBSET Items]
BY EmptyLists DEF Empty

LEMMA AskKept ==
  ASSUME IInv, NEW r \in 1..MaxRefreshes, NEW pool \in BOOLEAN, Ask(r, pool),
         UNCHANGED <<user, server, edit>>
  PROVE  IInv'
<1>1. CASE user = Nobody
  <2>1. /\ ids' = [k \in KindSet |-> {}] /\ list' = Empty
        /\ refresh' = [refresh EXCEPT ![r] = NoRefresh] /\ stale' = {}
    BY <1>1 DEF Ask
  <2>2. Shape'  BY <2>1, Blanks, EmptyShape DEF IInv, Shape
  <2>3. \A q \in 1..MaxRefreshes : refresh'[q].alone = {}
    BY <1>1, <2>1, NobodyAlone, Blanks DEF IInv, Shape
  <2> QED BY <1>1, <2>1, <2>2, <2>3, NobodyAlone, NothingAlone
<1>2. CASE user # Nobody
  <2> DEFINE f == [NoRefresh EXCEPT !.at = 1, !.pool = pool, !.of = user,
                                    !.alone = {k \in KindSet : Edits(k) = {}}]
  <2>1. refresh' = [refresh EXCEPT ![r] = f] /\ UNCHANGED <<memory, stale>>  BY <1>2 DEF Ask
  <2>2. user \in Users /\ 1 \in 0..Delay  BY <1>2, KindFacts DEF IInv, Shape, Delay
  <2>3. f \in Refreshing  BY <2>2 DEF NoRefresh, Refreshing, Answers
  <2>4. \A k \in f.alone : Backed(f, k)  BY <2>2 DEF NoRefresh, Backed
  <2> HIDE DEF f
  <2> QED BY <2>1, <2>3, <2>4, RefreshMoves
<1> QED BY <1>1, <1>2

LEMMA AnswerKept ==
  ASSUME IInv, NEW r \in 1..MaxRefreshes, NEW k \in KindSet, Answer(r, k) \/ AnswerFails(r, k)
  PROVE  IInv'
<1>1. refresh[r] \in Refreshing /\ refresh[r].at \in 1..Len(Kinds) /\ refresh[r].of \in Users
  BY DEF IInv, Shape, Refreshing, Answer, AnswerFails
<1>2. PICK a : /\ a = Failed \/ a = server[refresh[r].of][k]
               /\ refresh' = [refresh EXCEPT ![r].answers[k] = a]
  BY DEF Answer, AnswerFails
<1>3. a \in Answers  BY <1>1, <1>2 DEF IInv, Shape, Answers
<1> DEFINE f == [refresh[r] EXCEPT !.answers[k] = a]
<1>4. f \in Refreshing /\ f.alone = refresh[r].alone /\ f.of = refresh[r].of
      /\ \A j \in KindSet : f.answers[j] = IF j = k THEN a ELSE refresh[r].answers[j]
  BY <1>1, <1>3 DEF Refreshing
<1>5. refresh' = [refresh EXCEPT ![r] = f]  BY <1>2 DEF IInv, Shape
<1>6. f.alone \subseteq KindSet  BY <1>4 DEF Refreshing
<1> HIDE DEF f
<1>7. ASSUME NEW j \in f.alone PROVE Backed(f, j)
  <2>1. Backed(refresh[r], j)  BY <1>4 DEF IInv, RefreshesAlone
  <2> QED BY <1>2, <1>4, <1>6, <2>1 DEF Backed
<1>8. UNCHANGED <<user, server, memory, edit, stale>>  BY DEF Answer, AnswerFails
<1> QED BY <1>4, <1>5, <1>7, <1>8, RefreshMoves

LEMMA TakeKept == ASSUME IInv, NEW r \in 1..MaxRefreshes, Take(r) PROVE IInv'
<1> DEFINE k == Kinds[refresh[r].at]
           a == refresh[r].answers[k]
           f == Advanced(refresh[r])
<1>1. refresh[r] \in Refreshing /\ refresh[r].at \in 1..Len(Kinds) /\ k \in KindSet
  BY KindFacts DEF IInv, Shape, Take
<1>2. f \in Refreshing  BY <1>1, AdvancedFacts
<1>3. refresh' = [refresh EXCEPT ![r] = f] /\ UNCHANGED <<user, server, edit>> /\ a # Pending
  BY DEF Take, IInv, Shape
<1>4. ASSUME NEW j \in f.alone PROVE Backed(f, j)
  <2>1. j \in refresh[r].alone /\ f.of = refresh[r].of /\ f.answers = refresh[r].answers
    BY <1>1, <1>4, AdvancedFacts
  <2>2. Backed(refresh[r], j)  BY <2>1 DEF IInv, RefreshesAlone
  <2> HIDE DEF f
  <2> QED BY <2>1, <2>2 DEF Backed
<1>5. a = Failed => UNCHANGED <<memory, stale>>  BY DEF Take
<1>6. a # Failed => /\ ids' = [ids EXCEPT ![k] = Range(a)] /\ list' = [list EXCEPT ![k] = a]
                    /\ stale' = IF k \in refresh[r].alone THEN stale \ {k} ELSE stale \cup {k}
  BY DEF Take
<1>7. a \in Answers  BY <1>1 DEF Refreshing
<1>8. k \in refresh[r].alone => Backed(refresh[r], k)  BY DEF IInv, RefreshesAlone
<1>9. k \in refresh[r].alone /\ a # Failed => user \in Users /\ Edits(k) = {} /\ a = server[user][k]
  BY <1>3, <1>8 DEF Backed
<1> HIDE DEF f, a, k
<1>10. CASE a = Failed  BY <1>2, <1>3, <1>4, <1>5, <1>10, RefreshMoves
<1>11. CASE a # Failed
  <2>1. a \in Seq(Items)  BY <1>3, <1>7, <1>11, ListsWithoutDuplicates DEF Answers
  <2>2. \/ stale' = stale \cup {k}
        \/ stale' = stale \ {k} /\ user \in Users /\ Edits(k) = {} /\ a = server[user][k]
    BY <1>6, <1>9, <1>11
  <2> QED BY <1>1, <1>2, <1>3, <1>4, <1>6, <1>11, <2>1, <2>2, KindReplaced
<1> QED BY <1>10, <1>11

LEMMA TakeThrowsKept == ASSUME IInv, NEW r \in 1..MaxRefreshes, TakeThrows(r) PROVE IInv'
<1> DEFINE k == Kinds[refresh[r].at]
           g == [refresh[r] EXCEPT !.answers[k] = Failed]
           f == Advanced(g)
<1>1. refresh[r] \in Refreshing /\ refresh[r].at \in 1..Len(Kinds) /\ k \in KindSet
  BY KindFacts DEF IInv, Shape, TakeThrows
<1>2. /\ g \in Refreshing /\ g.at = refresh[r].at /\ g.alone = refresh[r].alone /\ g.of = refresh[r].of
      /\ \A j \in KindSet : g.answers[j] = IF j = k THEN Failed ELSE refresh[r].answers[j]
  BY <1>1 DEF Refreshing, Answers
<1>3. /\ refresh' = [refresh EXCEPT ![r] = f] /\ UNCHANGED <<user, server, edit>>
      /\ ids' = [ids EXCEPT ![k] = {}] /\ list' = [list EXCEPT ![k] = <<>>] /\ stale' = stale \cup {k}
  BY DEF TakeThrows, IInv, Shape
<1> HIDE DEF g, k
<1>4. f \in Refreshing  BY <1>1, <1>2, AdvancedFacts
<1>5. ASSUME NEW j \in f.alone PROVE Backed(f, j)
  <2>1. j \in g.alone /\ f.of = g.of /\ f.answers = g.answers
    BY <1>1, <1>2, <1>5, AdvancedFacts
  <2>2. Backed(refresh[r], j) /\ j \in KindSet  BY <1>1, <1>2, <2>1 DEF IInv, RefreshesAlone, Refreshing
  <2> HIDE DEF f
  <2> QED BY <1>2, <2>1, <2>2 DEF Backed
<1> HIDE DEF f
<1> QED BY <1>1, <1>3, <1>4, <1>5, EmptyLists, KindReplaced

LEMMA RetryThrowsKept == ASSUME IInv, NEW r \in 1..MaxRefreshes, RetryThrows(r) PROVE IInv'
<1>1. PICK K \in SUBSET KindSet : list' = [k \in KindSet |-> IF k \in K THEN <<>> ELSE list[k]]
  BY DEF RetryThrows
<1>2. list' \in [KindSet -> Seq(Items)]  BY <1>1, EmptyLists DEF IInv, Shape
<1>3. Shape'  BY <1>2, EmptyShape DEF IInv, Shape, RetryThrows
<1> QED BY <1>3, NobodyAlone, NothingAlone DEF RetryThrows

-----------------------------------------------------------------------------
(* Additions and removals *)

LEMMA EditFacts ==
  ASSUME IInv, NEW e \in 1..MaxEdits, edit[e].at # "none"
  PROVE  edit[e] \in Editing /\ e \in Edits(edit[e].kind)
BY Blanks DEF IInv, Shape, Edits

LEMMA AloneIsEdit ==
  ASSUME IInv, NEW e \in 1..MaxEdits, edit[e].alone
  PROVE  edit[e] \in Editing /\ user \in Users
BY Blanks DEF IInv, Shape, Editing, EditsAlone

(* The same edit, except that it need not be alone.                        *)
Same(f, g) ==
  /\ f.at = g.at /\ f.of = g.of /\ f.kind = g.kind /\ f.item = g.item /\ f.adds = g.adds
  /\ f.alone => g.alone

(* What an edit of a kind overlaps is not alone any more.                  *)
LEMMA EditApart ==
  ASSUME NEW f \in Editing \cup {NoEdit}, NEW K
  PROVE  LET g == [f EXCEPT !.alone = @ /\ f.kind \notin K]
         IN  g \in Editing \cup {NoEdit} /\ Same(g, f) /\ (g.alone => f.kind \notin K)
<1> DEFINE b == f.alone /\ f.kind \notin K
           g == [f EXCEPT !.alone = b]
<1>1. b \in BOOLEAN /\ (b => f.alone /\ f.kind \notin K)  OBVIOUS
<1>2. f.alone = FALSE => b = FALSE  OBVIOUS
<1> HIDE DEF b
<1>3. CASE f \in Editing
  BY <1>1, <1>3 DEF Editing, Same
<1>4. CASE f = NoEdit
  <2>1. NoEdit.alone = FALSE  BY DEF NoEdit
  <2>2. g = [NoEdit EXCEPT !.alone = FALSE]  BY <1>2, <1>4, <2>1
  <2>3. [NoEdit EXCEPT !.alone = FALSE] = NoEdit
    <3>1. PICK c, t, n : /\ NoEdit = [at |-> "none", of |-> Nobody, kind |-> Kinds[1], item |-> c,
                                      adds |-> t, alone |-> n]
                         /\ n = FALSE
      BY Zenon DEF NoEdit
    <3>2. [NoEdit EXCEPT !.alone = n] = NoEdit  BY <3>1
    <3> QED BY <3>1, <3>2
  <2> QED BY <1>4, <2>1, <2>2, <2>3 DEF Same
<1> QED BY <1>3, <1>4 DEF b

LEMMA ApartFacts ==
  ASSUME IInv, NEW K \in SUBSET KindSet
  PROVE  /\ Apart(K) \in [1..MaxRefreshes -> Refreshing]
         /\ \A r \in 1..MaxRefreshes :
              /\ Apart(K)[r].alone = refresh[r].alone \ K /\ Apart(K)[r].of = refresh[r].of
              /\ Apart(K)[r].answers = refresh[r].answers
         /\ EditsApart(K) \in [1..MaxEdits -> Editing \cup {NoEdit}]
         /\ \A e \in 1..MaxEdits :
              Same(EditsApart(K)[e], edit[e]) /\ (EditsApart(K)[e].alone => edit[e].kind \notin K)
<1>1. \A r \in 1..MaxRefreshes : refresh[r] \in Refreshing  BY DEF IInv, Shape
<1>2. DOMAIN refresh = 1..MaxRefreshes /\ DOMAIN edit = 1..MaxEdits  BY DEF IInv, Shape
<1>3. ASSUME NEW r \in 1..MaxRefreshes
      PROVE  /\ Apart(K)[r] \in Refreshing /\ Apart(K)[r].alone = refresh[r].alone \ K
             /\ Apart(K)[r].of = refresh[r].of /\ Apart(K)[r].answers = refresh[r].answers
  BY <1>1, <1>2 DEF Apart, Refreshing
<1>4. ASSUME NEW e \in 1..MaxEdits
      PROVE  /\ EditsApart(K)[e] \in Editing \cup {NoEdit} /\ Same(EditsApart(K)[e], edit[e])
             /\ EditsApart(K)[e].alone => edit[e].kind \notin K
  <2>1. EditsApart(K)[e] = [edit[e] EXCEPT !.alone = @ /\ edit[e].kind \notin K]
    BY <1>2 DEF EditsApart
  <2>2. edit[e] \in Editing \cup {NoEdit}  BY DEF IInv, Shape
  <2> QED BY <2>1, <2>2, EditApart
<1>5. Apart(K) = [r \in 1..MaxRefreshes |-> Apart(K)[r]]  BY <1>2 DEF Apart
<1>6. EditsApart(K) = [e \in 1..MaxEdits |-> EditsApart(K)[e]]  BY <1>2 DEF EditsApart
<1>7. Apart(K) \in [1..MaxRefreshes -> Refreshing]  BY <1>3, <1>5
<1>8. EditsApart(K) \in [1..MaxEdits -> Editing \cup {NoEdit}]  BY <1>4, <1>6
<1> QED BY <1>3, <1>4, <1>7, <1>8

LEMMA StartEditKept ==
  ASSUME IInv, NEW e \in 1..MaxEdits, NEW k \in KindSet, NEW i \in Items, NEW adds \in BOOLEAN,
         StartEdit(e, k, i, adds)
  PROVE  IInv'
<1> DEFINE quiet == Refreshes(k) \cup Edits(k) = {} /\ (adds <=> i \notin ids[k])
           new == [at |-> "sent", of |-> user, kind |-> k, item |-> i, adds |-> adds, alone |-> quiet]
<1>1. /\ edit[e].at = "none" /\ user \in Users /\ refresh' = Apart({k})
      /\ edit' = [EditsApart({k}) EXCEPT ![e] = new]
      /\ UNCHANGED <<user, server, ids, list, stale>>
  BY DEF StartEdit, memory, IInv, Shape
<1>2. quiet \in BOOLEAN /\ (quiet => Edits(k) = {} /\ (adds <=> i \notin ids[k]))  OBVIOUS
<1> HIDE DEF quiet
<1>3. new \in Editing  BY <1>1, <1>2 DEF Editing
<1>4. new.at = "sent" /\ new.of = user /\ new.kind = k /\ new.item = i /\ new.adds = adds /\ new.alone = quiet
  OBVIOUS
<1> HIDE DEF new
<1> DEFINE old == EditsApart({k})
<1>5. {k} \in SUBSET KindSet  OBVIOUS
<1>6. /\ refresh' \in [1..MaxRefreshes -> Refreshing] /\ old \in [1..MaxEdits -> Editing \cup {NoEdit}]
      /\ \A r \in 1..MaxRefreshes :
           /\ refresh'[r].alone = refresh[r].alone \ {k} /\ refresh'[r].of = refresh[r].of
           /\ refresh'[r].answers = refresh[r].answers
      /\ \A d \in 1..MaxEdits : Same(old[d], edit[d]) /\ (old[d].alone => edit[d].kind \notin {k})
  BY <1>1, <1>5, ApartFacts
<1>7. edit' = [old EXCEPT ![e] = new]  BY <1>1
<1> HIDE DEF old
<1>8. Shape'  BY <1>1, <1>3, <1>6, <1>7 DEF IInv, Shape
<1>9. /\ edit'[e] = new /\ DOMAIN edit' = 1..MaxEdits /\ DOMAIN edit = 1..MaxEdits
       /\ \A d \in 1..MaxEdits : d # e => edit'[d] = old[d]
  BY <1>6, <1>7 DEF IInv, Shape
<1>10. ASSUME NEW d \in 1..MaxEdits, d # e
      PROVE  /\ edit'[d].at = edit[d].at /\ edit'[d].kind = edit[d].kind /\ edit'[d].item = edit[d].item
             /\ edit'[d].adds = edit[d].adds /\ edit'[d].of = edit[d].of
             /\ edit'[d].alone => edit[d].alone /\ edit[d].kind # k
  BY <1>6, <1>10, <1>9 DEF Same
<1>11. /\ \A j : j # k => Edits(j)' = Edits(j)
      /\ Edits(k)' = Edits(k) \cup {e}
      /\ \A j : Accepted(j)' = Accepted(j) /\ e \notin Accepted(j)
  <2>1. ASSUME NEW j
        PROVE  /\ Edits(j)' = IF j = k THEN Edits(j) \cup {e} ELSE Edits(j)
               /\ Accepted(j)' = Accepted(j) /\ e \notin Accepted(j)
    <3>1. ASSUME NEW d
          PROVE  /\ d \in Edits(j)' <=> d \in Edits(j) \/ (d = e /\ j = k)
                 /\ d \in Accepted(j)' <=> d \in Accepted(j)
                 /\ e \notin Accepted(j)
      <4>1. CASE d = e  BY <1>1, <1>4, <1>9, <4>1 DEF Edits, Accepted
      <4>2. CASE d # e  BY <1>1, <1>10, <1>9, <4>2 DEF Edits, Accepted
      <4> QED BY <4>1, <4>2
    <3> QED BY <3>1
  <2> QED BY <2>1
<1>12. UNCHANGED <<user, server, ids, list, stale>>  BY <1>1
<1>13. EditsAlone'
  <2> SUFFICES ASSUME NEW d \in 1..MaxEdits, NEW K \in KindSet, edit'[d].alone, edit'[d].kind = K
               PROVE  /\ edit'[d].of = user /\ Edits(K)' = {d}
                      /\ K \notin stale => (edit'[d].adds <=> edit'[d].item \notin ids[K])
    BY <1>12 DEF EditsAlone
  <2>1. CASE d = e  BY <1>2, <1>4, <1>11, <1>9, <2>1
  <2>2. CASE d # e
    <3>1. edit[d].alone /\ K = edit[d].kind /\ K # k  BY <1>10, <2>2
    <3>2. /\ edit[d].of = user /\ Edits(K) = {d}
          /\ K \notin stale => (edit[d].adds <=> edit[d].item \notin ids[K])
      BY <3>1 DEF IInv, EditsAlone
    <3> QED BY <1>10, <1>11, <2>2, <3>1, <3>2
  <2> QED BY <2>1, <2>2
<1>14. RefreshesAlone'
  BY <1>6, <1>11, <1>12 DEF IInv, RefreshesAlone, Backed
<1>15. Mirroring'
  <2>1. \A j : Mirrors(j)' = Mirrors(j)  BY <1>12 DEF Mirrors, Favorites
  <2>2. ASSUME NEW j \in KindSet, NEW d \in Accepted(j), j \notin stale, edit'[d].alone
        PROVE  Ahead(j, d)'
    <3>1. d # e /\ d \in 1..MaxEdits  BY <1>11, <1>9, <2>2 DEF Accepted, Edits
    <3>2. Ahead(j, d)  BY <1>10, <2>2, <3>1 DEF IInv, Mirroring
    <3> QED BY <1>10, <1>12, <3>1, <3>2 DEF Ahead
  <2> QED BY <1>11, <1>12, <2>1, <2>2 DEF IInv, Mirroring
<1> QED BY <1>13, <1>14, <1>15, <1>8 DEF IInv

LEMMA AcceptKept == ASSUME IInv, NEW e \in 1..MaxEdits, Accept(e) PROVE IInv'
<1>1. edit[e].at = "sent" /\ edit[e] \in Editing /\ e \in Edits(edit[e].kind)
  BY EditFacts DEF Accept
<1>2. PICK k, i, o, adds : k = edit[e].kind /\ i = edit[e].item /\ o = edit[e].of /\ adds = edit[e].adds
  OBVIOUS
<1>3. k \in KindSet /\ i \in Items /\ o \in Users /\ adds \in BOOLEAN  BY <1>1, <1>2 DEF Editing
<1>4. PICK was : was = server[o][k]  OBVIOUS
<1>5. PICK now : now = IF ~adds THEN Without(was, i) ELSE IF i \in Range(was) THEN was ELSE <<i>> \o was
  OBVIOUS
<1>6. /\ server' = [server EXCEPT ![o][k] = now] /\ edit' = [edit EXCEPT ![e].at = "accepted"]
      /\ UNCHANGED <<user, ids, list, refresh, stale>>
  BY <1>2, <1>4, <1>5 DEF Accept, memory, IInv, Shape
<1>7. was \in ServerLists  BY <1>3, <1>4 DEF IInv, Shape
<1>8. now \in ServerLists
  BY <1>3, <1>5, <1>7, Removed, InFront, ListsWithoutDuplicates
<1>9. /\ server' \in [Users -> [KindSet -> ServerLists]]
      /\ \A u \in Users, j \in KindSet : server'[u][j] = IF u = o /\ j = k THEN now ELSE server[u][j]
  BY <1>3, <1>6, <1>8 DEF IInv, Shape
<1>10. /\ edit' \in [1..MaxEdits -> Editing \cup {NoEdit}] /\ edit \in [1..MaxEdits -> Editing \cup {NoEdit}]
       /\ edit'[e] = [edit[e] EXCEPT !.at = "accepted"]
       /\ \A d \in 1..MaxEdits : d # e => edit'[d] = edit[d]
  <2>1. [edit[e] EXCEPT !.at = "accepted"] \in Editing  BY <1>1 DEF Editing
  <2> QED BY <1>6, <2>1 DEF IInv, Shape
<1>11. Shape'  BY <1>6, <1>9, <1>10 DEF IInv, Shape
<1>12. ASSUME NEW d \in 1..MaxEdits
       PROVE  /\ edit'[d].of = edit[d].of /\ edit'[d].kind = edit[d].kind /\ edit'[d].item = edit[d].item
              /\ edit'[d].adds = edit[d].adds /\ edit'[d].alone = edit[d].alone
              /\ edit'[d].at = IF d = e THEN "accepted" ELSE edit[d].at
  BY <1>1, <1>10 DEF Editing
<1>13. UNCHANGED <<user, ids, list, refresh, stale>>  BY <1>6
<1>14. ASSUME NEW j
       PROVE  /\ Edits(j)' = Edits(j)
              /\ Accepted(j)' = IF j = k THEN Accepted(j) \cup {e} ELSE Accepted(j)
  <2>1. ASSUME NEW d
        PROVE  /\ d \in Edits(j)' <=> d \in Edits(j)
               /\ d \in Accepted(j)' <=> d \in Accepted(j) \/ (d = e /\ j = k)
    <3>1. DOMAIN edit' = 1..MaxEdits /\ DOMAIN edit = 1..MaxEdits  BY <1>10
    <3> QED BY <1>1, <1>2, <1>12, <3>1 DEF Edits, Accepted
  <2> QED BY <2>1
<1>15. EditsAlone'  BY <1>12, <1>13, <1>14 DEF IInv, EditsAlone
<1>16. RefreshesAlone'
  <2>1. Edits(k) # {}  BY <1>1, <1>2
  <2>2. ASSUME NEW r \in 1..MaxRefreshes, NEW j \in refresh[r].alone
        PROVE  Backed(refresh[r], j)'
    <3>1. Backed(refresh[r], j) /\ j \in KindSet  BY <2>2 DEF IInv, RefreshesAlone, Shape, Refreshing
    <3>2. j # k /\ user \in Users  BY <2>1, <3>1 DEF Backed
    <3>3. server'[user][j] = server[user][j]  BY <1>9, <3>1, <3>2
    <3> QED BY <1>13, <1>14, <3>1, <3>2, <3>3 DEF Backed
  <2> QED BY <1>13, <2>2 DEF RefreshesAlone
<1>17. ASSUME NEW j \in KindSet, j \notin stale PROVE Accepted(j)' = {} => Mirrors(j)'
  <2>1. SUFFICES ASSUME Accepted(j)' = {} PROVE Mirrors(j)'  OBVIOUS
  <2>2. j # k /\ Accepted(j) = {}  BY <1>14, <2>1
  <2>3. Mirrors(j)  BY <1>17, <2>2 DEF IInv, Mirroring
  <2>4. user # Nobody => user \in Users  BY DEF IInv, Shape
  <2> QED BY <1>9, <1>13, <2>2, <2>3, <2>4 DEF Mirrors, Favorites
<1>18. ASSUME NEW j \in KindSet, j \notin stale, NEW d \in Accepted(j)', edit'[d].alone
       PROVE  Ahead(j, d)'
  <2>1. d \in 1..MaxEdits /\ d \in Edits(j) /\ edit[d].alone /\ edit[d].kind = j
    <3>1. d \in Edits(j)  BY <1>14, <1>18 DEF Accepted
    <3> QED BY <1>10, <1>12, <1>18, <3>1 DEF Edits
  <2>2. Edits(j) = {d} /\ edit[d].of = user /\ user \in Users
        /\ (edit[d].adds <=> edit[d].item \notin ids[j])
    BY <1>18, <2>1, AloneIsEdit DEF IInv, EditsAlone
  <2>3. CASE j # k
    <3>1. Ahead(j, d)  BY <1>14, <1>18, <2>1, <2>3 DEF IInv, Mirroring
    <3>2. server'[user][j] = server[user][j]  BY <1>9, <2>2, <2>3
    <3> QED BY <1>12, <1>13, <2>1, <3>1, <3>2 DEF Ahead
  <2>4. CASE j = k
    <3>1. d = e /\ o = user  BY <1>1, <1>2, <2>2, <2>4
    <3>2. Accepted(k) = {}  BY <1>1, <2>2, <2>4, <3>1 DEF Accepted
    <3>3. Mirrors(k) /\ user # Nobody
      BY <1>18, <2>2, <2>4, <3>2, FavoritesAssumption DEF IInv, Mirroring
    <3>4. list[k] = was /\ ids[k] = Range(was)  BY <1>4, <3>1, <3>3 DEF Mirrors, Favorites
    <3>5. now = Edited(was, adds, i)
      <4>1. adds <=> i \notin Range(was)  BY <1>2, <2>2, <2>4, <3>1, <3>4
      <4> QED BY <1>5, <4>1 DEF Edited
    <3>6. server'[user][k] = now  BY <1>3, <1>9, <3>1
    <3> QED BY <1>2, <1>7, <1>12, <1>13, <2>1, <2>4, <3>1, <3>4, <3>5, <3>6 DEF Ahead
  <2> QED BY <2>3, <2>4
<1>19. Mirroring'  BY <1>13, <1>17, <1>18 DEF Mirroring
<1> QED BY <1>11, <1>15, <1>16, <1>19 DEF IInv

(* An edit that has failed or is done leaves the others as they were.      *)
LEMMA EditLeaves ==
  ASSUME IInv, NEW e \in 1..MaxEdits, edit' = [edit EXCEPT ![e] = NoEdit]
  PROVE  /\ edit' \in [1..MaxEdits -> Editing \cup {NoEdit}] /\ edit'[e].alone = FALSE
         /\ \A d \in 1..MaxEdits : d # e => edit'[d] = edit[d]
         /\ \A j : Edits(j)' = Edits(j) \ {e} /\ Accepted(j)' = Accepted(j) \ {e}
<1>1. /\ edit' \in [1..MaxEdits -> Editing \cup {NoEdit}] /\ edit \in [1..MaxEdits -> Editing \cup {NoEdit}]
      /\ edit'[e] = NoEdit /\ \A d \in 1..MaxEdits : d # e => edit'[d] = edit[d]
  BY DEF IInv, Shape
<1>2. ASSUME NEW j PROVE Edits(j)' = Edits(j) \ {e} /\ Accepted(j)' = Accepted(j) \ {e}
  <2>1. DOMAIN edit' = 1..MaxEdits /\ DOMAIN edit = 1..MaxEdits  BY <1>1
  <2>2. ASSUME NEW d
        PROVE  /\ d \in Edits(j)' <=> d \in Edits(j) /\ d # e
               /\ d \in Accepted(j)' <=> d \in Accepted(j) /\ d # e
    BY <1>1, <2>1, Blanks DEF Edits, Accepted
  <2> QED BY <2>2
<1> QED BY <1>1, <1>2, Blanks

LEMMA EditFailsKept == ASSUME IInv, NEW e \in 1..MaxEdits, EditFails(e) PROVE IInv'
<1>1. /\ edit[e].at # "none" /\ edit' = [edit EXCEPT ![e] = NoEdit]
      /\ UNCHANGED <<user, server, ids, list, refresh>>
  BY DEF EditFails, memory
<1>2. PICK k : k = edit[e].kind  OBVIOUS
<1>3. k \in KindSet /\ e \in Edits(k)  BY <1>1, <1>2, EditFacts DEF Editing
<1>4. stale' = IF edit[e].at = "accepted" THEN stale \cup {k} ELSE stale
  BY <1>2 DEF EditFails
<1>5. /\ edit' \in [1..MaxEdits -> Editing \cup {NoEdit}] /\ edit'[e].alone = FALSE
      /\ \A d \in 1..MaxEdits : d # e => edit'[d] = edit[d]
      /\ \A j : Edits(j)' = Edits(j) \ {e} /\ Accepted(j)' = Accepted(j) \ {e}
  BY <1>1, EditLeaves
<1>6. UNCHANGED <<user, server, ids, list, refresh>>  BY <1>1
<1>7. Shape'  BY <1>3, <1>4, <1>5, <1>6 DEF IInv, Shape
<1>8. EditsAlone'  BY <1>4, <1>5, <1>6 DEF IInv, EditsAlone
<1>9. RefreshesAlone'  BY <1>5, <1>6 DEF IInv, RefreshesAlone, Backed
<1>10. ASSUME NEW j \in KindSet, j \notin stale' PROVE j \notin stale /\ Accepted(j)' = Accepted(j)
  <2>1. e \in Accepted(j) => edit[e].at = "accepted" /\ j = k  BY <1>2 DEF Accepted, Edits
  <2> QED BY <1>4, <1>5, <1>10, <2>1
<1>11. Mirroring'
  <2>1. ASSUME NEW j \in KindSet, j \notin stale', NEW d \in Accepted(j)', edit'[d].alone PROVE Ahead(j, d)'
    <3>1. d # e /\ d \in 1..MaxEdits /\ d \in Accepted(j)
      <4>1. DOMAIN edit = 1..MaxEdits  BY DEF IInv, Shape
      <4> QED BY <1>5, <2>1, <4>1 DEF Accepted, Edits
    <3>2. Ahead(j, d)  BY <1>5, <1>10, <2>1, <3>1 DEF IInv, Mirroring
    <3> QED BY <1>5, <1>6, <3>1, <3>2 DEF Ahead
  <2>2. ASSUME NEW j \in KindSet, j \notin stale', Accepted(j)' = {} PROVE Mirrors(j)'
    <3>1. Mirrors(j)  BY <1>10, <2>2 DEF IInv, Mirroring
    <3> QED BY <1>6, <3>1 DEF Mirrors, Favorites
  <2> QED BY <2>1, <2>2 DEF Mirroring
<1> QED BY <1>7, <1>8, <1>9, <1>11 DEF IInv

LEMMA FinishKept == ASSUME IInv, NEW e \in 1..MaxEdits, Finish(e) PROVE IInv'
<1>1. edit[e].at = "accepted" /\ edit[e] \in Editing /\ e \in Edits(edit[e].kind)
  BY EditFacts DEF Finish
<1>2. PICK k, i, adds : k = edit[e].kind /\ i = edit[e].item /\ adds = edit[e].adds
  OBVIOUS
<1>3. k \in KindSet /\ i \in Items /\ adds \in BOOLEAN  BY <1>1, <1>2 DEF Editing
<1>4. PICK S : S = IF adds THEN ids[k] \cup {i} ELSE ids[k] \ {i}  OBVIOUS
<1>5. PICK l : l = IF adds THEN <<i>> \o list[k] ELSE RemoveFirst(list[k], i)  OBVIOUS
<1>6. /\ ids' = [ids EXCEPT ![k] = S] /\ list' = [list EXCEPT ![k] = l]
      /\ stale' = IF edit[e].alone THEN stale ELSE stale \cup {k}
      /\ edit' = [edit EXCEPT ![e] = NoEdit] /\ UNCHANGED <<user, server, refresh>>
  <2>1. CASE adds  BY <1>2, <1>4, <1>5, <2>1 DEF Finish, IInv, Shape
  <2>2. CASE ~adds  BY <1>2, <1>4, <1>5, <2>2 DEF Finish, IInv, Shape
  <2> QED BY <2>1, <2>2
<1>7. S \subseteq Items /\ l \in Seq(Items)
  <2>1. list[k] \in Seq(Items) /\ ids[k] \subseteq Items  BY <1>3 DEF IInv, Shape
  <2> QED BY <1>3, <1>4, <1>5, <2>1, InFront, RemovedFirst
<1>8. /\ edit' \in [1..MaxEdits -> Editing \cup {NoEdit}] /\ edit'[e].alone = FALSE
      /\ \A d \in 1..MaxEdits : d # e => edit'[d] = edit[d]
      /\ \A j : Edits(j)' = Edits(j) \ {e} /\ Accepted(j)' = Accepted(j) \ {e}
  BY <1>6, EditLeaves
<1>9. Shape'  BY <1>3, <1>6, <1>7, <1>8 DEF IInv, Shape
<1>10. /\ ids'[k] = S /\ list'[k] = l
       /\ \A j \in KindSet : j # k => ids'[j] = ids[j] /\ list'[j] = list[j] /\ (j \in stale' <=> j \in stale)
       /\ stale \subseteq stale' /\ (k \notin stale' => edit[e].alone)
       /\ UNCHANGED <<user, server, refresh>>
  BY <1>3, <1>6 DEF IInv, Shape
<1>11. EditsAlone'
  <2> SUFFICES ASSUME NEW d \in 1..MaxEdits, NEW j \in KindSet, edit'[d].alone, edit'[d].kind = j
               PROVE  /\ edit'[d].of = user /\ Edits(j)' = {d}
                      /\ j \notin stale' => (edit'[d].adds <=> edit'[d].item \notin ids'[j])
    BY <1>10 DEF EditsAlone
  <2>1. d # e /\ edit'[d] = edit[d]  BY <1>8
  <2>2. /\ edit[d].of = user /\ Edits(j) = {d}
        /\ j \notin stale => (edit[d].adds <=> edit[d].item \notin ids[j])
    BY <2>1 DEF IInv, EditsAlone
  <2>3. j # k  BY <1>1, <1>2, <2>1, <2>2
  <2> QED BY <1>8, <1>10, <2>1, <2>2, <2>3
<1>12. RefreshesAlone'  BY <1>8, <1>10 DEF IInv, RefreshesAlone, Backed
<1>13. ASSUME NEW j \in KindSet, j # k PROVE Accepted(j)' = Accepted(j) /\ e \notin Accepted(j)
  <2>1. e \notin Accepted(j)  BY <1>2, <1>13 DEF Accepted, Edits
  <2> QED BY <1>8, <2>1
<1>14. ASSUME k \notin stale' PROVE Mirrors(k)' /\ Accepted(k)' = {}
  <2>1. edit[e].alone /\ k \notin stale  BY <1>10, <1>14
  <2>2. Edits(k) = {e} /\ edit[e].of = user /\ user \in Users
    BY <1>2, <1>3, <2>1, AloneIsEdit DEF IInv, EditsAlone
  <2>3. e \in Accepted(k) /\ Accepted(k)' = {}  BY <1>1, <1>8, <2>2 DEF Accepted
  <2>4. Ahead(k, e)  BY <1>3, <2>1, <2>3 DEF IInv, Mirroring
  <2>5. list[k] \in ServerLists /\ list[k] \in Seq(Items) /\ ids[k] = Range(list[k])
        /\ server[user][k] = Edited(list[k], adds, i)
    BY <1>2, <2>4, ListsWithoutDuplicates DEF Ahead
  <2>6. l = Edited(list[k], adds, i) /\ S = Range(l)
    BY <1>3, <1>4, <1>5, <2>5, InFront, Removed DEF Edited
  <2>7. user # Nobody  BY <2>2, FavoritesAssumption
  <2> QED BY <1>10, <2>3, <2>5, <2>6, <2>7 DEF Mirrors, Favorites
<1>15. Mirroring'
  <2>1. ASSUME NEW j \in KindSet, j \notin stale', Accepted(j)' = {} PROVE Mirrors(j)'
    <3>1. CASE j = k  BY <1>14, <2>1, <3>1
    <3>2. CASE j # k
      <4>1. Mirrors(j)  BY <1>10, <1>13, <2>1, <3>2 DEF IInv, Mirroring
      <4> QED BY <1>10, <3>2, <4>1 DEF Mirrors, Favorites
    <3> QED BY <3>1, <3>2
  <2>2. ASSUME NEW j \in KindSet, j \notin stale', NEW d \in Accepted(j)', edit'[d].alone PROVE Ahead(j, d)'
    <3>1. j # k  BY <1>14, <2>2
    <3>2. d # e /\ d \in 1..MaxEdits /\ d \in Accepted(j)
      <4>1. DOMAIN edit = 1..MaxEdits  BY DEF IInv, Shape
      <4> QED BY <1>8, <2>2, <4>1 DEF Accepted, Edits
    <3>3. Ahead(j, d)  BY <1>8, <1>10, <2>2, <3>1, <3>2 DEF IInv, Mirroring
    <3> QED BY <1>8, <1>10, <3>1, <3>2, <3>3 DEF Ahead
  <2> QED BY <2>1, <2>2 DEF Mirroring
<1> QED BY <1>9, <1>11, <1>12, <1>15 DEF IInv

-----------------------------------------------------------------------------
(* The session *)

LEMMA ChangeUserKept ==
  ASSUME IInv, NEW u \in Users \cup {Nobody}, ChangeUser(u)
  PROVE  IInv'
<1>1. /\ user' = u /\ refresh' = Apart(KindSet) /\ edit' = EditsApart(KindSet) /\ stale' = KindSet
      /\ UNCHANGED <<server, ids, list>>
  BY DEF ChangeUser, memory
<1>2. KindSet \in SUBSET KindSet  OBVIOUS
<1>3. /\ refresh' \in [1..MaxRefreshes -> Refreshing] /\ edit' \in [1..MaxEdits -> Editing \cup {NoEdit}]
      /\ \A r \in 1..MaxRefreshes : refresh'[r].alone = refresh[r].alone \ KindSet
      /\ \A e \in 1..MaxEdits : edit'[e].alone => edit[e].alone /\ edit[e].kind \notin KindSet
  BY <1>1, <1>2, ApartFacts DEF Same
<1>4. Shape'  BY <1>1, <1>3 DEF IInv, Shape
<1>5. \A e \in 1..MaxEdits : ~edit'[e].alone  BY <1>3, AloneIsEdit DEF Editing
<1>6. \A r \in 1..MaxRefreshes : refresh'[r].alone = {}  BY <1>3 DEF IInv, Shape, Refreshing
<1> QED BY <1>1, <1>4, <1>5, <1>6, NothingAlone

LEMMA RestartKept == ASSUME IInv, Restart PROVE IInv'
<1>1. /\ refresh' = [r \in 1..MaxRefreshes |-> NoRefresh] /\ edit' = [e \in 1..MaxEdits |-> NoEdit]
      /\ ids' = [k \in KindSet |-> {}] /\ list' = Empty /\ stale' = KindSet /\ UNCHANGED <<user, server>>
  BY DEF Restart, IInv, Shape
<1>2. Shape'  BY <1>1, Blanks, EmptyShape DEF IInv, Shape
<1>3. \A e \in 1..MaxEdits : ~edit'[e].alone  BY <1>1, Blanks
<1>4. \A r \in 1..MaxRefreshes : refresh'[r].alone = {}  BY <1>1, Blanks
<1> QED BY <1>1, <1>2, <1>3, <1>4, NothingAlone

-----------------------------------------------------------------------------
(* The theorems *)

LEMMA InitInv == ASSUME Init PROVE IInv
<1>1. Shape  BY Blanks, EmptyShape DEF Init, Shape
<1>2. \A e \in 1..MaxEdits : ~edit[e].alone  BY Blanks DEF Init
<1>3. \A r \in 1..MaxRefreshes : refresh[r].alone = {}  BY Blanks DEF Init
<1> QED BY <1>1, <1>2, <1>3 DEF Init, IInv, EditsAlone, RefreshesAlone, Mirroring

LEMMA StepInv == ASSUME IInv, [Next]_vars PROVE IInv'
<1>0. DOMAIN refresh = 1..MaxRefreshes /\ DOMAIN edit = 1..MaxEdits  BY DEF IInv, Shape
<1>1. ASSUME NEW r \in 1..MaxRefreshes, Refresh(r) \/ Retry(r) PROVE IInv'
  <2>1. PICK pool \in BOOLEAN : Ask(r, pool) /\ UNCHANGED <<user, server, edit>>
    BY <1>1 DEF Refresh, Retry
  <2> QED BY <2>1, AskKept
<1>2. CASE Continue  BY <1>0, <1>1, <1>2, TakeKept, AnswerKept, AcceptKept, FinishKept DEF Continue
<1>3. CASE \E u \in Users : Login(u)  BY <1>3, ChangeUserKept DEF Login
<1>4. CASE Logout  BY <1>4, ChangeUserKept DEF Logout
<1>5. CASE UNCHANGED vars
  <2>1. UNCHANGED <<user, server, ids, list, refresh, edit, stale>>  BY <1>5 DEF vars, memory
  <2>2. \A k : Edits(k)' = Edits(k) /\ Accepted(k)' = Accepted(k) /\ Mirrors(k)' = Mirrors(k)
    BY <2>1 DEF Edits, Accepted, Mirrors, Favorites
  <2> QED BY <2>1, <2>2 DEF IInv, Shape, EditsAlone, RefreshesAlone, Backed, Mirroring, Ahead
<1> QED BY <1>0, <1>1, <1>2, <1>3, <1>4, <1>5, TakeThrowsKept, RetryThrowsKept, AnswerKept,
           EditFailsKept, StartEditKept, RestartKept DEF Next

(* The inductive invariant: memory mirrors the server in every kind that   *)
(* nothing overlapped, but for the one edit the server has accepted and    *)
(* that Finish has yet to apply.                                           *)
THEOREM Inductive == Spec => []IInv
<1>1. Init => IInv  BY InitInv
<1>2. IInv /\ [Next]_vars => IInv'  BY StepInv
<1> QED BY <1>1, <1>2, PTL DEF Spec

(* For any users, kinds, items, refreshes and edits: once a refresh has    *)
(* taken over a kind that nothing overlapped, set and list are what the    *)
(* server has for the user, in its order, and edits that overlap nothing   *)
(* of the same kind keep it so (doRefreshAsync, add...Async,               *)
(* remove...Async).                                                        *)
THEOREM FavoritesMirrored == Spec => []Inv
<1>1. IInv => Inv
  <2> SUFFICES ASSUME IInv PROVE Inv  OBVIOUS
  <2>1. TypeOK
    <3>1. \A r \in 1..MaxRefreshes :
            /\ refresh[r].at \in 0..Delay /\ refresh[r].of \in Users \cup {Nobody}
            /\ \A k \in KindSet :
                 refresh[r].answers[k] \in {Pending, Failed} \/ refresh[r].answers[k] \in ServerLists
            /\ refresh[r].alone \subseteq KindSet
      BY DEF IInv, Shape, Refreshing, Answers
    <3>2. \A e \in 1..MaxEdits : edit[e].at \in {"none", "sent", "accepted"}
      BY Blanks DEF IInv, Shape, Editing
    <3> QED BY <3>1, <3>2 DEF IInv, Shape, TypeOK
  <2>2. Mirrored
    <3>1. \A k : Edits(k) = {} => Accepted(k) = {}  BY DEF Accepted
    <3> QED BY <3>1 DEF IInv, Mirroring, Mirrored
  <2> QED BY <2>1, <2>2 DEF Inv
<1> QED BY <1>1, Inductive, PTL
=============================================================================
