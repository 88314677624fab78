----------------------------- MODULE Favorites -----------------------------
(***************************************************************************)
(* The user's favorites (FavoritesService.cpp): for each kind of item a    *)
(* set of identifiers and a list, newest first, which a refresh replaces   *)
(* by the answers of five queries and which an addition or a removal edits *)
(* in place after the server has accepted it; with the session of          *)
(* AuthenticationService, which the user may end or replace meanwhile.     *)
(*                                                                         *)
(* Awaits resume where they were begun: on the thread of the user          *)
(* interface, but on the pool for a refresh that retryWithDelays repeats.  *)
(* There the lists throw when a page shows them.  No caller ever cancels.  *)
(***************************************************************************)
EXTENDS Naturals, Sequences, FiniteSets, SequencesExt

CONSTANTS
  Users, Nobody,
  Pending, Failed, (* answers that are not a list                             *)
  Kinds,         (* albums, artists, tracks and so on, in the order awaited *)
  Items,         (* identifiers of each kind                                *)
  MaxRefreshes,  (* bound: refreshes at one time                            *)
  MaxEdits,      (* bound: additions and removals at one time               *)
  MaxList        (* bound: length of a list that still is edited            *)

ASSUME FavoritesAssumption ==
  /\ Nobody \notin Users /\ IsFiniteSet(Items)
  /\ Kinds \in Seq(Range(Kinds)) /\ IsInjective(Kinds)
  /\ MaxRefreshes \in Nat /\ MaxEdits \in Nat /\ MaxList \in Nat

VARIABLES
  user,      (* _authState and its copy in the settings                     *)
  server,    (* favorites of each user, newest first (external)             *)
  ids,       (* _albumIds and the other sets                                *)
  list,      (* _albums and the other lists                                 *)
  refresh,   (* the coroutines of doRefreshAsync                            *)
  edit,      (* the coroutines of addAlbumAsync, removeAlbumAsync ...       *)
  stale      (* kinds that something overlapped (for the properties only)   *)

memory == <<ids, list>>
vars == <<user, server, memory, refresh, edit, stale>>

KindSet == Range(Kinds)
ServerLists == {l \in UNION {[1..n -> Items] : n \in 0..Cardinality(Items)} : IsInjective(l)}

NoRefresh == [at |-> 0, pool |-> FALSE, of |-> Nobody,
              answers |-> [k \in KindSet |-> Pending], alone |-> {}]
NoEdit == [at |-> "none", of |-> Nobody, kind |-> Kinds[1], item |-> CHOOSE i \in Items : TRUE,
           adds |-> TRUE, alone |-> FALSE]

(* at: the query awaited, 0 when there is no refresh; Delay: the 5 seconds. *)
Delay == Len(Kinds) + 1

TypeOK ==
  /\ user \in Users \cup {Nobody}
  /\ server \in [Users -> [KindSet -> ServerLists]]
  /\ ids \in [KindSet -> SUBSET Items] /\ list \in [KindSet -> Seq(Items)]
  /\ \A r \in DOMAIN refresh :
       /\ refresh[r].at \in 0..Delay /\ refresh[r].of \in Users \cup {Nobody}
       /\ \A k \in KindSet : refresh[r].answers[k] \in {Pending, Failed} \/ refresh[r].answers[k] \in ServerLists
       /\ refresh[r].alone \subseteq KindSet
  /\ \A e \in DOMAIN edit : edit[e].at \in {"none", "sent", "accepted"}
  /\ stale \subseteq KindSet

Empty == [k \in KindSet |-> <<>>]

Init ==
  /\ user \in Users \cup {Nobody}
  /\ server \in [Users -> [KindSet -> ServerLists]]
  /\ ids = [k \in KindSet |-> {}] /\ list = Empty
  /\ refresh = [r \in 1..MaxRefreshes |-> NoRefresh]
  /\ edit = [e \in 1..MaxEdits |-> NoEdit]
  /\ stale = KindSet

-----------------------------------------------------------------------------
(* What overlaps what: a refresh can still change a kind until its answer  *)
(* has been taken over.                                                    *)

Awaited(r) == {Kinds[n] : n \in refresh[r].at..Len(Kinds)}
Refreshes(k) == {r \in DOMAIN refresh : refresh[r].at # 0 /\ k \in Awaited(r)}
Edits(k) == {e \in DOMAIN edit : edit[e].at # "none" /\ edit[e].kind = k}

Apart(K) == [r \in DOMAIN refresh |-> [refresh[r] EXCEPT !.alone = @ \ K]]
EditsApart(K) == [e \in DOMAIN edit |-> [edit[e] EXCEPT !.alone = @ /\ edit[e].kind \notin K]]

-----------------------------------------------------------------------------
(* doRefreshAsync *)

(* Nobody's favorites are cleared at once; for a user all queries are sent *)
(* and then awaited one after the other.                                   *)
Ask(r, pool) ==
  IF user = Nobody
  THEN /\ ids' = [k \in KindSet |-> {}] /\ list' = Empty
       /\ refresh' = [refresh EXCEPT ![r] = NoRefresh]
       /\ stale' = {}
  ELSE /\ refresh' = [refresh EXCEPT ![r] =
            [NoRefresh EXCEPT !.at = 1, !.pool = pool, !.of = user, !.alone = {k \in KindSet : Edits(k) = {}}]]
       /\ UNCHANGED <<memory, stale>>

(* Launch, resumption, the page of the user's music. *)
Refresh(r) ==
  /\ refresh[r].at = 0 /\ \A q \in 1..r - 1 : refresh[q].at # 0
  /\ Ask(r, FALSE)
  /\ UNCHANGED <<user, server, edit>>

(* The server answers a query, or the query fails. *)
Answer(r, k) ==
  /\ refresh[r].at \in 1..Len(Kinds) /\ refresh[r].answers[k] = Pending
  /\ refresh' = [refresh EXCEPT ![r].answers[k] = server[refresh[r].of][k]]
  /\ UNCHANGED <<user, server, memory, edit, stale>>

AnswerFails(r, k) ==
  /\ refresh[r].at \in 1..Len(Kinds) /\ refresh[r].answers[k] = Pending
  /\ refresh' = [refresh EXCEPT ![r].answers[k] = Failed]
  /\ UNCHANGED <<user, server, memory, edit, stale>>

(* After the last answer: done, or once more after five seconds.           *)
Advanced(f) ==
  IF f.at < Len(Kinds) THEN [f EXCEPT !.at = @ + 1]
  ELSE IF \E k \in KindSet : f.answers[k] = Failed
       THEN [NoRefresh EXCEPT !.at = Delay] ELSE NoRefresh

(* Mutant: what is there already is not cleared. *)
TakeAppending(r) ==
  LET k == Kinds[refresh[r].at]
      answer == refresh[r].answers[k]
  IN  /\ refresh[r].at \in 1..Len(Kinds) /\ answer # Pending
      /\ IF answer = Failed
         THEN UNCHANGED <<memory, stale>>
         ELSE /\ ids' = [ids EXCEPT ![k] = @ \cup Range(answer)]
              /\ list' = [list EXCEPT ![k] = answer]
              /\ stale' = IF k \in refresh[r].alone THEN stale \ {k} ELSE stale \cup {k}
      /\ refresh' = [refresh EXCEPT ![r] = Advanced(@)]
      /\ UNCHANGED <<user, server, edit>>

(* The answer awaited replaces set and list; a failed one leaves them.     *)
Take(r) ==
  LET k == Kinds[refresh[r].at]
      answer == refresh[r].answers[k]
  IN  /\ refresh[r].at \in 1..Len(Kinds) /\ answer # Pending
      /\ IF answer = Failed
         THEN UNCHANGED <<memory, stale>>
         ELSE /\ ids' = [ids EXCEPT ![k] = Range(answer)]
              /\ list' = [list EXCEPT ![k] = answer]
              /\ stale' = IF k \in refresh[r].alone THEN stale \ {k} ELSE stale \cup {k}
      /\ refresh' = [refresh EXCEPT ![r] = Advanced(@)]
      /\ UNCHANGED <<user, server, edit>>

(* On the pool, with a page that shows the list: it is cleared and throws. *)
TakeThrows(r) ==
  LET k == Kinds[refresh[r].at]
  IN  /\ refresh[r].at \in 1..Len(Kinds) /\ refresh[r].pool
      /\ refresh[r].answers[k] \notin {Pending, Failed}
      /\ ids' = [ids EXCEPT ![k] = {}] /\ list' = [list EXCEPT ![k] = <<>>]
      /\ stale' = stale \cup {k}
      /\ refresh' = [refresh EXCEPT ![r] = Advanced([@ EXCEPT !.answers[k] = Failed])]
      /\ UNCHANGED <<user, server, edit>>

Retry(r) ==
  /\ refresh[r].at = Delay
  /\ Ask(r, TRUE)
  /\ UNCHANGED <<user, server, edit>>

(* The same with nobody signed in: the lists before the one that throws    *)
(* are cleared, and five seconds later it is tried again.                  *)
RetryThrows(r) ==
  /\ refresh[r].at = Delay /\ user = Nobody
  /\ ids' = [k \in KindSet |-> {}]
  /\ \E K \in SUBSET KindSet \ {{}} :
       list' = [k \in KindSet |-> IF k \in K THEN <<>> ELSE list[k]]
  /\ stale' = KindSet
  /\ UNCHANGED <<user, server, refresh, edit>>

-----------------------------------------------------------------------------
(* add...Async and remove...Async *)

(* The buttons are not disabled meanwhile and may be out of date.  Without *)
(* a session nothing is done.                                              *)
StartEdit(e, k, i, adds) ==
  /\ edit[e].at = "none" /\ \A d \in 1..e - 1 : edit[d].at # "none"
  /\ user # Nobody
  /\ Len(list[k]) + Cardinality(Edits(k)) < MaxList
  /\ edit' = [EditsApart({k}) EXCEPT ![e] =
       [at |-> "sent", of |-> user, kind |-> k, item |-> i, adds |-> adds,
        alone |-> Refreshes(k) \cup Edits(k) = {} /\ (adds <=> i \notin ids[k])]]
  /\ refresh' = Apart({k})
  /\ UNCHANGED <<user, server, memory, stale>>

(* Of a list without duplicates, as the server keeps it. *)
Without(l, i) == IF i \in Range(l) THEN RemoveAt(l, CHOOSE n \in DOMAIN l : l[n] = i) ELSE l

(* The server does it; an addition then asks for the item's description.   *)
Accept(e) ==
  LET k == edit[e].kind
      i == edit[e].item
  IN  /\ edit[e].at = "sent"
      /\ server' = [server EXCEPT ![edit[e].of][k] =
           IF ~edit[e].adds THEN Without(@, i)
           ELSE IF i \in Range(@) THEN @ ELSE <<i>> \o @]
      /\ edit' = [edit EXCEPT ![e].at = "accepted"]
      /\ UNCHANGED <<user, memory, refresh, stale>>

(* The first request or its answer is lost, or the second query fails.     *)
EditFails(e) ==
  /\ edit[e].at # "none"
  /\ edit' = [edit EXCEPT ![e] = NoEdit]
  /\ stale' = IF edit[e].at = "accepted" THEN stale \cup {edit[e].kind} ELSE stale
  /\ UNCHANGED <<user, server, memory, refresh>>

(* Mutant: the item goes to the end of its list. *)
FinishAtTheEnd(e) ==
  LET k == edit[e].kind
      i == edit[e].item
  IN  /\ edit[e].at = "accepted"
      /\ IF edit[e].adds
         THEN /\ ids' = [ids EXCEPT ![k] = @ \cup {i}]
              /\ list' = [list EXCEPT ![k] = Append(@, i)]
         ELSE /\ ids' = [ids EXCEPT ![k] = @ \ {i}]
              /\ list' = [list EXCEPT ![k] = RemoveFirst(@, i)]
      /\ stale' = IF edit[e].alone THEN stale ELSE stale \cup {k}
      /\ edit' = [edit EXCEPT ![e] = NoEdit]
      /\ UNCHANGED <<user, server, refresh>>

(* Set and list are changed, whoever is signed in by now. *)
Finish(e) ==
  LET k == edit[e].kind
      i == edit[e].item
  IN  /\ edit[e].at = "accepted"
      /\ IF edit[e].adds
         THEN /\ ids' = [ids EXCEPT ![k] = @ \cup {i}]
              /\ list' = [list EXCEPT ![k] = <<i>> \o @]
         ELSE /\ ids' = [ids EXCEPT ![k] = @ \ {i}]
              /\ list' = [list EXCEPT ![k] = RemoveFirst(@, i)]
      /\ stale' = IF edit[e].alone THEN stale ELSE stale \cup {k}
      /\ edit' = [edit EXCEPT ![e] = NoEdit]
      /\ UNCHANGED <<user, server, refresh>>

-----------------------------------------------------------------------------
(* AuthenticationService, and the application *)

(* The session changes hands; the favorites in memory do not.              *)
ChangeUser(u) ==
  /\ user' = u
  /\ refresh' = Apart(KindSet) /\ edit' = EditsApart(KindSet)
  /\ stale' = KindSet
  /\ UNCHANGED <<server, memory>>

(* The three queries of a sign-in change nothing until all have succeeded. *)
Login(u) == user = Nobody /\ ChangeUser(u)
Logout == user # Nobody /\ ChangeUser(Nobody)

(* Killed and launched again: the session is in the settings.              *)
Restart ==
  /\ ids' = [k \in KindSet |-> {}] /\ list' = Empty
  /\ refresh' = [r \in DOMAIN refresh |-> NoRefresh]
  /\ edit' = [e \in DOMAIN edit |-> NoEdit]
  /\ stale' = KindSet
  /\ UNCHANGED <<user, server>>

Continue ==
  \/ \E r \in DOMAIN refresh : Take(r) \/ Retry(r) \/ \E k \in KindSet : Answer(r, k)
  \/ \E e \in DOMAIN edit : Accept(e) \/ Finish(e)

Next ==
  \/ Continue
  \/ \E r \in DOMAIN refresh :
       \/ Refresh(r) \/ TakeThrows(r) \/ RetryThrows(r)
       \/ \E k \in KindSet : AnswerFails(r, k)
  \/ \E e \in DOMAIN edit :
       \/ EditFails(e)
       \/ \E k \in KindSet, i \in Items, adds \in BOOLEAN : StartEdit(e, k, i, adds)
  \/ \E u \in Users : Login(u)
  \/ Logout \/ Restart

(* The dispatcher runs continuations, the server answers, timers elapse.   *)
Spec == Init /\ [][Next]_vars /\ WF_vars(Continue)

-----------------------------------------------------------------------------
(* Properties *)

Favorites(k) == IF user = Nobody THEN <<>> ELSE server[user][k]
Mirrors(k) == list[k] = Favorites(k) /\ ids[k] = Range(list[k])

(* However refreshes, edits, failures, sign-ins and sign-outs have mixed   *)
(* before: once a refresh has taken over a kind that no edit and no change *)
(* of user overlapped, set and list are what the server has for the user,  *)
(* in its order, and edits that overlap nothing of the same kind and come  *)
(* from an up-to-date button keep it so.                                   *)
Mirrored == \A k \in KindSet \ stale : Edits(k) = {} => Mirrors(k)

(* Every variable has its type, and what nothing overlapped mirrors the    *)
(* server (doRefreshAsync, add...Async, remove...Async).                   *)
Inv == TypeOK /\ Mirrored

(* Nothing disturbs any more, and refreshes are still begun now and then.  *)
Calm == [][Continue \/ \E r \in DOMAIN refresh : Refresh(r)]_vars
Refreshed == []<>(\E r \in DOMAIN refresh : refresh[r].at = 1 /\ ~refresh[r].pool)

(* The favorites converge: when users, edits and failures come to rest and *)
(* a refresh is begun now and then, memory ends up as the server, whatever *)
(* overlapped before.                                                      *)
Converges ==
  <>Calm /\ (Refreshed \/ <>[](user = Nobody)) =>
    <>[](\A k \in KindSet : user # Nobody => Mirrors(k))
=============================================================================
