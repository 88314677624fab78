----------------------------- MODULE FileAccess -----------------------------
(***************************************************************************)
(* What the ownership lock of HttpCacheStateMachine promises, without its  *)
(* queues, events and state word: one coroutine at a time uses the cached  *)
(* file; when it finishes, the file goes to a waiting reader whose bytes   *)
(* are all there, else to a waiting writer, else to nobody.                *)
(***************************************************************************)
EXTENDS Naturals

CONSTANTS
  Readers, Writers,  (* the coroutines that use the file   *)
  MaxSize,           (* largest size of the file           *)
  NoOne              (* nobody; not a member of either     *)

VARIABLES
  user,       (* who uses the file, or NoOne            *)
  waiting,    (* whose request is not granted yet       *)
  need,       (* bytes each reader asked for            *)
  localSize,  (* bytes of the file readers may rely on  *)
  alive       (* the lock still exists                  *)

vars == <<user, waiting, need, localSize, alive>>

Init ==
  /\ user = NoOne
  /\ waiting = {}
  /\ need = [r \in Readers |-> 0]
  /\ localSize \in 0..MaxSize
  /\ alive = TRUE

Enter(c, granted) ==
  /\ alive
  /\ c # user /\ c \notin waiting
  /\ user' = IF granted THEN c ELSE user
  /\ waiting' = IF granted THEN waiting ELSE waiting \cup {c}
  /\ UNCHANGED <<localSize, alive>>

Write(w) == Enter(w, user = NoOne) /\ UNCHANGED need

Read(r, n) ==
  /\ Enter(r, user = NoOne /\ n <= localSize)
  /\ need' = [need EXCEPT ![r] = n]

Servable == {r \in waiting \cap Readers : need[r] <= localSize}

(* The user finishes and the file is handed over. *)
Finish ==
  /\ alive
  /\ user # NoOne
  /\ user' \in IF Servable # {} THEN Servable
               ELSE IF waiting \cap Writers # {} THEN waiting \cap Writers
               ELSE {NoOne}
  /\ waiting' = waiting \ {user'}
  /\ UNCHANGED <<need, localSize, alive>>

(* The writer that uses the file extends it. *)
Extend ==
  /\ user \in Writers
  /\ localSize' \in localSize..MaxSize
  /\ UNCHANGED <<user, waiting, need, alive>>

(* The content is thrown away, by a writer that is not using the file. *)
Discard ==
  /\ alive
  /\ localSize' = 0
  /\ \E w \in Writers : w # user /\ w \notin waiting
  /\ UNCHANGED <<user, waiting, need, alive>>

(* The lock is destroyed; a user that had not started yet is cancelled. *)
Destroy == alive /\ alive' = FALSE /\ UNCHANGED <<user, waiting, need, localSize>>

Abandon ==
  /\ ~alive
  /\ user # NoOne
  /\ user' = NoOne
  /\ UNCHANGED <<waiting, need, localSize, alive>>

Next ==
  \/ \E w \in Writers : Write(w)
  \/ \E r \in Readers, n \in 0..MaxSize : Read(r, n)
  \/ Finish \/ Extend \/ Discard \/ Destroy \/ Abandon

Spec == Init /\ [][Next]_vars
=============================================================================
