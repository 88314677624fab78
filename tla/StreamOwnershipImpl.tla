------------------------- MODULE StreamOwnershipImpl -------------------------
(***************************************************************************)
(* The refinement mapping from the ownership lock to FileAccess: the user  *)
(* of the file is the coroutine whose event was set last, resumed or not.  *)
(***************************************************************************)
EXTENDS StreamOwnership

CONSTANT NoOne

ASSUME NobodyAssumption == NoOne \notin Clients

User == IF Holding = {} THEN NoOne ELSE CHOOSE c \in Holding : TRUE

Waiting == {c \in Clients : phase[c] = "waiting"}

Access == INSTANCE FileAccess WITH user <- User, waiting <- Waiting

(* The lock gives exclusive access: every step of its queues and events is *)
(* a step of FileAccess or leaves what FileAccess describes unchanged.     *)
ExclusiveAccess == Access!Spec
=============================================================================
