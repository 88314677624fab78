----------------------------- MODULE CoverCache -----------------------------
(***************************************************************************)
(* api::EnsureCoverInCacheAsync (CoverCache.cpp): a cover is a file; when  *)
(* there is none it is downloaded, created and written, again and again    *)
(* until that works.  Nothing keeps two callers of one cover apart.  The   *)
(* callers here are those that pass no token to give up with.              *)
(***************************************************************************)
CONSTANTS
  Callers,   (* coroutines, one cover each at a time                        *)
  Albums,
  NoImage,   (* albums the server has no cover of                           *)
  Default    (* the cover shown for these, on the server for good           *)

ASSUME CoverAssumption == NoImage \subseteq Albums /\ Default \notin Albums

VARIABLES
  cover,     (* the files: "none", "empty" or "whole"                       *)
  fetch,     (* what each caller is awaiting                                *)
  torn       (* covers whose writing failed or was killed (ghost)           *)

coverVars == <<cover, fetch, torn>>

CoverIds == Albums \cup {Default}
NoFetch == [at |-> "none", id |-> Default]

CoverTypeOK ==
  /\ cover \in [CoverIds -> {"none", "empty", "whole"}]
  /\ fetch \in [Callers -> [at : {"none", "look", "download", "write", "done"},
                            id : CoverIds]]
  /\ torn \subseteq CoverIds

CoverInit ==
  /\ cover = [id \in CoverIds |-> "none"]
  /\ fetch = [c \in Callers |-> NoFetch] /\ torn = {}

Fetch(c, at) == fetch' = [fetch EXCEPT ![c].at = at]

Ensure(c, id) ==
  /\ fetch[c].at = "none"
  /\ fetch' = [fetch EXCEPT ![c] = [at |-> "look", id |-> id]]
  /\ UNCHANGED <<cover, torn>>

(* Whatever file there is will do. *)
LookForCover(c) ==
  /\ fetch[c].at = "look"
  /\ Fetch(c, IF cover[fetch[c].id] = "none" THEN "download" ELSE "done")
  /\ UNCHANGED <<cover, torn>>

(* The server answers that there is none. *)
CoverNotFound(c) ==
  /\ fetch[c].at = "download" /\ fetch[c].id \in NoImage
  /\ fetch' = [fetch EXCEPT ![c] = [at |-> "look", id |-> Default]]
  /\ UNCHANGED <<cover, torn>>

(* The image has come; ReplaceExisting: a file written meanwhile is emptied. *)
CreateCover(c) ==
  /\ fetch[c].at = "download" /\ fetch[c].id \notin NoImage
  /\ Fetch(c, "write")
  /\ cover' = [cover EXCEPT ![fetch[c].id] = "empty"]
  /\ UNCHANGED torn

WriteCover(c) ==
  /\ fetch[c].at = "write"
  /\ Fetch(c, "done")
  /\ cover' = [cover EXCEPT ![fetch[c].id] = "whole"]
  /\ torn' = torn \ {fetch[c].id}

(* Mutant: a failure is not followed by another download. *)
CoverFailsForGood(c) ==
  /\ fetch[c].at = "write"
  /\ Fetch(c, "none")
  /\ torn' = torn \cup {fetch[c].id}
  /\ UNCHANGED cover

(* Any exception: after a second the cover is downloaded once more.  (One  *)
(* of the download, or of the file's creation, changes nothing.)           *)
CoverFails(c) ==
  /\ fetch[c].at = "write"
  /\ Fetch(c, "download")
  /\ torn' = torn \cup {fetch[c].id}
  /\ UNCHANGED cover

TakeCover(c) ==
  /\ fetch[c].at = "done"
  /\ fetch' = [fetch EXCEPT ![c] = NoFetch]
  /\ UNCHANGED <<cover, torn>>

KillCovers ==
  /\ fetch' = [c \in Callers |-> NoFetch]
  /\ torn' = torn \cup {id \in CoverIds : cover[id] = "empty"}
  /\ UNCHANGED cover

(* A caller can be given the empty file of another one.  But no cover      *)
(* stays empty unless its writing failed or was killed: every empty file   *)
(* has a caller that is going to write it (EnsureCoverInCacheAsync).       *)
EmptyIsBeingWritten ==
  \A id \in CoverIds \ torn :
    cover[id] = "empty" => \E c \in Callers : fetch[c] = [at |-> "write", id |-> id]
=============================================================================
