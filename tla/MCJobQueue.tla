----------------------------- MODULE MCJobQueue -----------------------------
(* Values of the constants of JobQueue for TLC. *)
EXTENDS JobQueue

CONSTANTS p1, p2, s1, s2

PlainJobs == {p1, p2}
ScopedJobs == {s1, s2}

ErrorsAndBusy == {"error", "busy"}
=============================================================================
