-------------------------- MODULE MCStreamOwnership --------------------------
(* Values of the constants of StreamOwnership for TLC. *)
EXTENDS StreamOwnershipImpl, TLC

CONSTANTS r1, r2, r3, w1

ThreeReaders == {r1, r2, r3}
DownloadCoroutine == {w1}
=============================================================================
