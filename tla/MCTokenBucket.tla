--------------------------- MODULE MCTokenBucket ---------------------------
(* Small instances of TokenBucket for TLC. *)
EXTENDS TokenBucket

CONSTANTS underwrite, manage

TwoThreads == {underwrite, manage}
=============================================================================
