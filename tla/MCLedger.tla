------------------------------ MODULE MCLedger ------------------------------
(* A small instance of Ledger for TLC. *)
EXTENDS Ledger

CONSTANTS t1, t2, t3, c1, c2, c3, r1, r2

ThreeThreads == {t1, t2, t3}
ThreeChanges == {c1, c2, c3}
TwoRequests == {r1, r2}

Interchangeable ==
    Permutations(Threads) \cup Permutations(Changes) \cup Permutations(Requests)
=============================================================================
