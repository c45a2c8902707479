---------------------------- MODULE MCExecution ----------------------------
(* Small instances of Execution for TLC. *)
EXTENDS Execution, TLC

CONSTANTS t1, t2, p1, p2, v1, v2, v3

TwoThreads == {t1, t2}
OneThread == {t1}
TwoProposals == {p1, p2}
OneProposal == {p1}
OneVerdict == {v1}
TwoVerdicts == {v1, v2}
ThreeVerdicts == {v1, v2, v3}

Interchangeable ==
    Permutations(Threads) \cup Permutations(Proposals) \cup Permutations(Verdicts)
=============================================================================
