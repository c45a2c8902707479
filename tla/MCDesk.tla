------------------------------- MODULE MCDesk -------------------------------
(* Small instances of Desk for TLC. *)
EXTENDS Desk, TLC

CONSTANTS p1, p2, s1, s2, s3, job, operator

TwoProposals == {p1, p2}
JobOnly == {job}
JobAndOperator == {job, operator}

\* The same spread written again, and a spread that begins where another ends.
TwoSymbols == {s1, s2}
ThreeSymbols == {s1, s2, s3}
SameShort == [p \in Proposals |-> s1]
SameLong == [p \in Proposals |-> s2]
ChainShort == [p \in Proposals |-> IF p = p1 THEN s1 ELSE s2]
ChainLong == [p \in Proposals |-> IF p = p1 THEN s2 ELSE s3]

\* Sound only for entries with the same legs.
Interchangeable == Permutations(Proposals) \cup Permutations(Reconcilers)
=============================================================================
