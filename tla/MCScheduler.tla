---------------------------- MODULE MCScheduler ----------------------------
(* A small instance of Scheduler for TLC. *)
EXTENDS Scheduler

CONSTANTS underwrite, reconcile

TwoJobs == {underwrite, reconcile}

\* The cadences keep the order of the code's 30 and 5 minutes.
TwoCadences == [j \in TwoJobs |-> IF j = underwrite THEN 4 ELSE 2]
=============================================================================
