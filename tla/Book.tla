-------------------------------- MODULE Book --------------------------------
(***************************************************************************)
(* What the desk promises of every entry, whatever its jobs, its operator  *)
(* and the broker do and however often it dies: the verdict comes first,   *)
(* then the position, then the policy.  A policy is written once, says     *)
(* whether the whole of the entry filled, and settles the position: it     *)
(* only shrinks from then on, and only if the policy is a whole one.       *)
(***************************************************************************)
EXTENDS Integers

CONSTANTS
    Proposals,      \* the entries
    Contracts       \* the size each is approved at

VARIABLES
    approved,       \* entries with a committed verdict
    opened,         \* opened[p]: contracts its opening order has filled
    closed,         \* closed[p]: contracts its closing order has filled
    policy          \* policy[p]: "none", "OPEN" or "LEG_RISK"

bookVars == <<approved, opened, closed, policy>>

Init ==
    /\ approved = {}
    /\ opened = [p \in Proposals |-> 0]
    /\ closed = [p \in Proposals |-> 0]
    /\ policy = [p \in Proposals |-> "none"]

Approve(p) ==
    /\ approved' = approved \cup {p}
    /\ UNCHANGED <<opened, closed, policy>>

Open(p) ==
    /\ p \in approved
    /\ policy[p] = "none"
    /\ opened[p] < Contracts
    /\ opened' = [opened EXCEPT ![p] = @ + 1]
    /\ UNCHANGED <<approved, closed, policy>>

Write(p) ==
    /\ policy[p] = "none"
    /\ opened[p] > 0
    /\ policy' = [policy EXCEPT ![p] =
                     IF opened[p] = Contracts THEN "OPEN" ELSE "LEG_RISK"]
    /\ UNCHANGED <<approved, opened, closed>>

Close(p) ==
    /\ policy[p] = "OPEN"
    /\ closed[p] < opened[p]
    /\ closed' = [closed EXCEPT ![p] = @ + 1]
    /\ UNCHANGED <<approved, opened, policy>>

Next == \E p \in Proposals : Approve(p) \/ Open(p) \/ Write(p) \/ Close(p)

Spec == Init /\ [][Next]_bookVars
=============================================================================
