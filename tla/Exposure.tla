------------------------------ MODULE Exposure ------------------------------
(***************************************************************************)
(* What the execution path promises about risk, and nothing about how: a   *)
(* proposal is permitted once, for a fixed number of contracts, and the    *)
(* position taken in it grows one contract at a time up to that number.    *)
(***************************************************************************)
EXTENDS Integers

CONSTANTS Proposals, MaxContracts

VARIABLE book       \* the permits given, each with what was taken under it

Init == book = {}

Permit(p, n) ==
    /\ \A e \in book : e.hash # p
    /\ book' = book \cup {[hash |-> p, qty |-> n, filled |-> 0]}

Take(e) ==
    /\ e.filled < e.qty
    /\ book' = (book \ {e}) \cup {[e EXCEPT !.filled = @ + 1]}

Next ==
    \/ \E p \in Proposals, n \in 1 .. MaxContracts : Permit(p, n)
    \/ \E e \in book : Take(e)

Spec == Init /\ [][Next]_book
=============================================================================
