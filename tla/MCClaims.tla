------------------------------ MODULE MCClaims ------------------------------
(***************************************************************************)
(* Two policies over a week and a half that begins on a Monday: one that   *)
(* expires on the Monday after, one a day later.                           *)
(***************************************************************************)
EXTENDS Claims

CONSTANTS monday, tuesday

BothPolicies == {monday, tuesday}

\* A credit of 40 cents on a width of a dollar.
BothTerms ==
    [p \in BothPolicies |->
        [credit |-> 40, short |-> 400, long |-> 300,
         expiry |-> IF p = monday THEN 7 ELSE 8]]

Quote(ask, bid, close) == [ask |-> ask, bid |-> bid, close |-> close]

\* In turn: held; at the stop; at the target; a cent above it, with the last
\* close at the strike; crossed; wider than the width; half of it missing.
SomeQuotes ==
    {Quote({45}, {5}, {401}),
     Quote({90}, {10}, {401}),
     Quote({30}, {10}, {}),
     Quote({31}, {10}, {400}),
     Quote({10}, {12}, {400}),
     Quote({150}, {0}, {380}),
     Quote({}, {10}, {380})}
=============================================================================
