--------------------------- MODULE MCUnderwriting ---------------------------
(***************************************************************************)
(* Underwriting over a few chains, with quotes on either side of the       *)
(* thresholds.  Prices and strikes are in cents.                           *)
(***************************************************************************)
EXTENDS Underwriting

\* The defaults of the code.
DefaultThresholds ==
    [dteMin |-> 7, dteMax |-> 21, widthMin |-> 100, widthMax |-> 500,
     deltaMin |-> 12, deltaMax |-> 28, spread |-> 15, ctwMin |-> 20, ctwMax |-> 45,
     edge |-> 5, liquidity |-> 55]

DefaultLimits == [dteMin |-> 7, spread |-> 15, edge |-> 5, liquidity |-> 55]

Fetched == <<"SPY", "QQQ">>

Quoted(u, strike, bid, ask, delta, liquidity, age) ==
    [underlying |-> u, strike |-> strike, dte |-> 7, bid |-> bid, ask |-> ask,
     delta |-> delta, faults |-> {}, liquidity |-> liquidity, age |-> age]

\* A short leg at the ends of its band, and what may be bought under it: a good
\* long leg, one a dollar lower that is illiquid, one too close, one too far.
Short(u, age) == Quoted(u, 40000, 100, 104, 20, 80, age)
Long(u) == Quoted(u, 39800, 38, 40, 13, 55, 0)
Illiquid(u) == Quoted(u, 39700, 24, 26, 11, 54, 0)
TooFar(u) == Quoted(u, 39400, 8, 9, 5, 80, 0)

\* One underlying; the short leg's quote is as old as is allowed.
OneUnderlying ==
    [quotes |-> {Short("SPY", 1), Long("SPY"), Illiquid("SPY"), TooFar("SPY")},
     closes |-> [u \in {"SPY"} |-> 410], utc |-> TRUE]

\* Two of them, a contract that does not trade, and a source with a local clock.
TwoUnderlyings ==
    [quotes |-> {Short("SPY", 0), Long("SPY"),
                 [Long("QQQ") EXCEPT !.faults = {"NOT_TRADABLE"}]},
     closes |-> [u \in {"SPY", "QQQ"} |-> 410], utc |-> FALSE]

\* Nothing to offer, and nothing fresh enough.
OutOfBand ==
    [quotes |-> {[Short("SPY", 0) EXCEPT !.delta = 29], Long("SPY")},
     closes |-> [u \in {"SPY"} |-> 410], utc |-> TRUE]
Stale == [OneUnderlying EXCEPT !.quotes = {[q EXCEPT !.age = @ + 1] : q \in @}]

SomeMarkets == {OneUnderlying, TwoUnderlyings, OutOfBand, Stale}
=============================================================================
