---------------------------- MODULE MCPortfolio ----------------------------
(* Three spreads on two underlyings, and limits small enough to bind. *)
EXTENDS Portfolio

SmallLimits ==
    [deployed |-> 60, position |-> 25, policies |-> 3, concentration |-> 60,
     portfolio |-> 50, dailyLoss |-> 3, drawdown |-> 10, delta |-> 15,
     vega |-> 50, calibration |-> 100]

Priced(u, short, loss, delta) ==
    [underlying |-> u, short |-> short, long |-> short - 1, expiry |-> 10,
     maxLoss |-> loss, netDelta |-> delta]

\* The first exceeds the delta limit, so its size is always halved.
ThreeSpreads ==
    {Priced("SPY", 9, 1, 1), Priced("SPY", 9, 2, 0), Priced("QQQ", 12, 2, 0)}
=============================================================================
