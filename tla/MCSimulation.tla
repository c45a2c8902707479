---------------------------- MODULE MCSimulation ----------------------------
(* Limits as deployed, and requests on both sides of every one of them. *)
EXTENDS Simulation

DeployedLimits ==
    [deployed |-> 60, position |-> 3, policies |-> 8, concentration |-> 25,
     portfolio |-> 15, dailyLoss |-> 3, drawdown |-> 10, delta |-> 15,
     vega |-> 50, calibration |-> 100]

SomeFaults == {{}, {"ILLIQUID", "INSUFFICIENT_EDGE"}, {"WIDE_SPREAD"},
               {"MISSING_GREEKS"}}
SomeRaising == {{}, {"SK009"}, {"evaluate"}}
Losses == {0, -4}
=============================================================================
