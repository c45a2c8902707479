SPECIFICATION SimSpec
CONSTANTS
    Limits <- DeployedLimits
    MaxLosses = {1, 4}
    Reserves = {1, 4}
    Strikes = {5}
    Navs = {100}
    Peaks = {100, 112}
    Pnls <- Losses
    BuyingPowers = {4, 9, 200}
    Greeks = {0, 1}
    FaultSets <- SomeFaults
    RaisingSets <- SomeRaising
    Requests = {0, 4}
INVARIANTS
    ClosesAreNotHeldBack
    RaisingFailsClosed
    ApprovedOpeningsFit
