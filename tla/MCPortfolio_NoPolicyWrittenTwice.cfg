SPECIFICATION Spec
CONSTANTS
    Limits <- SmallLimits
    Spreads <- ThreeSpreads
    Baselines = {0, 20}
    MaxContracts = 5
    MaxWritten = 4
INVARIANT NoPolicyWrittenTwice
