SPECIFICATION FairSpec
CONSTANTS
    underwrite = underwrite
    manage = manage
    Threads <- TwoThreads
    Token = 2
    Burst = 2
    Window = 5
INVARIANTS
    QuietCallsArePaced
    SpacedCallsNeverSleep
PROPERTY EveryAcquireReturns
