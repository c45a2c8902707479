SPECIFICATION Spec
CONSTANTS
    t1 = t1
    t2 = t2
    p1 = p1
    p2 = p2
    v1 = v1
    v2 = v2
    v3 = v3
    Threads <- TwoThreads
    Proposals <- TwoProposals
    Verdicts <- TwoVerdicts
    MaxContracts = 2
    MaxRetries = 2
SYMMETRY Interchangeable
INVARIANTS
    OnlyApprovedOrders
    VerdictUsedOnce
    OneOrderPerProposal
    ReportedFillsAreReal
PROPERTY ImplementsExposure
