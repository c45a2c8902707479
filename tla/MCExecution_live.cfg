SPECIFICATION LiveSpec
CONSTANTS
    t1 = t1
    t2 = t2
    p1 = p1
    p2 = p2
    v1 = v1
    v2 = v2
    v3 = v3
    Threads <- TwoThreads
    Proposals <- OneProposal
    Verdicts <- TwoVerdicts
    MaxContracts = 1
    MaxRetries = 2
PROPERTY EveryCallEnds
