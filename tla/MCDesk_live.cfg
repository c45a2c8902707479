SPECIFICATION FairSpec
CONSTANTS
    p1 = p1
    p2 = p2
    s1 = s1
    s2 = s2
    s3 = s3
    job = job
    operator = operator
    Proposals <- TwoProposals
    Reconcilers <- JobOnly
    Scheduled = job
    Symbols <- ThreeSymbols
    ShortLeg <- ChainShort
    LongLeg <- ChainLong
    OperatorMay = {}
    Contracts = 2
PROPERTIES
    OrphansAreFound
    OrphansStopEntries
    LegRiskStopsEntries
