SPECIFICATION Spec
CONSTANTS
    p1 = p1
    p2 = p2
    s1 = s1
    s2 = s2
    s3 = s3
    job = job
    operator = operator
    Proposals <- TwoProposals
    Reconcilers <- JobAndOperator
    Scheduled = job
    Symbols <- TwoSymbols
    ShortLeg <- SameShort
    LongLeg <- SameLong
    OperatorMay <- Controls
    Contracts = 2
SYMMETRY Interchangeable
INVARIANTS
    EntriesAreRecorded
    PoliciesAreBacked
    NeverOverclosed
    KillSwitchStopsEntries
PROPERTY ImplementsBook
