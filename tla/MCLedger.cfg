SPECIFICATION Spec
CONSTANTS
    t1 = t1
    t2 = t2
    t3 = t3
    c1 = c1
    c2 = c2
    c3 = c3
    r1 = r1
    r2 = r2
    Nobody = Nobody
    Threads <- ThreeThreads
    Changes <- ThreeChanges
    Requests <- TwoRequests
SYMMETRY Interchangeable
INVARIANTS
    GuardedRecordsLink
    RecordsCommitWithChanges
    AlterationsAreNamed
