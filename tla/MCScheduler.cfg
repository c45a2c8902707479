SPECIFICATION Spec
CONSTANTS
    underwrite = underwrite
    reconcile = reconcile
    Jobs <- TwoJobs
    Entries = underwrite
    Check = reconcile
    Interval <- TwoCadences
    Grace = 1
    MaxFailures = 1
INVARIANT IdleJobsRunAgain
PROPERTIES
    RunsAreSpaced
    EntriesComeWithACheck
