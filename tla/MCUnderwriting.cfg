SPECIFICATION Spec
CONSTANTS
    Thresholds <- DefaultThresholds
    KernelLimits <- DefaultLimits
    Universe <- Fetched
    Markets <- SomeMarkets
    MaxAge = 1
    Ttl = 1
    MaxSchemaAttempts = 2
    MaxContracts = 2
    MaxTime = 2
    MaxCycles = 2
INVARIANTS
    TypeOK
    OrdersAreTraceable
    WritesNameACandidate
    OrdersUseRecentQuotes
    PricedIsAdjudicable
    StoredIsReproduced
