SPECIFICATION Spec
CONSTANTS
    monday = monday
    tuesday = tuesday
    Policies <- BothPolicies
    Terms <- BothTerms
    Quotes <- SomeQuotes
    Halts = {TRUE, FALSE}
    OutOfHours = {"refused", "cancelled"}
    LastDay = 8
INVARIANTS
    DueAndOnlyDueIsChosen
    ForceFlatIsTried
    LossWithinReserve
