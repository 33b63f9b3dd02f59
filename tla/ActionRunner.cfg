CONSTANTS
    Plans <- AllPlans
    Hops = {0, 3}
    Pool = {"u2", "u3"}
    IntBits = 12
SPECIFICATION FairSpec
INVARIANTS
    TypeOK
    OneByOne
    ResultTruthful
    WaitsBounded
PROPERTIES
    NeverRedone
    Finishes
CHECK_DEADLOCK FALSE
