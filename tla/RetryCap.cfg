CONSTANTS
    Plans <- LongPlans
    Hops = {0}
    Pool = {}
    IntBits = 12
SPECIFICATION Spec
INVARIANT WaitsCapped
CHECK_DEADLOCK FALSE
