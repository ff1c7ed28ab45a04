SPECIFICATION FairSpec
CONSTANTS
    NULL = NULL
    MaxEvents = 3
    MaxAttempts = 2
    Base = 1
    Cap = 2
    WordBits = 3
    PageLimit = 2
    MaxStops = 1
INVARIANTS TypeOK FirstInFirstOut DuplicatesBounded
PROPERTIES BackoffExact EventuallyClosed DeliversInOrder
CHECK_DEADLOCK FALSE
