SPECIFICATION TimedSpec
CONSTANTS
    Workers = {w1, w2}
    Events <- MCEvents
    KeyOf <- MCKeyOf
    BatchSize = 2
    MaxRetries = 2
    MaxCount = 2
    MaxFaults = 1
    Horizon = 3
    Skews <- MCSkews
    MaxLag = 1
SYMMETRY WorkersAreAlike
INVARIANTS
    FailedAfterAllRetries
    GivenUpOnlyAfterBackoff
    LastTryIsLate
PROPERTIES
    ImplementsDelivery
