SPECIFICATION Spec
CONSTANTS
    Workers = {w1}
    Events <- MCEvents
    KeyOf <- MCKeyOf
    BatchSize = 2
    MaxRetries = 2
    MaxCount = 255
    MaxFaults = 0
INVARIANTS
    KeyOrderIsKept
