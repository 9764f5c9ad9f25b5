SPECIFICATION ServerSpec
CONSTANTS
    Workers = {w1}
    Events <- MCEvents
    KeyOf <- MCKeyOf
    BatchSize = 2
    MaxRetries = 2
    MaxCount = 255
    MaxFaults = 2
    MaxStops = 2
INVARIANTS
    TypeOK
    SentIsPublished
    FailedAfterAllRetries
    GivenUpOnlyAfterBackoff
    CopiesCostFaults
    OrderedUnlessRetried
PROPERTIES
    StatusIsFinal
    EveryEventIsSettled
    ImplementsDelivery
