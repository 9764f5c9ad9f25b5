SPECIFICATION FairPipelineSpec
CONSTANTS
    Workers = {w1}
    Events <- MCEvents
    KeyOf <- MCKeyOf
    BatchSize = 1
    MaxRetries = 1
    MaxCount = 255
    MaxFaults = 1
    MaxStops = 1
    p1 = p1
    p2 = p2
    Members = {m1}
    Partitions = {p1, p2}
    Poison = {}
    NoId = NoId
    Nobody = Nobody
    ConsumerRetries = 2
    MaxOpenConns = 2
    HashOf <- MCHashOf
INVARIANTS
    OneEffectPerFault
    EffectsKeepKeyOrder
    SentIsAheadOrTried
PROPERTIES
    EveryEventLeavesATrace
