SPECIFICATION Spec
CONSTANTS
    a = a
    b = b
    c = c
    p1 = p1
    NoId = NoId
    Nobody = Nobody
    Members = {m1, m2}
    Partitions = {p1}
    Events = {a, b}
    Poison = {b}
    MaxRetries = 2
    MaxOpenConns = 2
    MaxFaults = 3
    Messages <- Duplicated
SYMMETRY MembersAreAlike
INVARIANTS
    TypeOK
    EffectsCostFaults
    NoMessageIsPassedUnseen
    DeadLettersFailedOften
