SPECIFICATION FairSpec
CONSTANTS
    a = a
    b = b
    c = c
    p1 = p1
    NoId = NoId
    Nobody = Nobody
    Members = {m1, m2}
    Partitions = {p1, p2}
    Events = {a, b, c}
    Poison = {b}
    MaxRetries = 2
    MaxOpenConns = 3
    MaxFaults = 1
    Messages <- Mixed
PROPERTIES
    EveryMessageIsTried
