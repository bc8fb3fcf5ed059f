SPECIFICATION Spec
CONSTANTS
    g1 = g1
    d1 = d1
    i1 = i1
    i2 = i2
    MaxSubs = 3
    Group = {g1}
    Domain = {d1}
    Ip = {i1, i2}
    Pattern <- MCPattern
    MinHealth <- MCMinHealth
    PerUser = 1
    CacheHours = 1
    Inputs <- OneGroupInputs
    Digests = {0, 1, 2, 3, 4, 5}
    NoGroup = noGroup
    Null = null
CHECK_DEADLOCK FALSE
INVARIANTS EqualShare
