SPECIFICATION Spec
CONSTANTS
    g1 = g1
    d1 = d1
    i1 = i1
    i2 = i2
    MaxSubs = 3
    Group = {g1}
    Domain = {d1}
    Ip = {i1, i2}
    Pattern <- MCPattern
    MinHealth <- MCMinHealth
    PerUser = 3
    CacheHours = 1
    Inputs <- MCInputs
    Digests = {0, 1, 2, 3}
    NoGroup = noGroup
    Null = null
CHECK_DEADLOCK FALSE
INVARIANTS TypeOK PoolIsRoundRobin EndedIsNotServed ServedRespectsRules RulesAreMonotone
INVARIANTS OneProviderPerGroup StickyProvider EqualShareUngrouped
