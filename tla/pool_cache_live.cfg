SPECIFICATION FairSpec
CONSTANTS
    Sub = {s1}
    Group = {g1}
    Rule = {r1}
    Content = {noOutbounds, o1}
    Pattern = {p1}
    Admin = {a1, a2}
    Client = {c1}
    MaxVersion = 2
    NoRow = noRow
    NoGroup = noGroup
    NoOutbounds = noOutbounds
    NoPool = noPool
    NoRequest = noRequest
    None = none
PROPERTIES EventuallyFresh FollowsProtocol
