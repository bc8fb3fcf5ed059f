SPECIFICATION Spec
CONSTANTS
    Sub = {s1}
    Group = {g1}
    Rule = {r1}
    Content = {noOutbounds, o1}
    Pattern = {p1}
    Admin = {a1}
    Client = {c1}
    MaxVersion = 1
    NoRow = noRow
    NoGroup = noGroup
    NoOutbounds = noOutbounds
    NoPool = noPool
    NoRequest = noRequest
    None = none
INVARIANTS InstantInvalidation
