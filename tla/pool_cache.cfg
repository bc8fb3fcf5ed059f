SPECIFICATION Spec
CONSTANTS
    Sub = {s1}
    Group = {g1}
    Rule = {r1}
    Content = {noOutbounds, o1}
    Pattern = {p1}
    Admin = {a1, a2}
    Client = {c1, c2}
    MaxVersion = 3
    NoRow = noRow
    NoGroup = noGroup
    NoOutbounds = noOutbounds
    NoPool = noPool
    NoRequest = noRequest
    None = none
INVARIANTS TypeOK StaleOnlyFromRace
SYMMETRY Symmetry
