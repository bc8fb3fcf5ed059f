SPECIFICATION Spec
CONSTANTS
    User = {u1}
    Token = {t1, t2, t3}
    Admin = {a1, a2}
    Dates = {1, 3}
    TicksPerSecond = 2
    Day = 2
    MaxTime = 3
    NoRow = noRow
    NoRequest = noRequest
    Never = never
    None = none
INVARIANTS OldTokenRevoked
SYMMETRY Symmetry
CHECK_DEADLOCK FALSE
