SPECIFICATION Spec
CONSTANTS
    User = {u1}
    Token = {t1, t2}
    Admin = {a1, a2}
    Dates = {4}
    TicksPerSecond = 2
    Day = 2
    MaxTime = 4
    NoRow = noRow
    NoRequest = noRequest
    Never = never
    None = none
INVARIANTS TypeOK KillSwitch NoEarlyLockout
SYMMETRY Symmetry
CHECK_DEADLOCK FALSE
