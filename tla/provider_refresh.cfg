SPECIFICATION Spec
CONSTANTS
    x = x
    y = y
    o1 = o1
    o2 = o2
    Req = {r1, r2, r3}
    Url = {x, y}
    FirstUrl = x
    List = {o1, o2}
    Answers <- MCAnswers
    Patches <- MCPatches
    MaxTries = 2
    NoRow = NoRow
    Null = Null
    Absurd = Absurd
CHECK_DEADLOCK FALSE
INVARIANTS TypeOK RowIsSerial FetchedFromItsUrl
PROPERTIES EveryRequestEnds
