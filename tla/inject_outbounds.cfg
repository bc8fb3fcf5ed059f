SPECIFICATION Spec
CONSTANTS
    Upstreams <- MCUpstreams
    MaxOurs = 10
    Names <- MCNames
    Null = null
CHECK_DEADLOCK FALSE
INVARIANTS TypeOK ChainsAreWhole StaysWellFormed BalancedArePinged DefaultIsProxy
PROPERTIES HandsOutInOrder HandsOutEveryOutbound
