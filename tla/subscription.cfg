SPECIFICATION Spec
CONSTANTS
    Null = Null
    Names = {"a", "b"}
    Bodies <- MCBodies
CHECK_DEADLOCK FALSE
INVARIANTS TypeOK EveryOfferIsStored StoredAsMeant TagsApart
