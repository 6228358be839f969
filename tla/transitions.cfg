\* Three updates of an entity of each type, and one diff.
SPECIFICATION Spec
CONSTANTS
    None = None
    Types = {"global", "engine", "funnel"}
    Raw <- MCRaw
    Diffs = {d1}
    Decoding = {"text", "json"}
    MaxVersion = 4
CHECK_DEADLOCK FALSE
INVARIANTS
    TypeOK
    DiffAgreesWithTransitions
    VettedStatesAreInRange
    UnsavedHoldsRefused
