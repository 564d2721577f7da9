SPECIFICATION Spec
CONSTANTS
    Process = {p, q}
    Ref = {r1}
    File = {f1, f2}
    None = None
    MaxVersion = 1
    MaxGiven = 3
    MaxKills = 1
SYMMETRY Symmetry
INVARIANTS
    TypeOK
    HitIsWhole
PROPERTIES
    SyncRefreshes
    ImplementsWholeFeatures
CHECK_DEADLOCK FALSE
