SPECIFICATION Spec
CONSTANTS
    Process = {p, q}
    Name = {a, b}
    Absent = Absent
    Emptied = Emptied
    Own = Own
    MaxChanges = 1
    MaxGiven = 3
    MaxOwn = 1
SYMMETRY Symmetry
INVARIANTS
    TypeOK
PROPERTIES
    OwnIsSafe
    SyncFreshens
    SyncPrunes
CHECK_DEADLOCK FALSE
