SPECIFICATION Spec
CONSTANTS
    Kinds = {"plain", "pty"}
    PlainLead = {1}
    PtyLead = {}
    Attempts = 3
    MaxBytes = 2
    MaxTyped = 2
INVARIANTS
    TypeOK
    OutputBeforeStatus
    StatusIsRecorded
PROPERTIES
    SessionEnds
    ServerEnds
    KeysArrive
CHECK_DEADLOCK FALSE
