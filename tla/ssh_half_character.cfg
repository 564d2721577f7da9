SPECIFICATION Spec
CONSTANTS
    Kinds = {"pty"}
    PlainLead = {}
    PtyLead = {1}
    Attempts = 1
    MaxBytes = 2
    MaxTyped = 0
INVARIANTS
    PtyReadToTheEnd
CHECK_DEADLOCK FALSE
