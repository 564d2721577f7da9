SPECIFICATION Spec
CONSTANTS
    Process = {p, q}
    Machine = {dvt_machine, theirs}
    DvtMachine = dvt_machine
    None = None
    NoSuchMachine = NoSuchMachine
    Command <- SomeCommands
    MaxPolls = 2
    MaxPings = 2
    MaxCommands = 2
    MaxMeddling = 1
INVARIANT TypeOK
PROPERTIES
    OnlyAsAsked
    FailsForCause
    GpuWhereItBuilds
    EveryCommandEnds
CHECK_DEADLOCK FALSE
