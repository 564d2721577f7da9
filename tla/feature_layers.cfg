SPECIFICATION Spec
CONSTANTS
    Field = {"image", "features", "mounts", "runArgs", "onStart"}
    LifecycleFields = {"onStart"}
    ArrayFields = {"mounts"}
    ArrayConcatFields = {"runArgs"}
    MapFields = {"features"}
    Feature = {"agent", "web", "gpu"}
    Template <- Templates
    Boilerplate <- InitConfig
    HandWritten <- OldFiles
    Written <- UserValues
    MaxGiven = 5
    MaxKills = 1
INVARIANTS
    TypeOK
    LayersExplainFile
    InitIsWhatWasThere
    RemoveMayBeRepeated
CHECK_DEADLOCK FALSE
