SPECIFICATION Spec
CONSTANTS
    Process = {p, q}
    Name = {app, lib}
    Folder = {app_here, app_there}
    Config = {c1}
    Refused = {}
    Unrunnable = {}
    NoName = NoName
    NoFolder = NoFolder
    NoConfig = NoConfig
    None = None
    NoFile = NoFile
    MaxCommands = 2
    app = app
    c1 = c1
    p = p
    q = q
    app_here = app_here
    app_there = app_there
    Command <- EveryCommand
    DirectoryName <- SameDirectoryName
SYMMETRY Symmetry
VIEW View
INVARIANT TypeOK
PROPERTIES
    OnlyOwnersDestroy
    StartsWhatItChecked
    UpDelivers
    DeleteLeavesNothing
    InferredNameStaysHome
CHECK_DEADLOCK FALSE
