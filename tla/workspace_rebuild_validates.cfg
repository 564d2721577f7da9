SPECIFICATION Spec
CONSTANTS
    Process = {p}
    Name = {app}
    Folder = {app_here}
    Config = {c1, unrunnable}
    Refused = {}
    Unrunnable = {unrunnable}
    NoName = NoName
    NoFolder = NoFolder
    NoConfig = NoConfig
    None = None
    NoFile = NoFile
    MaxCommands = 2
    app = app
    c1 = c1
    p = p
    q = q
    app_here = app_here
    app_there = app_there
    Command <- EveryCommand
    DirectoryName <- SameDirectoryName
PROPERTY RebuildValidatesFirst
CHECK_DEADLOCK FALSE
