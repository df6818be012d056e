SPECIFICATION Spec
CONSTANTS
    root = root
    dir = dir
    file = file
    Objects <- MCObjects
    Dirs <- MCDirs
    RootObj = root
    NoObj = NoObj
    FileId <- MCFileId
    IdMax = 3
    MaxRefs = 2
    MaxDots = 1
    MaxLinks = 1
    MaxIputs = 1
    MaxEntries = 1
CHECK_DEADLOCK FALSE
INVARIANTS
    ForgetNeverUnderflows
