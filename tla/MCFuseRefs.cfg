\* The daemon may have ended, or a bound be reached: no deadlock check.
SPECIFICATION Spec
CONSTANTS
    root = root
    dir = dir
    file = file
    Objects <- MCObjects
    Dirs <- MCDirs
    RootObj = root
    NoObj = NoObj
    FileId <- MCFileId
    IdMax = 3
    MaxRefs = 2
    MaxDots = 0
    MaxLinks = 1
    MaxIputs = 1
    MaxEntries = 1
CHECK_DEADLOCK FALSE
INVARIANTS
    TypeOK
    RefsConserved
    NoDanglingInode
    AssertsThatHold
    SameNumberSameFile
PROPERTIES
    NodeMapRefined
