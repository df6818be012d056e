\* Listings of two entries, in a file system of the root and one file.
SPECIFICATION FairSpec
CONSTANTS
    root = root
    dir = dir
    file = file
    Objects <- MCFewObjects
    Dirs <- MCFewDirs
    RootObj = root
    NoObj = NoObj
    FileId <- MCFileId
    IdMax = 2
    MaxRefs = 2
    MaxDots = 1
    MaxLinks = 0
    MaxIputs = 2
    MaxEntries = 2
CHECK_DEADLOCK FALSE
INVARIANTS
    RefsConserved
    NoDanglingInode
    RootPinned
PROPERTIES
    ReaddirPlusEnds
