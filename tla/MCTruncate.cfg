SPECIFICATION AloneSpec
CONSTANTS
    dir = dir
    file = file
    Files <- MCFiles
    Reg <- MCReg
    Sizes <- MCSizes
    Modes = {0, 1}
    Owners = {0, 1}
    Secs = {0}
    Nsecs = {0, 1}
    Block = 2
    Start <- MCStart
    Requests <- MCRequests
    NoRequest = NoRequest
    MaxChanges = 2
INVARIANTS
    TruncateTakesEffect
