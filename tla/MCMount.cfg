\* The process ends, so there is no deadlock check.
SPECIFICATION Spec
CONSTANT
    OptionLists <- MCOptionLists
INVARIANTS
    NothingLeftBehind
    MtabFollowsKernel
    SignalsEndSession
    PointersUsedOnce
PROPERTY
    ForegroundMountEnds
CHECK_DEADLOCK FALSE
