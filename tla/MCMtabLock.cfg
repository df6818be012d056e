\* Two processes on one mount point; MaxTries is 100000 in the code.
\* No SYMMETRY: a liveness property is checked.
SPECIFICATION Spec
CONSTANTS
    d1 = d1
    d2 = d2
    Proc = {p1, p2}
    Dir = {d1, d2}
    dir <- MCdir
    None = None
    MaxTries = 1
INVARIANTS
    TypeOK
    ExclusiveUnlessInterrupted
    LockFileHasOwner
PROPERTIES
    UpdatesAreAtomic
    LockEnds
\* Every process may have ended.
CHECK_DEADLOCK FALSE
