\* Three processes: the interrupted one, its victim and the one let in.
SPECIFICATION Spec
CONSTANTS
    d1 = d1
    d2 = d2
    Proc = {p1, p2, p3}
    Dir = {d1, d2}
    dir <- MCdir
    None = None
    MaxTries = 1
SYMMETRY Symmetry
INVARIANT
    Exclusive
CHECK_DEADLOCK FALSE
