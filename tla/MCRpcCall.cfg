\* Two clients and a third address for the one that a reconnection makes.
\* No SYMMETRY: a liveness property is checked.
SPECIFICATION Spec
CONSTANTS
    Addr = {a1, a2, a3}
    NULL = NULL
    MaxRetries = 2
INVARIANTS
    TypeOK
    ClientsAreRight
    RereadIsSafe
    AnswersAreTrue
PROPERTY
    CallEnds
