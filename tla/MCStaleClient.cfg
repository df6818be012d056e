\* The promise of one reply for every request, refuted.
SPECIFICATION Spec
CONSTANTS
    Addr = {a1, a2, a3}
    NULL = NULL
    MaxRetries = 2
SYMMETRY Symmetry
INVARIANT
    ConnectionLossIsSurvived
