SPECIFICATION Spec
CONSTANTS
    A = A  B = B
    k1 = k1  k2 = k2  k3 = k3
    w1 = w1  w2 = w2  w3 = w3
    Unpublished = Unpublished
    Sources <- TwoSources
    Stream <- Common
    Worker = {w1, w2, w3}
    Reliable = TRUE
CHECK_DEADLOCK FALSE
INVARIANTS
    ExitsCleanly
