SPECIFICATION FairSpec
CONSTANTS
    u1 = u1  u2 = u2  u3 = u3  u4 = u4
    w1 = w1  w2 = w2  w3 = w3
    NoUid = NoUid
    Uid = {u1, u2, u3}
    MayFail = {u3}
    Worker = {w1, w2, w3}
    Users = {"Prepare", "main"}
    Reliable = FALSE
CHECK_DEADLOCK FALSE
INVARIANTS
    TypeOK
    EveryRowOnce
    WholeTable
PROPERTIES
    EndsUnlessFailed
