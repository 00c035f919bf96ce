SPECIFICATION FairSysSpec
CONSTANTS
    A = A  B = B
    a1 = a1  a2 = a2  b1 = b1  n1 = n1
    q1 = q1  q2 = q2  w1 = w1  w2 = w2
    NoID = NoID  NoRow = NoRow  Unpublished = Unpublished
    Sources <- TwoSources
    Table <- OneInCommon
    NRows = 2
    RowPerm <- PermOf4
    PushRPC = {a1, b1, n1}
    SrcOf <- Origin
    PullRPC = {q1, q2}
    Worker = {w1, w2}
    Breakable = {b1, q1}
    Mortal = TRUE
CHECK_DEADLOCK FALSE
INVARIANTS
    NoEarlyShutdown
    NoPanic
PROPERTIES
    RelaySpec
    JoinSpec
    WaitsOnlyFor
