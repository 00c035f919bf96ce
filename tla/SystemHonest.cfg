SPECIFICATION FairSysSpec
CONSTANTS
    A = A  B = B
    a1 = a1  a2 = a2  b1 = b1  n1 = n1
    q1 = q1  q2 = q2  w1 = w1  w2 = w2
    NoID = NoID  NoRow = NoRow  Unpublished = Unpublished
    Sources <- TwoSources
    Table <- OneInCommon
    NRows = 2
    RowPerm <- PermOf4
    PushRPC = {a1, b1}
    SrcOf <- Origin
    PullRPC = {q1}
    Worker = {w1, w2}
    Breakable = {}
    Mortal = FALSE
CHECK_DEADLOCK FALSE
INVARIANTS
    SysTypeOK
PROPERTIES
    EventuallyServed
