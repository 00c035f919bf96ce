SPECIFICATION Spec
CONSTANTS
    A = A  B = B
    a1 = a1  a2 = a2  b1 = b1  n1 = n1
    q1 = q1  q2 = q2  w1 = w1  w2 = w2
    NoID = NoID  NoRow = NoRow
    Sources <- TwoSources
    Table <- OneRowEach
    NRows = 1
    RowPerm <- PermOf2
    PushRPC = {a1, a2, b1}
    SrcOf <- Origin
    PullRPC = {q1}
    Worker = {w1}
    Breakable = {a1}
CHECK_DEADLOCK FALSE
INVARIANTS
    NeverMoreRowsThanExpected
