SPECIFICATION Spec
CONSTANTS
    A = A  B = B
    a1 = a1  a2 = a2  b1 = b1  n1 = n1
    q1 = q1  q2 = q2  w1 = w1  w2 = w2
    NoID = NoID  NoRow = NoRow
    Sources <- TwoSources
    Table <- TwoRowsEach
    NRows = 2
    RowPerm <- PermOf4
    PushRPC = {a1, a2, b1}
    SrcOf <- Origin
    PullRPC = {q1}
    Worker = {w1, w2}
    Breakable = {a1, a2, q1}
CHECK_DEADLOCK FALSE
INVARIANTS
    TypeOK
    RowsAccounted
    TableComplete
    ExactTable
