SPECIFICATION Spec
CONSTANTS
    Q = 13
    Point <- GPoint
    Mul <- GMul
    Invert <- GInvert
    Identity <- GIdentity
    Gen <- GGen
    Scalar <- GScalar
    Add <- GAdd
    Neg <- GNeg
    Zero <- GZero
    ScalarExp <- GScalarExp
    A = A  B = B  C = C
    NoRow = NoRow  Noise = Noise  Unpublished = Unpublished
    Sources <- ThreeSources
    Inputs <- SomeInputs
    Hash <- SomeHash
    Rand <- Draws
CHECK_DEADLOCK FALSE
INVARIANTS
    TypeOK
    SamePseudonym
    OnlyWholeGroupsOpen
    JoinIsPlain
