SPECIFICATION Spec
CONSTANTS
    A = A  B = B  C = C
    Sources <- ThreeSources
    MaxRows = 3
    Draws = {1, 2}
    Bar = Bar
    Strange <- StrangeRows
    Headings <- TwoHeadings
CHECK_DEADLOCK FALSE
INVARIANTS
    TypeOK
    AsOrdered
    JoinsAgree
    AcceptsOnlyTheJoin
    AcceptsTheJoin
