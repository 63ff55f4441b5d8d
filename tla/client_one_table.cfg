SPECIFICATION Spec
CONSTANTS
    r1 = r1
    r2 = r2
    Rows = {r1, r2}
    NumTables = 1
    TableOf <- OneTable
    MaxClock = 2
    MaxCursor = 1
    InteractiveTx = FALSE
    WriterClears = TRUE
    KeepsRecords = FALSE
SYMMETRY RowSymmetry
INVARIANT TypeOK
INVARIANT MarkedOnlyIfSettled
INVARIANT NoEditForgotten
INVARIANT CursorNotAhead
