SPECIFICATION Spec
CONSTANTS
    r1 = r1
    r2 = r2
    Rows = {r1}
    NumTables = 1
    TableOf <- OneRow
    MaxClock = 2
    MaxCursor = 0
    InteractiveTx = TRUE
    WriterClears = TRUE
    KeepsRecords = FALSE
INVARIANT NoEditForgotten
INVARIANT FlagEarned
