SPECIFICATION FairSpec
CONSTANTS
    r1 = r1
    r2 = r2
    Rows = {r1}
    NumTables = 1
    TableOf <- OneRow
    MaxClock = 2
    MaxCursor = 1
    InteractiveTx = FALSE
    WriterClears = TRUE
    KeepsRecords = TRUE
PROPERTY OutboxDrains
