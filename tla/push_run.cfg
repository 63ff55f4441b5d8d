SPECIFICATION Spec
CONSTANTS
    Rows = {"a", "b", "c"}
    NumTables = 2
    TableOf <- MCTableOf
    Size <- MCSize
    Overhead = 1
    LimitChoices <- MCLimits
    Handlers = {"h1", "h2"}
    FirstEdits <- MCFirstEdits
    MaxVersion = 3
CHECK_DEADLOCK FALSE
INVARIANT TypeOK
INVARIANT SuccessIsComplete
INVARIANT AcknowledgedIsStored
INVARIANT OnlyHalvesOvertake
INVARIANT TooLargeIsTruthful
INVARIANT ConflictOnlyAfterChange
PROPERTY PushEnds
PROPERTY Drains
