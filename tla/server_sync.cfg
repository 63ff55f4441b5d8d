SPECIFICATION CSpec
CONSTANTS
    r1 = r1
    r2 = r2
    p1 = p1
    p2 = p2
    Rows = {r1, r2}
    NumTables = 2
    TableOf <- TableOfRow
    Pushes = {p1, p2}
    MaxTime = 3
    ColonRows = {r2}
    IdRank <- IdRankOfRow
SYMMETRY Symmetry
INVARIANT TypeOK
INVARIANT SkippedOnlyIfOvertaken
INVARIANT QuietSyncIsComplete
INVARIANT CursorTextTells
PROPERTY RefusedStaysRefused
