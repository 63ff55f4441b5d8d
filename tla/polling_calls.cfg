SPECIFICATION FairSpec
CONSTANTS
    s1 = s1
    s2 = s2
    s3 = s3
    p1 = p1
    p2 = p2
    u1 = u1
    n1 = n1
    b1 = b1
    Calls = {s1, s2, s3, p1, p2, u1, n1, b1}
    Kind <- KindOf
    After <- TwoComponents
    Cap = 1
CHECK_DEADLOCK FALSE
INVARIANT TypeOK
INVARIANT OneSyncAtATime
INVARIANT OneLoop
INVARIANT StopStops
PROPERTY CommandsReturn
