SPECIFICATION Spec
CONSTANTS
    q1 = q1
    q2 = q2
    q3 = q3
    Requests = {q1, q2, q3}
    Body <- TwoBodies
    Aging = "idle"
    CleansPending = FALSE
CHECK_DEADLOCK FALSE
INVARIANT AnsweredForOwnBody
