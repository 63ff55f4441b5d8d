SPECIFICATION Spec
CONSTANTS
    q1 = q1
    q2 = q2
    q3 = q3
    Requests = {q1, q2, q3}
    Body <- TwoBodies
    Aging = "always"
    CleansPending = TRUE
CHECK_DEADLOCK FALSE
INVARIANT TypeOK
INVARIANT OnceUnlessExcused
INVARIANT AnswersAreRuns
INVARIANT OwnAnswerUnlessExcused
PROPERTY AtMostOnceSpec
