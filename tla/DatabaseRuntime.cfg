CONSTANTS
    q1 = q1
    q2 = q2
    q3 = q3
    Nil = Nil
    Requests = {q1, q2, q3}
    PoolSize = 2
    Retries = 1
    Length = 2
SPECIFICATION Spec
INVARIANT TypeOK
INVARIANT NothingTwice
INVARIANT AnswersTellTheTruth
INVARIANT OnePool
PROPERTY EveryRequestAnswered
CHECK_DEADLOCK FALSE
