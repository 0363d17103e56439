CONSTANTS
    Null = Null
    Numbers = {1, 2}
    MaxPosts = 3
    MaxUsers = 2
SPECIFICATION StoreSpec
INVARIANT QueriesAnswerAsMeant
CHECK_DEADLOCK FALSE
