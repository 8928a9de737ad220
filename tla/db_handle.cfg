\* Any interleaving of the three requests, failing statements and restarts
SPECIFICATION FairSpec
CONSTANTS
    r1 = r1
    r2 = r2
    r3 = r3
    Requests = {r1, r2, r3}
    OperationOf <- MCOperationOf
    Root = Root
INVARIANTS
    DbTypeOK
    HandleFollowsCalls
    LoneRequestsAreAtomic
PROPERTIES
    StuckUntilRestart
    TransactionsEnd
CHECK_DEADLOCK FALSE
