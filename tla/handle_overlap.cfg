\* A placement and a payment overlap: expected to violate ErrorLeavesNothing
SPECIFICATION Spec
CONSTANTS
    r1 = r1
    r2 = r2
    r3 = r3
    Requests = {r1, r2}
    OperationOf <- MCOperationOf2
    Root = Root
INVARIANT ErrorLeavesNothing
CHECK_DEADLOCK FALSE
