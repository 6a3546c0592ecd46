SPECIFICATION Spec
CONSTANTS
    o1 = o1
    w1 = w1
    w2 = w2
    poller = poller
    Orders = {o1}
    Workers = {w1, w2}
    Poller = poller
    MaxRetries = 1
    MaxCrashes = 1
CHECK_DEADLOCK FALSE
SYMMETRY Symmetry
INVARIANTS
    TypeOK
    SoldOnlyIfCharged
    ColumnsAgree
PROPERTIES
    PaymentFollowsMachine
