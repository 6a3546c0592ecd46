SPECIFICATION Spec
CONSTANTS
    o1 = o1
    w1 = w1
    w2 = w2
    poller = poller
    Orders = {o1}
    Workers = {w1}
    Poller = poller
    MaxRetries = 1
    MaxCrashes = 0
CHECK_DEADLOCK FALSE
PROPERTIES
    CancelledIsFinal
