SPECIFICATION FairSpec
CONSTANTS
    Senders = {a, b}
    MaxRetries = 3
    Callers = {a, b}
    Workers = {a, b}
    Letters = {l1, l2}
    MaxCrashes = 1
    MaxStarts = 4
CHECK_DEADLOCK FALSE
INVARIANTS
    ChargebackReal
    IncomingKept
PROPERTIES
    DeliversAsPromised
    DeliverySettles
    LossRecorded
