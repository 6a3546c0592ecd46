SPECIFICATION Spec
CONSTANTS
    r1 = r1
    r2 = r2
    r3 = r3
    w1 = w1
    w2 = w2
    Rows = {r1, r2}
    Workers = {w1, w2}
    Paid = 2
    MaxCrashes = 1
CHECK_DEADLOCK FALSE
SYMMETRY TwoRows
INVARIANTS
    ReviewedFirst
