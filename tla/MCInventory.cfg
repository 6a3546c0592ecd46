SPECIFICATION Spec
CONSTANTS
    o1 = o1
    o2 = o2
    latte = latte
    cake = cake
    c1 = c1
    c2 = c2
    c3 = c3
    Orders <- MCOrders
    Products <- MCProducts
    Connections <- MCConnections
    Qty <- MCQty
    MaxQty <- MCMaxQty
    InitialStock <- MCInitialStock
CHECK_DEADLOCK FALSE
SYMMETRY Symmetry
INVARIANTS
    TypeOK
    AvailableIsFree
    NoPhantomHold
    
    OversellOnlyFromOverlap
    OrderLinesTogether
    SoldXorReleased
PROPERTIES
    SettledForGood
