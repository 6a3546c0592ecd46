SPECIFICATION Spec
CONSTANTS
    o1 = o1
    o2 = o2
    latte = latte
    c1 = c1
    a = a
    b = b
    x1 = x1
    x2 = x2
    NoOne = NoOne
    Hands <- TwoHands
    Cards <- TwoCards
    Slips <- TwoSlips
    Shelf = {latte}
    Links = {c1}
    Ordered <- OneLatte
    OnTheShelf <- TwoUnits
    MaxQty = 2
    Amounts = {1}
    MaxAdjust = 1
    ShiftStart = 1
    ShiftEnd = 2
    LongestDay = 1
    UsualDay = 1
    ClockEnd = 2
    Punches = {"shift"}
    BreakRows = {"break"}
    Tills = {"till"}
    Lengths = {15, 30}
    LastHour = 6
    Wage <- Fifteen
    Budgeted = {30, 50}
    HoursPerDay = 2
    LaborEnd = 5
    MaxSales = 1
    Crew = {"ann"}
    Houses = {"center"}
    Times <- Overlapping
    RoleGrants = {"SHIFT_SUPERVISOR"}
    Bill <- TwoPrices
    Tips = {0, 3}
    Branch <- Center
    ItemTaken <- TwoTakes
    Adjusters = {"clerk"}
    Checks = {"job"}
    Start = 2
    ReorderPoint = 1
    Delta = {2}
    MaxMoves = 2
    Branches = {"center", "harbor"}
    SalesMade = {"s1", "s2"}
    ForSale <- TwoSales
    LastDay = 1
    MaxLost = 1
    Tolerance = 35
CHECK_DEADLOCK FALSE
SYMMETRY Symmetry
CONSTRAINT BooksIntact
INVARIANTS
    AvailableUnlessOverwritten
    
    StaffAccounted
    
    
