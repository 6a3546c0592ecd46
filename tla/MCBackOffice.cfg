SPECIFICATION Spec
CONSTANTS
    a = a
    b = b
    x1 = x1
    x2 = x2
    r1 = r1
    r2 = r2
    o1 = o1
    t1 = t1
    u1 = u1
    NoOne = NoOne
    None = None
    Hands <- TwoHands
    Cards <- TwoCards
    Receipts = {o1}
    Terminals = {t1}
    Cashiers = {u1}
    Float = 1
    MaxAmount = 2
    MaxDrops = 1
    MaxRequests = 5
    CashThreshold = 1
    Balanced = 0
    Errors <- CountErrors
    Deltas = {15, 70}
    MaxEvents = 3
    MaxCalls = 3
    MaxVersion = 1
    ItemBaskets <- OneMenu
    ItemCoupons <- OneOffer
    TaxRate = 10
    ServiceRate = 5
    Baskets <- SomeBaskets
    Coupons <- SomeCoupons
    TaxRates = {0, 7, 10}
    ServiceRates = {0, 5}
    Page = 1
    Window = 3
    MaxFailures = 2
    Staff = {"ann", "bo"}
    Stores = {"center", "harbor"}
    Entries = {"e1", "e2", "e3"}
    Timesheet <- Sheet
    FirstClosed = {"e1", "e3"}
    Readers = {"phone"}
    MaxChanges = 2
    Names = {"tea", "cake"}
    Leaves = {"scone"}
    Root = "root"
    MaxNumber = 1
    MaxToggles = 5
    Schedules <- TwoWeeks
    Rules <- TwoRules
    RuleData <- Rulings
    Weekdays = 2
    Times = {1, 2}
    LastDate = 2
    OpenWeek <- OpenAlways
    LastOrderDate = 1
    LastTime = 1
    Products = {"tea"}
    OrderBaskets <- TeasAsked
    Limits <- TeaLimit
    OnTheMenu <- TeaOnMenu
    OptionGroups <- TwoGroups
    Choices <- TwoChoices
CHECK_DEADLOCK FALSE
SYMMETRY Symmetry
CONSTRAINT Bounded
INVARIANTS
    DrawersAccounted
    
    TokensInOrder
    OrdersSound
    
    PayAddsUp
    MenuSound
    ChecksSound
PROPERTIES
    RulesSound
