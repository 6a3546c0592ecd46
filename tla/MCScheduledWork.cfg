SPECIFICATION FairSpec
CONSTANTS
    o1 = o1
    latte = latte
    c1 = c1
    t1 = t1
    w1 = w1
    w2 = w2
    poller = poller
    r1 = r1
    r2 = r2
CHECK_DEADLOCK FALSE
PROPERTIES
    NightlyRepair
    
    RequestTaken
