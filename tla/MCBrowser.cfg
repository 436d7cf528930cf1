SPECIFICATION SpecAll
CONSTANTS
    p1 = p1
    p2 = p2
    p3 = p3
    t1 = t1
    t2 = t2
    r1 = r1
    r2 = r2
    Platform = Platform
    NoRole = NoRole
    Stations = {p1, p2}
    MaxQty = 1
    MaxIds = 3
    MaxEdits = 3
    Tabs = {p1, p2}
    Kind = "receipt"
    MaxPrints = 3
    MaxVersion = 1
    MaxCount = 1
    MaxReloads = 1
SYMMETRY Symmetry
CONSTRAINT Bounded
INVARIANTS
    
    NoSecondTicket
    SessionsAreCurrent
    NoLockCycle
    OwnerOnly
PROPERTIES
    ToldByTicket
    UnderAuthority
CHECK_DEADLOCK FALSE
