SPECIFICATION Spec
CONSTANTS
    i1 = i1
    i2 = i2
    p1 = p1
    p2 = p2
    None = None
SYMMETRY Symmetry
INVARIANTS
    
    NoSecondPayable
    BillingAgrees
CHECK_DEADLOCK FALSE
