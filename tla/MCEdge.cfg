SPECIFICATION Spec
CONSTANTS
    s1 = s1
    s2 = s2
    s3 = s3
    u1 = u1
    x1 = x1
    x2 = x2
    m1 = m1
    p1 = p1
    p2 = p2
    r1 = r1
    r2 = r2
    r3 = r3
    r4 = r4
    c1 = c1
    c2 = c2
    NoSet = NoSet
    Free = Free
SYMMETRY Symmetry
INVARIANTS
    
    ListenerLives
    
    AdmissionExact
    FramesBounded
    BreakerSafe
    ClockIsClose
CHECK_DEADLOCK FALSE
