SPECIFICATION SpecAll
CONSTANTS
    n1 = n1
    n2 = n2
    Jobs = {n1, n2}
    MAX_RETRIES = 1
    MAX_DELIVERY_ATTEMPTS = 1
    MAX_AGENT_IN_FLIGHT_JOBS = 1
    MAX_CLAIM_BATCH = 2
    MaxHandlers = 1
    Requests = {n1, n2}
    IdemKeys = {"k1"}
    Contents = {"f1", "f2"}
    Kinds = {"odoo", "get", "reprint"}
    MAX_AGENT_QUEUED_JOBS = 1
    max_concurrent_jobs = 2
    max_prints_per_period = 3
    MaxPeriod = 1
    SweepOverlaps = FALSE
    MaxRows = 1
    Workers = {n1, n2}
    Operators = {}
    MaxAttempts = 2
    MAX_BILLING_PARK_ATTEMPTS = 2
    MaxClaims = 2
    Refusals = {"retry", "rejected", "offline"}
    Faults = {"crash", "http5xx", "cleanup"}
SYMMETRY Symmetry
CONSTRAINT LiveJobsOnly
INVARIANTS
    InFlightCeiling
    MirrorsGateway
    
    KeyNamesOneJob
    
PROPERTIES
    AdmittedUnderAuthority
CHECK_DEADLOCK FALSE
