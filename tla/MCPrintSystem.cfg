\* One job, one crash.
SPECIFICATION SysSpec
CONSTANTS
    Jobs = {j1}
    MAX_RETRIES = 2
    MAX_DELIVERY_ATTEMPTS = 2
    MAX_AGENT_IN_FLIGHT_JOBS = 1
    MAX_CLAIM_BATCH = 1
    MaxHandlers = 1
    MaxCrashes = 1
CONSTRAINT Bounded
INVARIANTS
    SysTypeOK
    NoDuplicatePaper
    HonestOutcome
    ReturnedNeverPrints
