\* One job, one retry, one delivery attempt: liveness under FairSpec.
SPECIFICATION FairSpec
CONSTANTS
    Jobs = {j1}
    MAX_RETRIES = 1
    MAX_DELIVERY_ATTEMPTS = 1
    MAX_AGENT_IN_FLIGHT_JOBS = 1
    MAX_CLAIM_BATCH = 1
    MaxHandlers = 1
PROPERTIES
    EventuallyArchived
