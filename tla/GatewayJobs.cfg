\* One job, both budgets two, one status report in flight.
SPECIFICATION Spec
CONSTANTS
    Jobs = {j1}
    MAX_RETRIES = 2
    MAX_DELIVERY_ATTEMPTS = 2
    MAX_AGENT_IN_FLIGHT_JOBS = 1
    MAX_CLAIM_BATCH = 1
    MaxHandlers = 1
INVARIANTS
    TypeOK
    SingleLiveAttempt
    BoundedDelivery
PROPERTIES
    TerminalIsFinal
    ReturnedAttemptIsInert
    AdmissionIsCurrent
    ImplementsContract
