SPECIFICATION OutboxSpec
CONSTANTS
    MaxRows = 1
    Workers = {w1, w2}
    Operators = {}
    MaxAttempts = 2
    MAX_BILLING_PARK_ATTEMPTS = 3
    MaxClaims = 3
    Refusals = {"retry", "rejected", "offline"}
    Faults = {"crash"}
INVARIANT RetryIsSafe
CHECK_DEADLOCK FALSE
