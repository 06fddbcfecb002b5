SPECIFICATION MCSpec
CONSTANTS
    Requests = {r1, r2}
    Instants = {1}
    Resilient = {r2}
    HighlyAvailable = {r1}
    Strategy <- MCStrategy
    TimeoutMs = 30000
    Durations = {0, 5000, 14000}
    MaxOps = 4
CHECK_DEADLOCK FALSE
INVARIANTS
    RetryTypeOK
    CallsBounded
    BackoffBounded
    OverrunBounded
PROPERTIES
    BreakerNeverOpens
    OperationEnds
