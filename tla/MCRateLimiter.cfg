SPECIFICATION Spec
CONSTANTS
    a = a  b = b
    Clients = {a, b}
    PerMinute = 2
    Burst = 2
    Minute = 3
    Idle = 3
    RetryAfter = 2
    MaxTime = 6
INVARIANTS TypeOK WindowBound
PROPERTIES LimiterPromise RetryAfterSuffices
