CONSTANTS
    plain = plain  later = later  garbage = garbage
    q1 = q1  q2 = q2  w1 = w1  w2 = w2
    None = None
    Task = {later}
    Queue = {q1, q2}
    Worker = {w1}
    Queues <- Consumed
    QueueOf <- Routes
    MaxRetries <- Retries
    Delayed = {}
    Far = {}
    Garbage = {}
    Prefetch = 1
    Concurrency = 1
    MaxCopies = 1
    MaxFailures = 3
    MaxClosed = 0
SPECIFICATION Spec
CHECK_DEADLOCK FALSE
INVARIANTS
    RetryLimitKept
