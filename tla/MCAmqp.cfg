CONSTANTS
    plain = plain  later = later  garbage = garbage
    q1 = q1  q2 = q2  w1 = w1  w2 = w2
    None = None
    Task = {plain, later, garbage}
    Queue = {q1, q2}
    Worker = {w1, w2}
    Queues <- Consumed
    QueueOf <- Routes
    MaxRetries <- Retries
    Delayed = {later}
    Far = {later}
    Garbage = {garbage}
    Prefetch = 1
    Concurrency = 1
    MaxCopies = 2
    MaxFailures = 2
    MaxClosed = 1
SPECIFICATION Spec
CHECK_DEADLOCK FALSE
INVARIANTS
    NeitherLostNorDoubled
    ResolvesOwnDelivery
    SendNeverWaits
    BuriedOnlyWhenExhausted
PROPERTIES
    QueueDrains
