CONSTANTS
    m = m  cb = cb  e = e  lo = lo  hi = hi  w1 = w1  w2 = w2  k = k
    None = None
    Task = {m}
    Queue = {lo, hi}
    Worker = {w1, w2}
    Order <- HighFirst
    QueueOf <- Queues
    MaxRetries <- Retries
    DedupKey <- KeyOfMember
    Mentions <- CallbackIds
    EtaTask = {}
    Concurrency = 1
    PollLimit = 2
    Crashing = {}
    Faults = FALSE
SPECIFICATION Spec
INVARIANTS
    NothingDropped
CHECK_DEADLOCK FALSE
