CONSTANTS
    m = m  cb = cb  e = e  lo = lo  hi = hi  w1 = w1  w2 = w2  k = k
    None = None
    Task = {m, cb, e}
    Queue = {lo, hi}
    Worker = {w1, w2}
    Order <- HighFirst
    QueueOf <- Queues
    MaxRetries <- Retries
    DedupKey <- KeyOfMember
    Mentions <- CallbackIds
    EtaTask = {e}
    Concurrency = 2
    PollLimit = 2
    Crashing = {w1}
    Faults = TRUE
SPECIFICATION FairSpec
CHECK_DEADLOCK FALSE
INVARIANTS
    NeitherLostNorDoubled
    AckRemovesOwn

    
