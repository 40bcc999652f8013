CONSTANTS
    m1 = m1  m2 = m2  cb = cb  a = a  b = b  g1 = g1
    lo = lo  hi = hi  p1 = p1  p2 = p2  p3 = p3
    None = None
    Task <- LiveTask
    Queue = {lo, hi}
    Group = {g1}
    Permit = {p1, p2}
    Order <- HighFirst
    QueueOf <- LiveQueue
    MaxRetries <- LiveRetries
    ChainNext <- LiveNext
    GroupOf <- LiveGroup
    ChordCallback <- ChordCallbacks
    EtaTask = {a}
    PanicTask = {}
    Backend = TRUE
    Faults = {}
SPECIFICATION FairSpec
CHECK_DEADLOCK FALSE
INVARIANTS
    SingleCopy
    CleanDrain
    BoundedLoss
    ContinuationsSeeResults
PROPERTIES
    EventuallySettled
    ShutdownCompletes
    ContinuationsFire
