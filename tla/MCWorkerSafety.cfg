CONSTANTS
    m1 = m1  m2 = m2  cb = cb  a = a  b = b  g1 = g1
    lo = lo  hi = hi  p1 = p1  p2 = p2  p3 = p3
    None = None
    Task <- ChordTask
    Queue = {lo, hi}
    Group = {g1}
    Permit = {p1, p2, p3}
    Order <- HighFirst
    QueueOf <- ChordQueue
    MaxRetries <- ChordRetries
    ChainNext <- ChordNext
    GroupOf <- ChordGroup
    ChordCallback <- ChordCallbacks
    EtaTask = {m1}
    PanicTask = {m2}
    Backend = TRUE
    Faults = {"dequeue", "ack", "nack", "dead_letter", "schedule", "enqueue",
              "store", "complete_group_member", "get_group_results"}
SPECIFICATION Spec
SYMMETRY Symmetry
CHECK_DEADLOCK FALSE
INVARIANTS
    TypeOK
    NoTaskVanishes
    SingleCopy
    RetryBudget
    InFlightIsTracked
    ContinuationsSeeResults
PROPERTIES
    ImplementsLifecycle
