CONSTANTS
    m1 = m1  m2 = m2  m3 = m3
    d1 = d1  d2 = d2  d3 = d3  redelivered = redelivered
    NoResults = NoResults
    Member = {m1, m2, m3}
    Delivery = {d1, d2, d3, redelivered}
    MemberOf <- Redelivery
    Interrupted = {d1}
    Stores = {"counter", "rows"}
SPECIFICATION FairSpec
CHECK_DEADLOCK FALSE
INVARIANTS
    CounterFiresOnce
    CallbackComplete
PROPERTIES
    CallbackFires
