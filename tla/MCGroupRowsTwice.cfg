CONSTANTS
    m1 = m1  m2 = m2  m3 = m3
    d1 = d1  d2 = d2  d3 = d3  redelivered = redelivered
    NoResults = NoResults
    Member = {m1, m2, m3}
    Delivery = {d1, d2, d3}
    MemberOf <- OnceEach
    Interrupted = {}
    Stores = {"rows"}
SPECIFICATION Spec
INVARIANTS
    CallbackOnce
CHECK_DEADLOCK FALSE
