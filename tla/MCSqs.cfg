CONSTANTS
    order = order  garbage = garbage  w1 = w1  w2 = w2
    None = None  Client = Client
    Task = {order, garbage}
    Name = {"orders", "mail", "ghost"}
    Url = {"orders", "orders.fifo", "mail"}
    Worker = {w1, w2}
    NameOf <- Names
    Fifo = {"orders.fifo"}
    QueueOf <- Queue
    DedupId <- OwnId
    Queues <- Polls
    MaxRetries = {0, 1}
    Delayed = {order}
    Far = {order}
    Garbage = {garbage}
    HasDlq = {TRUE}
    Permits <- Permit
    Strays = {w2}
    MaxCopies = 2
    MaxFailures = 2
    MaxFaults = 1
SPECIFICATION Spec
CHECK_DEADLOCK FALSE
INVARIANTS
    NeitherLostNorDoubled
    ReceiptIsLast
    BuriedOnlyWhenExhausted
PROPERTIES
    EventuallySettled
