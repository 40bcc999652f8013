\* One SDD task as sdd_sig makes it: its directory is in the arguments only.
CONSTANTS
    None = None
    NoKey = NoKey
    Registries <- MCRegistries
    Second = 2
    PollIntervals = {1, 2}
    CronEnd = 7
    Workflows <- MCWorkflows
    Width = 3
    MaxRetry = 7
    Client = {"c1"}
    Values = {"v1", "v2"}
    Backends = {"memory", "redis", "postgres"}
    Timeout = 2
    PollEvery = 1
    Ttl = 2
    ResultEnd = 4
    Queue = {"q", "r"}
    Brokers = {"memory", "redis", "amqp", "sqs"}
    Consumed = {"q"}
    Limits = {0, 1, 2}
    MaxWaiting = 1
    MaxDead = 2
    Msg <- MCMsg
    IdOf <- MCIdOf
    NameOf <- MCNameOf
    KeyOf <- MCKeyOf
    Registered = {"known"}
    Panics = {"a2"}
    Pipelines <- MCPipelines
    Buckets = {"global", "per_task"}
    Burst = 1
    MaxRetries = 1
    Nothing = Nothing
    Job <- SigJob
    KindOf <- SigKindOf
    CwdOf <- SigCwdOf
    ArgsCwdOf <- SigArgsCwdOf
    WorkerCwd = "worker"
    MaxFixAttempts = 1
    MaxConcurrent = 1
    MaxRestarts = 1
SPECIFICATION SigSpec
\* The task ends.
CHECK_DEADLOCK FALSE
INVARIANT VerifiesGeneratedCode
