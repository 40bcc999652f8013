\* Submission of workflows, cron scheduler, result backends, backoff, dashboard, the
\* middleware pipeline in three orders, and agent tasks that share the permits of a
\* SemaphoreRunner.
CONSTANTS
    None = None
    NoKey = NoKey
    Registries <- MCRegistries
    Second = 2
    PollIntervals = {1, 2}
    CronEnd = 7
    Workflows <- MCWorkflows
    Width = 3
    MaxRetry = 7
    Client = {"c1"}
    Values = {"v1", "v2"}
    Backends = {"memory", "redis", "postgres"}
    Timeout = 2
    PollEvery = 1
    Ttl = 2
    ResultEnd = 4
    Queue = {"q", "r"}
    Brokers = {"memory", "redis", "amqp", "sqs"}
    Consumed = {"q"}
    Limits = {0, 1, 2}
    MaxWaiting = 1
    MaxDead = 2
    Msg <- MCMsg
    IdOf <- MCIdOf
    NameOf <- MCNameOf
    KeyOf <- MCKeyOf
    Registered = {"known"}
    Panics = {"a2"}
    Pipelines <- MCPipelines
    Buckets = {"global", "per_task"}
    Burst = 1
    MaxRetries = 1
    Nothing = Nothing
    Job <- MCJob
    KindOf <- MCKindOf
    CwdOf <- MCCwdOf
    ArgsCwdOf <- MCArgsCwdOf
    WorkerCwd = "worker"
    MaxFixAttempts = 1
    MaxConcurrent = 1
    MaxRestarts = 1
SPECIFICATION PartsSpec
\* A workflow ends, and all messages and tasks are settled.
CHECK_DEADLOCK FALSE
INVARIANTS
    WorkflowAsDrawn
    OccurrencesAnsweredOnce
    WaitAnswersTruly
    DelayIsExact
    ViewsMissNothing
    CountersBalance
    OneExecutionPerTtl
    NoTimingLeaks
    ProcessesLimited
    VerdictIsOnOwnCode

    
