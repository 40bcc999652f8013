-------------------------------- MODULE Agent --------------------------------
(***************************************************************************)
(* The tasks of kojin-agent: ClaudeCodeTask (task.rs) runs one claude      *)
(* process, SddTask (sdd.rs) generates code, tests it and has it fixed.    *)
(* Both start their processes through a SemaphoreRunner (concurrency.rs)   *)
(* around a ProcessRunner (runner.rs).  A process writes to its working    *)
(* directory, which is all that one step of a task hands to the next.      *)
(***************************************************************************)
EXTENDS Naturals, Sequences, FiniteSets, SequencesExt

CONSTANTS
    Job,            \* the tasks
    KindOf,         \* job -> "claude_code" or "sdd"
    CwdOf,          \* job -> SddTask.cwd, Nothing if it is not set
    ArgsCwdOf,      \* job -> args.cwd, Nothing if it is not set
    WorkerCwd,      \* the directory of the worker process
    MaxFixAttempts,
    MaxConcurrent,  \* permits of the SemaphoreRunner
    MaxRestarts,    \* bound: restarts of the worker
    Nothing

VARIABLES
    configured,     \* a ClaudeRunner is in the context of the worker
    broker_kind,    \* the broker of the worker, one of BrokerKinds
    job,            \* job -> pc, attempt, retries, life, tested
    waiters,        \* the semaphore's waiters, first come first served
    permits,        \* available_permits
    processes,      \* the running processes, with those nobody waits for
    files,          \* directory -> the process that wrote to it last
    restarts        \* restarts of the worker: the number of its present life

agentVars == <<configured, broker_kind, job, waiters, permits, processes, files, restarts>>

RetriesOf(j) == IF KindOf[j] = "sdd" THEN 0 ELSE 1

\* What becomes of a message: MemoryBroker keeps it in the process of the worker,
\* RedisBroker in a list named after the worker's life.  RabbitMQ and SQS keep the
\* body that was sent, and deliver that again after a nack or a restart.
BrokerKinds == {"memory", "redis", "redelivers"}

\* The locals of an execution.  A process is known by its task, the life of the
\* worker that started it and the number of fixes asked for before.
Fresh(retries) == [pc |-> "queued", attempt |-> 0, retries |-> retries, life |-> 0, tested |-> Nothing]

Dirs == ({CwdOf[j] : j \in Job} \cup {ArgsCwdOf[j] : j \in Job} \cup {WorkerCwd}) \ {Nothing}

-----------------------------------------------------------------------------
(* execute_task around the handler *)

\* handle_failure: a claude_code task has a retry, and sleeps before it.
Failed(j) ==
    IF job[j].retries < RetriesOf(j)
    THEN [Fresh(job[j].retries + 1) EXCEPT !.pc = "backoff"]
    ELSE [Fresh(0) EXCEPT !.pc = "dead"]

\* The message goes back to its queue, with the new retry count if the broker
\* stores what it is given.
Requeue(j) ==
    /\ job[j].pc = "backoff"
    /\ job' = [job EXCEPT ![j] = Fresh(IF broker_kind = "redelivers" THEN 0 ELSE job[j].retries)]
    /\ UNCHANGED <<configured, broker_kind, waiters, permits, processes, files, restarts>>

\* A worker starts the task, which has to find a ClaudeRunner.
Run(j) ==
    /\ job[j].pc = "queued"
    /\ job' = [job EXCEPT ![j] = IF configured THEN [@ EXCEPT !.pc = "acquire", !.life = restarts]
                                               ELSE Failed(j)]
    /\ waiters' = IF configured THEN Append(waiters, j) ELSE waiters
    /\ UNCHANGED <<configured, broker_kind, permits, processes, files, restarts>>

-----------------------------------------------------------------------------
(* SemaphoreRunner::run and ProcessRunner::run *)

OwnProcess(j) == [job |-> j, life |-> job[j].life, attempt |-> job[j].attempt]

\* The permit is held until ProcessRunner::run returns.
Spawn(j) ==
    /\ waiters # <<>> /\ Head(waiters) = j /\ permits > 0
    /\ permits' = permits - 1
    /\ waiters' = Tail(waiters)
    /\ job' = [job EXCEPT ![j].pc = "process"]
    /\ processes' = processes \cup {OwnProcess(j)}
    /\ UNCHANGED <<configured, broker_kind, files, restarts>>

\* Mutant of RunnerCwd: the arguments are used as they are.
RunnerCwdUnset(j) == IF ArgsCwdOf[j] # Nothing THEN ArgsCwdOf[j] ELSE WorkerCwd

\* The directory of the task goes before the one in its arguments.
RunnerCwd(j) == IF CwdOf[j] # Nothing THEN CwdOf[j] ELSE IF ArgsCwdOf[j] # Nothing THEN ArgsCwdOf[j] ELSE WorkerCwd

\* The test command does not look at the arguments.
TestCwd(j) == IF CwdOf[j] # Nothing THEN CwdOf[j] ELSE WorkerCwd

Written(p) == [files EXCEPT ![RunnerCwd(p.job)] = p]

\* Mutant of Released: an error returns before the permit is given back.
ReleasedOnSuccess(ok) == IF ok THEN permits + 1 ELSE permits

\* _permit is dropped on every way out.
Released(ok) == permits + 1

\* The process exits with success and readable JSON, or in any other way, and
\* has written files in both cases.
ProcessEnds(j, ok) ==
    /\ job[j].pc = "process"
    /\ processes' = processes \ {OwnProcess(j)}
    /\ files' = Written(OwnProcess(j))
    /\ permits' = Released(ok)
    /\ job' = [job EXCEPT ![j] =
          IF ~ok THEN Failed(j)
          ELSE IF KindOf[j] = "claude_code" THEN [Fresh(0) EXCEPT !.pc = "done"]
          ELSE [job[j] EXCEPT !.pc = "test"]]
    /\ UNCHANGED <<configured, broker_kind, waiters, restarts>>

\* The program cannot be started.
SpawnFails(j) ==
    /\ waiters # <<>> /\ Head(waiters) = j /\ permits > 0
    /\ waiters' = Tail(waiters)
    /\ job' = [job EXCEPT ![j] = Failed(j)]
    /\ UNCHANGED <<configured, broker_kind, permits, processes, files, restarts>>

-----------------------------------------------------------------------------
(* SddTask::run, after code was generated or fixed *)

TestPasses(j) ==
    /\ job[j].pc = "test"
    /\ job' = [job EXCEPT ![j].pc = "passed", ![j].tested = files[TestCwd(j)]]
    /\ UNCHANGED <<configured, broker_kind, waiters, permits, processes, files, restarts>>

LastAttempt(j) == job[j].attempt = MaxFixAttempts

\* The last iteration reports the failure, the others ask for a fix.
TestFails(j) ==
    /\ job[j].pc = "test"
    /\ job' = [job EXCEPT ![j] = IF LastAttempt(j)
                                 THEN [job[j] EXCEPT !.pc = "not_passed", !.tested = files[TestCwd(j)]]
                                 ELSE [job[j] EXCEPT !.pc = "acquire", !.attempt = @ + 1]]
    /\ waiters' = IF LastAttempt(j) THEN waiters ELSE Append(waiters, j)
    /\ UNCHANGED <<configured, broker_kind, permits, processes, files, restarts>>

\* The test command is empty or cannot be started: what was generated is lost.
TestErrs(j) ==
    /\ job[j].pc = "test"
    /\ job' = [job EXCEPT ![j] = Failed(j)]
    /\ UNCHANGED <<configured, broker_kind, waiters, permits, processes, files, restarts>>

-----------------------------------------------------------------------------
(* The worker process ends with tasks in flight, at the latest when the drain
   of a shutdown times out, and another one is started *)

InFlight(j) == job[j].pc \in {"acquire", "process", "test", "backoff"}

\* Nothing gives a message back: what the broker does with it decides.
AfterRestart(j) ==
    IF broker_kind = "memory" /\ (InFlight(j) \/ job[j].pc = "queued") THEN [Fresh(0) EXCEPT !.pc = "lost"]
    ELSE IF broker_kind = "redis" /\ InFlight(j) THEN [Fresh(0) EXCEPT !.pc = "stranded"]
    ELSE IF InFlight(j) THEN Fresh(0)
    ELSE job[j]

\* The futures and the semaphore go with the worker.  The processes do not,
\* kill_on_drop is not set.
Restart ==
    /\ restarts < MaxRestarts
    /\ restarts' = restarts + 1
    /\ permits' = MaxConcurrent /\ waiters' = <<>>
    /\ job' = [j \in Job |-> AfterRestart(j)]
    /\ UNCHANGED <<configured, broker_kind, processes, files>>

Orphans == {p \in processes : p.life # restarts}

OrphanEnds(p) ==
    /\ p \in Orphans
    /\ processes' = processes \ {p}
    /\ files' = Written(p)
    /\ UNCHANGED <<configured, broker_kind, job, waiters, permits, restarts>>

-----------------------------------------------------------------------------
AgentInit ==
    /\ configured \in BOOLEAN /\ broker_kind \in BrokerKinds
    /\ job = [j \in Job |-> Fresh(0)]
    /\ waiters = <<>> /\ permits = MaxConcurrent
    /\ processes = {} /\ restarts = 0
    /\ files = [d \in Dirs |-> Nothing]

Advance(j) ==
    \/ Run(j) \/ Requeue(j) \/ Spawn(j) \/ SpawnFails(j) \/ (\E ok \in BOOLEAN : ProcessEnds(j, ok))
    \/ TestPasses(j) \/ TestFails(j) \/ TestErrs(j)

AgentStep == \E j \in Job : Advance(j)

AgentNext == AgentStep \/ Restart \/ (\E p \in processes : OrphanEnds(p))

\* A queued task is started and a process or a test comes to an end.  For the
\* latter the user has to see: ProcessRunner and SddTask know no timeout.
AgentFairness == \A j \in Job : WF_agentVars(Advance(j))

AgentSpec == AgentInit /\ [][AgentNext]_agentVars

-----------------------------------------------------------------------------
(* Correctness *)

\* What the constants are.
AgentConstants ==
    /\ WorkerCwd # Nothing /\ Nothing \notin Job
    /\ Nothing \notin [job : Job, life : Nat, attempt : Nat]
    /\ MaxConcurrent \in Nat /\ MaxFixAttempts \in Nat

Settled == {"done", "passed", "not_passed", "dead"}

\* What is lost with the worker, and what no worker will ever look at.
Abandoned == {"lost", "stranded"}

AgentTypeOK ==
    /\ \A j \in Job : job[j].pc \in {"queued", "acquire", "process", "test", "backoff"} \cup Settled \cup Abandoned
    /\ permits \in 0..MaxConcurrent
    /\ waiters \in Seq(Job) /\ IsInjective(waiters)

\* At most MaxConcurrent processes run that a task waits for, and a permit that
\* no process holds is available again, whichever way a run ended.  Only the
\* processes that survive their worker come on top.
ProcessesLimited ==
    /\ Cardinality(processes \ Orphans) = MaxConcurrent - permits
    /\ Cardinality(processes) <= MaxConcurrent * (1 + restarts)

\* The verdict of an SddTask with a cwd is about its own last process, the one
\* that generated or last fixed the code.  What lay in the directory when the
\* tests ran may be of another process in two cases only: another task works in
\* the same directory, or a process of this one survived its worker.
VerdictIsOnOwnCode ==
    \A j \in Job : job[j].pc \in {"passed", "not_passed"} /\ CwdOf[j] # Nothing =>
        /\ job[j].tested # Nothing
        /\ \/ job[j].tested = OwnProcess(j)
           \/ job[j].tested.job # j /\ RunnerCwd(job[j].tested.job) = CwdOf[j]
           \/ job[j].tested.job = j /\ job[j].tested.life < job[j].life

\* sdd.rs:52 "Runs `test_command` to verify the generated code": what an SddTask
\* tests before it reports, it has written itself.  With no other task and no restart
\* a task that has its directory in args only, as sdd_sig makes it, breaks that.
VerifiesGeneratedCode ==
    \A j \in Job : job[j].pc \in {"passed", "not_passed"} => job[j].tested = OwnProcess(j)

\* Every task ends, none starves at the semaphore; or it goes with the worker that
\* is restarted; or it fails again and again, which takes a task with retries and a
\* broker that delivers the old count.  (What has ended stays so.)
Ends(j) ==
    \/ job[j].pc \in Settled
    \/ job[j].pc \in Abandoned /\ broker_kind # "redelivers"
    \/ job[j].pc = "backoff" /\ broker_kind = "redelivers" /\ RetriesOf(j) > 0

EveryTaskEnds == \A j \in Job : []<>Ends(j)
=============================================================================
