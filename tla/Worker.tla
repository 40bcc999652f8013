------------------------------- MODULE Worker -------------------------------
(***************************************************************************)
(* One kojin Worker (kojin-core/src/worker.rs) on a MemoryBroker and a     *)
(* MemoryResultBackend: the dequeue loop, the executions it spawns, the    *)
(* retry / dead-letter path, chain and chord continuations, cancellation   *)
(* and drain.  A step is what runs between two points where tokio may      *)
(* switch tasks: an await on a lock, a sleep, a broker or backend call.    *)
(*                                                                         *)
(* `Faults' names the broker and backend calls that may return Err without *)
(* an effect.  It is empty for the in-memory implementations, which never  *)
(* fail; any other value stands for another implementation of the traits.  *)
(***************************************************************************)
EXTENDS Naturals, Sequences, FiniteSets

CONSTANTS
    Task,           \* ids of the messages the program may ever enqueue
    Queue,          \* queue names
    Group,          \* ids of the groups and chords submitted
    Permit,         \* the semaphore's permits: WorkerConfig.concurrency of them
    None,           \* absence (Option::None)
    Order,          \* WorkerConfig.queues, in the order dequeue scans them
    QueueOf,        \* message.queue
    MaxRetries,     \* message.max_retries
    ChainNext,      \* first signature of the message's chain_next header
    GroupOf,        \* message.group_id
    ChordCallback,  \* the callback the members of a chord carry
    EtaTask,        \* messages submitted with an eta in the future
    PanicTask,      \* messages whose handler may panic
    Backend,        \* whether the worker has a result backend
    Faults          \* calls that may return Err

Calls == {"dequeue", "ack", "nack", "dead_letter", "schedule", "enqueue",
          "store", "complete_group_member", "get_group_results"}

ASSUME NoneAssumption == None \notin Task \cup Group \cup Permit

ASSUME ConfigAssumption ==
    /\ Order \in Seq(Queue)
    /\ QueueOf \in [Task -> Queue]
    /\ MaxRetries \in [Task -> Nat]
    /\ EtaTask \subseteq Task
    /\ PanicTask \subseteq Task
    /\ Backend \in BOOLEAN
    /\ Faults \subseteq Calls

ASSUME FiniteAssumption == IsFiniteSet(Task)

\* A continuation message is built for one predecessor only: Canvas::apply and
\* into_message give every message an id of its own, and the members of one
\* chord share one callback message.
ASSUME WorkflowAssumption ==
    /\ ChainNext \in [Task -> Task \cup {None}]
    /\ GroupOf \in [Task -> Group \cup {None}]
    /\ ChordCallback \in [Group -> Task \cup {None}]
    /\ \A s, t \in Task : ChainNext[s] = ChainNext[t] /\ ChainNext[s] # None => s = t
    /\ \A g, h \in Group :
          ChordCallback[g] = ChordCallback[h] /\ ChordCallback[g] # None => g = h
    /\ \A t \in Task, g \in Group : ChainNext[t] = ChordCallback[g] => ChainNext[t] = None

VARIABLES
    queues,         \* MemoryBroker.queues
    processing,     \* keys of MemoryBroker.processing
    dlq,            \* MemoryBroker.dlq
    notify,         \* MemoryBroker.notify holds a wake-up
    loop,           \* where Worker::run is
    grant,          \* the permit Worker::run holds, or None
    hand,           \* the message dequeue has popped and not yet tracked, or None
    cancelled,      \* the CancellationToken
    timedOut,       \* the drain ended at its deadline
    avail,          \* permits of the semaphore nobody holds
    pc,             \* per permit, where the execute_task that holds it is
    msg,            \* per permit, the message it executes, or None
    gathered,       \* per permit, the group results read for the callback
    due,            \* EtaTasks whose eta has passed
    results,        \* MemoryResultBackend.results: tasks with a stored result
    completed,      \* GroupState.completed
    groupResults,   \* GroupState.results: the members, in order of completion
    sent,           \* history: messages enqueued for the first time
    done,           \* history: messages whose handler returned Ok
    dropped,        \* history: messages whose only copy was discarded
    runs            \* history: how often a message's handler was started

brokerVars  == <<queues, processing, dlq, notify>>
loopVars    == <<loop, grant, hand, timedOut>>
execVars    == <<pc, msg, gathered>>
backendVars == <<results, completed, groupResults>>
envVars     == <<cancelled, due>>
histVars    == <<sent, done, dropped, runs>>
vars == <<brokerVars, loopVars, avail, execVars, backendVars, envVars, histVars>>

-----------------------------------------------------------------------------
(* Messages and workflows *)

\* The parts of a TaskMessage the worker changes or acts on: a payload is
\* represented by the tasks whose results its chain_input or group_results
\* header carries.
Message == [id : Task, retries : Nat, input : Seq(Task)]

NewMessage(t, input) == [id |-> t, retries |-> 0, input |-> input]

Members(g) == {t \in Task : GroupOf[t] = g}

\* message.group_total
GroupTotal(g) == Cardinality(Members(g))

Continuations == {ChainNext[t] : t \in Task} \cup {ChordCallback[g] : g \in Group}

\* What Canvas::apply and direct submissions enqueue; the rest is enqueued by
\* the worker itself.
Root == Task \ Continuations

LoopStates == {"check", "acquire", "dequeue", "track", "wait", "backoff",
               "drain", "stopped"}

ExecStates == {"idle", "start", "resched", "dispatch", "fail", "backoff",
               "requeue", "bury", "dlq_push", "ack", "store", "group",
               "gather", "callback", "chain"}

\* Steps execute_task reaches only after the handler returned Ok.
AfterSuccess == {"ack", "store", "group", "gather", "callback", "chain"}

TypeOK ==
    /\ queues \in [Queue -> Seq(Message)]
    /\ processing \subseteq Task
    /\ dlq \in [Queue -> Seq(Message)]
    /\ notify \in BOOLEAN
    /\ loop \in LoopStates
    /\ IF loop \in {"dequeue", "track", "wait"} THEN grant \in Permit ELSE grant = None
    /\ IF loop = "track" THEN hand \in Message ELSE hand = None
    /\ cancelled \in BOOLEAN
    /\ timedOut \in BOOLEAN
    /\ avail \subseteq Permit
    /\ pc \in [Permit -> ExecStates]
    /\ msg \in [Permit -> Message \cup {None}]
    /\ \A p \in Permit : pc[p] # "idle" => msg[p] \in Message
    /\ gathered \in [Permit -> Seq(Task)]
    /\ due \subseteq EtaTask
    /\ results \subseteq Task
    /\ completed \in [Group -> Nat]
    /\ groupResults \in [Group -> Seq(Task)]
    /\ sent \subseteq Task
    /\ done \subseteq Task
    /\ dropped \subseteq Task
    /\ runs \in [Task -> Nat]

-----------------------------------------------------------------------------
(* MemoryBroker *)

\* enqueue waits for the lock on the queues, which dequeue keeps while it
\* waits to record the message it has popped.
Enqueue(m) ==
    /\ loop # "track"
    /\ queues' = [queues EXCEPT ![QueueOf[m.id]] = Append(@, m)]
    /\ notify' = TRUE

\* ack, and the first half of nack and of dead_letter.
Remove(t) == processing' = processing \ {t}

\* The call may return Err and leave the broker as it was.
Fails(call) == call \in Faults

TryAck(t) == Remove(t) \/ (Fails("ack") /\ UNCHANGED processing)

-----------------------------------------------------------------------------
(* Clients and clock *)

\* Broker::enqueue by a client or by Canvas::apply, which has called
\* init_group before it enqueues the first member of a group.
Submit(t) ==
    /\ t \in Root \ sent
    /\ Enqueue(NewMessage(t, <<>>))
    /\ sent' = sent \cup {t}
    /\ UNCHANGED <<processing, dlq, loopVars, avail, execVars, backendVars,
                   envVars, done, dropped, runs>>

EtaPasses(t) ==
    /\ t \in EtaTask \ due
    /\ due' = due \cup {t}
    /\ UNCHANGED <<brokerVars, loopVars, avail, execVars, backendVars,
                   cancelled, histVars>>

\* cancel_token().cancel(): a signal handler or the program asks for shutdown.
Cancel ==
    /\ ~cancelled
    /\ cancelled' = TRUE
    /\ UNCHANGED <<brokerVars, loopVars, avail, execVars, backendVars, due,
                   histVars>>

-----------------------------------------------------------------------------
(* Worker::run *)

\* Mutant of CheckCancel: the loop starts over without looking at the token.
CheckNothing ==
    /\ loop = "check"
    /\ loop' = "acquire"
    /\ UNCHANGED <<brokerVars, grant, hand, timedOut, avail, execVars,
                   backendVars, envVars, histVars>>

CheckCancel ==
    /\ loop = "check"
    /\ loop' = IF cancelled THEN "drain" ELSE "acquire"
    /\ UNCHANGED <<brokerVars, grant, hand, timedOut, avail, execVars,
                   backendVars, envVars, histVars>>

Acquire ==
    /\ loop = "acquire"
    /\ \E p \in avail : grant' = p /\ avail' = avail \ {p}
    /\ loop' = "dequeue"
    /\ UNCHANGED <<brokerVars, hand, timedOut, execVars, backendVars, envVars,
                   histVars>>

\* Mutant of DropPermit: the permit is given back but still held.
DropPermitTwice(next) ==
    /\ loop' = next
    /\ grant' = grant
    /\ avail' = avail \cup {grant}

\* Drop the permit (RAII) and go on at `next'.
DropPermit(next) ==
    /\ loop' = next
    /\ grant' = None
    /\ avail' = avail \cup {grant}

\* MemoryBroker::dequeue pops from the first non-empty queue in the worker's
\* order, then waits, with the queues locked, for the lock on `processing'.
Pop ==
    /\ loop = "dequeue"
    /\ \E i \in DOMAIN Order :
          /\ queues[Order[i]] # <<>>
          /\ \A j \in 1..(i - 1) : queues[Order[j]] = <<>>
          /\ hand' = Head(queues[Order[i]])
          /\ queues' = [queues EXCEPT ![Order[i]] = Tail(@)]
    /\ loop' = "track"
    /\ UNCHANGED <<processing, dlq, notify, grant, timedOut, avail, execVars,
                   backendVars, envVars, histVars>>

\* Mutant of TrackAndSpawn: the permit is not moved into the spawned task.
SpawnWithoutPermit ==
    /\ loop = "track"
    /\ processing' = processing \cup {hand.id}
    /\ pc' = [pc EXCEPT ![grant] = "start"]
    /\ msg' = [msg EXCEPT ![grant] = hand]
    /\ avail' = avail \cup {grant}
    /\ loop' = "check"
    /\ grant' = None
    /\ hand' = None
    /\ UNCHANGED <<queues, dlq, notify, timedOut, gathered, backendVars,
                   envVars, histVars>>

\* dequeue records the message and returns; the loop spawns execute_task,
\* which takes the permit over.
TrackAndSpawn ==
    /\ loop = "track"
    /\ processing' = processing \cup {hand.id}
    /\ pc' = [pc EXCEPT ![grant] = "start"]
    /\ msg' = [msg EXCEPT ![grant] = hand]
    /\ loop' = "check"
    /\ grant' = None
    /\ hand' = None
    /\ UNCHANGED <<queues, dlq, notify, timedOut, avail, gathered, backendVars,
                   envVars, histVars>>

\* Every queue is empty: dequeue waits for a notification.
FindNothing ==
    /\ loop = "dequeue"
    /\ \A i \in DOMAIN Order : queues[Order[i]] = <<>>
    /\ loop' = "wait"
    /\ UNCHANGED <<brokerVars, grant, hand, timedOut, avail, execVars,
                   backendVars, envVars, histVars>>

Notified ==
    /\ loop = "wait"
    /\ notify
    /\ notify' = FALSE
    /\ loop' = "dequeue"
    /\ UNCHANGED <<queues, processing, dlq, grant, hand, timedOut, avail,
                   execVars, backendVars, envVars, histVars>>

\* Mutant of DequeueTimeout: the timeout is put around the whole dequeue and
\* cuts it off wherever it is.
TimeoutAnywhere ==
    /\ loop \in {"wait", "track"}
    /\ DropPermit("check")
    /\ hand' = None
    /\ dropped' = IF loop = "track" THEN dropped \cup {hand.id} ELSE dropped
    /\ UNCHANGED <<brokerVars, timedOut, execVars, backendVars, envVars, sent,
                   done, runs>>

DequeueTimeout ==
    /\ loop = "wait"
    /\ DropPermit("check")
    /\ UNCHANGED <<brokerVars, hand, timedOut, execVars, backendVars, envVars,
                   histVars>>

\* dequeue returned Err: drop the permit and sleep.
DequeueError ==
    /\ loop = "dequeue"
    /\ Fails("dequeue")
    /\ DropPermit("backoff")
    /\ UNCHANGED <<brokerVars, hand, timedOut, execVars, backendVars, envVars,
                   histVars>>

EndBackoff ==
    /\ loop = "backoff"
    /\ loop' = "check"
    /\ UNCHANGED <<brokerVars, grant, hand, timedOut, avail, execVars,
                   backendVars, envVars, histVars>>

CancelAcquire ==
    /\ loop = "acquire"
    /\ cancelled
    /\ loop' = "drain"
    /\ UNCHANGED <<brokerVars, grant, hand, timedOut, avail, execVars,
                   backendVars, envVars, histVars>>

\* select! drops the dequeue future where it is suspended, and with it the
\* message it may have popped.
CancelDequeue ==
    /\ loop \in {"dequeue", "track", "wait"}
    /\ cancelled
    /\ DropPermit("drain")
    /\ hand' = None
    /\ dropped' = IF loop = "track" THEN dropped \cup {hand.id} ELSE dropped
    /\ UNCHANGED <<brokerVars, timedOut, execVars, backendVars, envVars, sent,
                   done, runs>>

Drained ==
    /\ loop = "drain"
    /\ avail = Permit
    /\ loop' = "stopped"
    /\ UNCHANGED <<brokerVars, grant, hand, timedOut, avail, execVars,
                   backendVars, envVars, histVars>>

\* shutdown_timeout is over with executions in flight.  They are not aborted:
\* the tasks are detached and go on as long as the runtime does.
DrainTimeout ==
    /\ loop = "drain"
    /\ avail # Permit
    /\ loop' = "stopped"
    /\ timedOut' = TRUE
    /\ UNCHANGED <<brokerVars, grant, hand, avail, execVars, backendVars,
                   envVars, histVars>>

Run ==
    \/ CheckCancel \/ Acquire \/ Pop \/ TrackAndSpawn \/ FindNothing
    \/ Notified \/ DequeueTimeout \/ DequeueError \/ EndBackoff
    \/ CancelAcquire \/ CancelDequeue \/ Drained \/ DrainTimeout

-----------------------------------------------------------------------------
(* execute_task, for the execution that holds permit p *)

Id(p) == msg[p].id

Goto(p, step) ==
    /\ pc' = [pc EXCEPT ![p] = step]
    /\ UNCHANGED <<msg, avail>>

\* execute_task returns and the spawned task drops its permit.
Return(p) ==
    /\ pc' = [pc EXCEPT ![p] = "idle"]
    /\ msg' = [msg EXCEPT ![p] = None]
    /\ avail' = avail \cup {p}

\* The ETA guard acknowledges the message before it schedules it again.
EtaGuard(p) ==
    /\ pc[p] = "start"
    /\ Id(p) \in EtaTask \ due
    /\ TryAck(Id(p))
    /\ Goto(p, "resched")
    /\ UNCHANGED <<queues, dlq, notify, loopVars, gathered, backendVars,
                   envVars, histVars>>

\* MemoryBroker::schedule enqueues at once, whatever the eta.
Reschedule(p) ==
    /\ pc[p] = "resched"
    /\ \/ Enqueue(msg[p]) /\ UNCHANGED dropped
       \/ /\ Fails("schedule")
          /\ dropped' = IF Id(p) \in processing THEN dropped ELSE dropped \cup {Id(p)}
          /\ UNCHANGED <<queues, notify>>
    /\ Return(p)
    /\ UNCHANGED <<processing, dlq, loopVars, gathered, backendVars, envVars,
                   sent, done, runs>>

\* Mutant of Before: a failing before() returns without handle_failure.
BeforeReturns(p) ==
    /\ pc[p] = "start"
    /\ Id(p) \notin EtaTask \ due
    /\ Goto(p, "dispatch") \/ Return(p)
    /\ UNCHANGED <<brokerVars, loopVars, gathered, backendVars, envVars,
                   histVars>>

\* The before() middlewares: all pass, or one of them returns Err.
Before(p) ==
    /\ pc[p] = "start"
    /\ Id(p) \notin EtaTask \ due
    /\ Goto(p, "dispatch") \/ Goto(p, "fail")
    /\ UNCHANGED <<brokerVars, loopVars, gathered, backendVars, envVars,
                   histVars>>

DispatchOk(p) ==
    /\ pc[p] = "dispatch"
    /\ runs' = [runs EXCEPT ![Id(p)] = @ + 1]
    /\ done' = done \cup {Id(p)}
    /\ Goto(p, "ack")
    /\ UNCHANGED <<brokerVars, loopVars, gathered, backendVars, envVars, sent,
                   dropped>>

DispatchErr(p) ==
    /\ pc[p] = "dispatch"
    /\ runs' = [runs EXCEPT ![Id(p)] = @ + 1]
    /\ Goto(p, "fail")
    /\ UNCHANGED <<brokerVars, loopVars, gathered, backendVars, envVars, sent,
                   done, dropped>>

\* A panic unwinds the spawned task: the permit is dropped, nothing is called.
DispatchPanic(p) ==
    /\ pc[p] = "dispatch"
    /\ Id(p) \in PanicTask
    /\ runs' = [runs EXCEPT ![Id(p)] = @ + 1]
    /\ Return(p)
    /\ UNCHANGED <<brokerVars, loopVars, gathered, backendVars, envVars, sent,
                   done, dropped>>

\* The step after the group block, and the one after store().
ChainStep(t) == IF ChainNext[t] # None THEN "chain" ELSE "idle"

GroupStep(t) == IF GroupOf[t] # None THEN "group" ELSE ChainStep(t)

Proceed(p, step) == IF step = "idle" THEN Return(p) ELSE Goto(p, step)

\* Mutant of Ack: the continuation does not wait for store().
AckThenContinue(p) ==
    /\ pc[p] = "ack"
    /\ TryAck(Id(p))
    /\ Proceed(p, IF Backend THEN GroupStep(Id(p)) ELSE "idle")
    /\ UNCHANGED <<queues, dlq, notify, loopVars, gathered, backendVars,
                   envVars, histVars>>

\* Without a result backend execute_task is done once it has acknowledged.
Ack(p) ==
    /\ pc[p] = "ack"
    /\ TryAck(Id(p))
    /\ Proceed(p, IF Backend THEN "store" ELSE "idle")
    /\ UNCHANGED <<queues, dlq, notify, loopVars, gathered, backendVars,
                   envVars, histVars>>

Store(p) ==
    /\ pc[p] = "store"
    /\ \/ results' = results \cup {Id(p)}
       \/ Fails("store") /\ UNCHANGED results
    /\ Proceed(p, GroupStep(Id(p)))
    /\ UNCHANGED <<brokerVars, loopVars, gathered, completed, groupResults,
                   envVars, histVars>>

\* Mutants of IsLastMember: an off-by-one below, and the count as it was
\* before the member completed.
IsAlmostLast(g) == completed[g] + 2 >= GroupTotal(g)

WasLastMember(g) == completed[g] = GroupTotal(g)

\* The member whose completion makes the count equal to group_total goes on to
\* enqueue the callback, if the group is a chord.
IsLastMember(g) == completed[g] + 1 = GroupTotal(g)

CompleteGroupMember(p) ==
    /\ pc[p] = "group"
    /\ LET g == GroupOf[Id(p)] IN
          \/ /\ completed' = [completed EXCEPT ![g] = @ + 1]
             /\ groupResults' = [groupResults EXCEPT ![g] = Append(@, Id(p))]
             /\ IF IsLastMember(g) /\ ChordCallback[g] # None
                THEN Goto(p, "gather")
                ELSE Proceed(p, ChainStep(Id(p)))
          \/ /\ Fails("complete_group_member")
             /\ Proceed(p, ChainStep(Id(p)))
             /\ UNCHANGED <<completed, groupResults>>
    /\ UNCHANGED <<brokerVars, loopVars, gathered, results, envVars, histVars>>

GetGroupResults(p) ==
    /\ pc[p] = "gather"
    /\ \/ gathered' = [gathered EXCEPT ![p] = groupResults[GroupOf[Id(p)]]]
       \/ Fails("get_group_results") /\ UNCHANGED gathered
    /\ Goto(p, "callback")
    /\ UNCHANGED <<brokerVars, loopVars, backendVars, envVars, histVars>>

\* A continuation is enqueued, or is lost with a failing enqueue.
Continue(m) ==
    \/ Enqueue(m) /\ sent' = sent \cup {m.id}
    \/ Fails("enqueue") /\ UNCHANGED <<queues, notify, sent>>

EnqueueCallback(p) ==
    /\ pc[p] = "callback"
    /\ Continue(NewMessage(ChordCallback[GroupOf[Id(p)]], gathered[p]))
    /\ gathered' = [gathered EXCEPT ![p] = <<>>]
    /\ Proceed(p, ChainStep(Id(p)))
    /\ UNCHANGED <<processing, dlq, loopVars, backendVars, envVars, done,
                   dropped, runs>>

EnqueueChainNext(p) ==
    /\ pc[p] = "chain"
    /\ Continue(NewMessage(ChainNext[Id(p)], <<Id(p)>>))
    /\ Return(p)
    /\ UNCHANGED <<processing, dlq, loopVars, gathered, backendVars, envVars,
                   done, dropped, runs>>

-----------------------------------------------------------------------------
(* handle_failure, for the execution that holds permit p *)

\* Mutant of MayRetry: one retry too many.
MayRetryOffByOne(m) == m.retries <= MaxRetries[m.id]

MayRetry(m) == m.retries < MaxRetries[m.id]

Retried(m) == [m EXCEPT !.retries = @ + 1]

\* Mutant of HandleFailure: the message is acknowledged before the backoff.
AckBeforeBackoff(p) ==
    /\ pc[p] = "fail"
    /\ IF MayRetry(msg[p])
       THEN /\ pc' = [pc EXCEPT ![p] = "backoff"]
            /\ msg' = [msg EXCEPT ![p] = Retried(@)]
            /\ Remove(Id(p))
       ELSE /\ pc' = [pc EXCEPT ![p] = "bury"]
            /\ UNCHANGED <<msg, processing>>
    /\ UNCHANGED <<queues, dlq, notify, loopVars, avail, gathered, backendVars,
                   envVars, histVars>>

\* Count the retry and sleep for the backoff, or give the message up.
HandleFailure(p) ==
    /\ pc[p] = "fail"
    /\ IF MayRetry(msg[p])
       THEN /\ pc' = [pc EXCEPT ![p] = "backoff"]
            /\ msg' = [msg EXCEPT ![p] = Retried(@)]
       ELSE /\ pc' = [pc EXCEPT ![p] = "bury"]
            /\ UNCHANGED msg
    /\ UNCHANGED <<brokerVars, loopVars, avail, gathered, backendVars, envVars,
                   histVars>>

\* Mutant of Nack: the message is removed and not enqueued again.
NackOnly(p) ==
    /\ pc[p] = "backoff"
    /\ Remove(Id(p))
    /\ Return(p)
    /\ UNCHANGED <<queues, dlq, notify, loopVars, gathered, backendVars,
                   envVars, histVars>>

\* After the sleep, nack removes the message from `processing' ...
Nack(p) ==
    /\ pc[p] = "backoff"
    /\ \/ Remove(Id(p)) /\ Goto(p, "requeue")
       \/ Fails("nack") /\ Return(p) /\ UNCHANGED processing
    /\ UNCHANGED <<queues, dlq, notify, loopVars, gathered, backendVars,
                   envVars, histVars>>

\* ... and then waits for the lock on the queues to enqueue it again.
Requeue(p) ==
    /\ pc[p] = "requeue"
    /\ Enqueue(msg[p])
    /\ Return(p)
    /\ UNCHANGED <<processing, dlq, loopVars, gathered, backendVars, envVars,
                   histVars>>

\* dead_letter removes the message from `processing' ...
DeadLetter(p) ==
    /\ pc[p] = "bury"
    /\ \/ Remove(Id(p)) /\ Goto(p, "dlq_push")
       \/ Fails("dead_letter") /\ Return(p) /\ UNCHANGED processing
    /\ UNCHANGED <<queues, dlq, notify, loopVars, gathered, backendVars,
                   envVars, histVars>>

\* ... and then takes the lock on the dead-letter queues.
DlqPush(p) ==
    /\ pc[p] = "dlq_push"
    /\ dlq' = [dlq EXCEPT ![QueueOf[Id(p)]] = Append(@, msg[p])]
    /\ Return(p)
    /\ UNCHANGED <<queues, processing, notify, loopVars, gathered, backendVars,
                   envVars, histVars>>

ExecuteTask(p) ==
    \/ EtaGuard(p) \/ Reschedule(p) \/ Before(p)
    \/ DispatchOk(p) \/ DispatchErr(p) \/ DispatchPanic(p)
    \/ Ack(p) \/ Store(p) \/ CompleteGroupMember(p) \/ GetGroupResults(p)
    \/ EnqueueCallback(p) \/ EnqueueChainNext(p)
    \/ HandleFailure(p) \/ Nack(p) \/ Requeue(p) \/ DeadLetter(p) \/ DlqPush(p)

-----------------------------------------------------------------------------
(* Specification *)

Init ==
    /\ queues = [q \in Queue |-> <<>>]
    /\ processing = {}
    /\ dlq = [q \in Queue |-> <<>>]
    /\ notify = FALSE
    /\ loop = "check"
    /\ grant = None
    /\ hand = None
    /\ cancelled = FALSE
    /\ timedOut = FALSE
    /\ avail = Permit
    /\ pc = [p \in Permit |-> "idle"]
    /\ msg = [p \in Permit |-> None]
    /\ gathered = [p \in Permit |-> <<>>]
    /\ due = {}
    /\ results = {}
    /\ completed = [g \in Group |-> 0]
    /\ groupResults = [g \in Group |-> <<>>]
    /\ sent = {}
    /\ done = {}
    /\ dropped = {}
    /\ runs = [t \in Task |-> 0]

Next ==
    \/ \E t \in Task : Submit(t) \/ EtaPasses(t)
    \/ Cancel
    \/ Run
    \/ \E p \in Permit : ExecuteTask(p)

Spec == Init /\ [][Next]_vars

\* The runtime polls every task that is ready, and time passes.  Fairness of an
\* execution is strong because an enqueue competes with dequeue for the lock on
\* the queues, which tokio's Mutex hands out first come, first served.
Fairness ==
    /\ WF_vars(Run)
    /\ \A p \in Permit : SF_vars(ExecuteTask(p))
    /\ \A t \in Task : WF_vars(EtaPasses(t))

FairSpec == Spec /\ Fairness

-----------------------------------------------------------------------------
(* Correctness *)

Ids(s) == {s[i].id : i \in DOMAIN s}

Queued == UNION {Ids(queues[q]) : q \in Queue}

DeadLettered == UNION {Ids(dlq[q]) : q \in Queue}

InHand == IF loop = "track" THEN {hand.id} ELSE {}

InFlight == {p \in Permit : pc[p] # "idle"}

\* Messages in an execution that has not settled them yet.
Executing == {Id(p) : p \in {r \in InFlight : pc[r] \notin AfterSuccess}}

\* Conservation.  Whatever the interleaving of dequeue, retries, continuations
\* and shutdown, a message that was enqueued is queued, popped, executing,
\* dead-lettered or successful, or is still recorded in `processing' (where a
\* panic or a failing broker call left it), or was dropped by one of the two
\* steps that discard a message: cancelling a dequeue that has popped it, and a
\* failing schedule() after the ETA guard's ack.
NoTaskVanishes ==
    sent \subseteq Queued \cup InHand \cup Executing \cup DeadLettered \cup done
                   \cup processing \cup dropped

\* No id is twice in the queues, nor in two executions.
QueueUnique ==
    \A q, r \in Queue : \A i \in DOMAIN queues[q], j \in DOMAIN queues[r] :
        queues[q][i].id = queues[r][j].id => q = r /\ i = j

ExecutionUnique == \A p, r \in InFlight : Id(p) = Id(r) => p = r

\* No duplication.  A message is in at most one place of one queue, and never
\* in two executions, or queued while it executes or after it was settled: in
\* particular a chord callback or a chain successor is enqueued at most once.
SingleCopy ==
    /\ QueueUnique
    /\ ExecutionUnique
    /\ Queued \cap (InHand \cup Executing \cup DeadLettered \cup done \cup dropped) = {}
    /\ InHand \cap (Executing \cup DeadLettered \cup done \cup dropped) = {}
    /\ Executing \cap (DeadLettered \cup done \cup dropped) = {}
    /\ DeadLettered \cap (done \cup dropped) = {}

\* Retry budget.  The handler of a message runs at most max_retries + 1 times
\* over all its deliveries, and handle_failure dead-letters a message only
\* when it has used every retry it had.
RetryBudget ==
    /\ \A t \in Task : runs[t] <= MaxRetries[t] + 1
    /\ \A q \in Queue : \A i \in DOMAIN dlq[q] :
          dlq[q][i].retries = MaxRetries[dlq[q][i].id]

\* Until execute_task has acknowledged, requeued or dead-lettered the message
\* it runs, and all through the backoff sleep, the broker has it in
\* `processing': the only place from which an abandoned message is recoverable.
InFlightIsTracked ==
    \A p \in InFlight :
        pc[p] \in {"start", "dispatch", "fail", "backoff", "bury", "ack"}
            => Id(p) \in processing

\* A drain that did not time out leaves nothing behind: no execution is in
\* flight when the worker has stopped, and nothing is left in `processing'
\* but what a panic or a failing broker call abandoned there.
CleanDrain ==
    loop = "stopped" /\ ~timedOut =>
        /\ InFlight = {}
        /\ PanicTask = {} /\ Faults = {} => processing = {}

\* Shutdown loses at most one message, the one whose dequeue it cancelled, and
\* without a shutdown (and without a failing schedule) none is lost.
BoundedLoss ==
    "schedule" \notin Faults /\ dropped # {} =>
        /\ cancelled
        /\ loop \in {"drain", "stopped"}
        /\ \A s, t \in dropped : s = t

\* All messages with id t, wherever they are.
Copies(t) ==
    {m \in (UNION {{queues[q][i] : i \in DOMAIN queues[q]} : q \in Queue})
           \cup (IF loop = "track" THEN {hand} ELSE {})
           \cup {msg[p] : p \in InFlight} : m.id = t}

\* A chord callback exists only after every member of the group succeeded, and
\* it carries the result of each member exactly once, whichever member the
\* worker finished last.
CallbackSeesAllResults ==
    \A g \in Group : ChordCallback[g] \in sent =>
        /\ Members(g) \subseteq done
        /\ "get_group_results" \notin Faults =>
              \A m \in Copies(ChordCallback[g]) :
                  /\ {m.input[i] : i \in DOMAIN m.input} = Members(g)
                  /\ Len(m.input) = GroupTotal(g)

\* A continuation starts from finished work: when a chain successor or a chord
\* callback has been enqueued, the results of its predecessors can be read
\* from the result backend.
ResultsBeforeContinuation ==
    "store" \notin Faults =>
        /\ \A t \in Task : ChainNext[t] \in sent => t \in results
        /\ \A g \in Group : ChordCallback[g] \in sent => Members(g) \subseteq results

\* Both: whatever the order in which members and steps end, a continuation goes
\* out with all it follows done, stored and, for a chord, gathered once each.
ContinuationsSeeResults == CallbackSeesAllResults /\ ResultsBeforeContinuation

\* Every message that was enqueued is eventually successful or dead-lettered,
\* however often it fails and whatever its eta, unless the worker is shut down.
EventuallySettled == <>[](cancelled \/ sent \subseteq done \cup DeadLettered)

\* A shutdown request ends the worker, also with executions in flight.
ShutdownCompletes == cancelled ~> loop = "stopped"

\* A message whose handler returned Ok is followed up, whatever fails or is
\* cancelled meanwhile: its chain successor is enqueued, and so is the callback
\* of a chord once all its members have succeeded.
ContinuationsFire ==
    <>[](/\ \A t \in done : ChainNext[t] # None => ChainNext[t] \in sent
         /\ \A g \in Group :
              ChordCallback[g] # None /\ Members(g) # {} /\ Members(g) \subseteq done
                  => ChordCallback[g] \in sent)

=============================================================================
