----------------------------- MODULE AmqpBroker -----------------------------
(***************************************************************************)
(* Workers on RabbitMQ (kojin-amqp/src/broker.rs): per queue a channel and *)
(* a consumer loop that records the delivery tag and passes the message to *)
(* dequeue through an mpsc channel; ack, nack and dead_letter, which       *)
(* resolve the tag; schedule through the delayed exchange; and the paging  *)
(* of a dead-letter queue.  A channel may close under its worker, and      *)
(* RabbitMQ then gives what the channel had not resolved to anyone.        *)
(*                                                                         *)
(* RabbitMQ may deliver any ready message: priorities and the position of  *)
(* a requeued message only choose among them.                              *)
(***************************************************************************)
EXTENDS Naturals, Sequences, FiniteSets, Functions

CONSTANTS
    Task, Queue, Worker,
    Queues,         \* per worker, the queues it is made for
    QueueOf,        \* message.queue
    MaxRetries,     \* message.max_retries
    Delayed,        \* tasks that have an eta in the future
    Far,            \* those whose delay in ms does not fit an i32
    Garbage,        \* bodies that are no TaskMessage
    Prefetch,       \* config.prefetch_count
    Concurrency,    \* permits of a worker
    MaxCopies,      \* bound: the copies of a message RabbitMQ holds at once
    MaxFailures,    \* bound: failed runs are counted up to here, per task
    MaxClosed,      \* bound: channels that close
    None

ASSUME AmqpAssumption ==
    /\ QueueOf \in [Task -> Queue]
    /\ Queues \in [Worker -> SUBSET Queue]
    /\ MaxRetries \in [Task -> Nat]
    /\ Far \subseteq Delayed /\ Delayed \cup Garbage \subseteq Task
    /\ Delayed \cap Garbage = {}
    /\ IsFiniteSet(Task) /\ IsFiniteSet(Queue)
    /\ Prefetch \in Nat \ {0} /\ Concurrency \in Nat \ {0}
    /\ MaxCopies \in Nat /\ MaxFailures \in Nat
    /\ \A t \in Task : MaxRetries[t] < MaxFailures

VARIABLES
    plugin,         \* the delayed exchange exists
    msgs,           \* what RabbitMQ holds
    chan,           \* per channel: "none", "open", "closed"
    consuming,      \* per worker: the queues ensure_consumer has registered
    loop,           \* the channels whose consumer loop runs
    inbox,          \* what RabbitMQ has delivered and the loops have not read
    hand,           \* what a loop has recorded the tag of and is sending on
    deliveries,     \* per worker: TaskId -> (channel, tag)
    mpsc,           \* per worker: from the consumer loops to dequeue
    jobs,           \* per worker: the executions in flight
    publishing,     \* per worker: publish_channel is open
    due,            \* tasks whose eta has passed
    failures,       \* per task: how often its handler has failed, over all runs
    fate            \* per task: what became of it

rabbit == <<plugin, msgs, chan>>
brokerVars == <<consuming, loop, inbox, hand, deliveries, mpsc, publishing>>
vars == <<rabbit, brokerVars, jobs, due, failures, fate>>

Channel == {c \in Worker \X Queue : c[2] \in Queues[c[1]]}
Slot == Task \X (1..MaxCopies)
Places == {"ready", "unacked", "delayed", "dlq", "got"}
Message == [task : Task, retries : Nat, place : Places,
            chan : Channel \cup {None}, tag : Nat]
Steps == {"run", "etaAck", "schedule", "ack", "backoff", "bury"}

\* A delivery, and an execution, which knows task and retries only: chan and
\* tag say which delivery it stems from.
Delivery == [task : Task, retries : Nat, chan : Channel, tag : Nat]
Job == [task : Task, retries : Nat, step : Steps, chan : Channel, tag : Nat]

ASSUME NoneAssumption == None \notin Message \cup Channel \cup (Channel \X Nat)

TypeOK ==
    /\ plugin \in BOOLEAN
    /\ msgs \in [Slot -> Message \cup {None}]
    /\ chan \in [Channel -> {"none", "open", "closed"}]
    /\ consuming \in [Worker -> SUBSET Queue]
    /\ loop \subseteq Channel /\ inbox \cup hand \subseteq Delivery
    /\ deliveries \in [Worker -> [Task -> (Channel \X Nat) \cup {None}]]
    /\ mpsc \in [Worker -> Seq(Delivery)]
    /\ jobs \in [Worker -> SUBSET Job]
    /\ \A w \in Worker : Cardinality(jobs[w]) <= Concurrency
    /\ publishing \subseteq Worker
    /\ due \subseteq Task
    /\ failures \in [Task -> 0..MaxFailures]
    /\ fate \in [Task -> {"new", "sent", "done", "dropped"}]

Held == {s \in Slot : msgs[s] # None}
At(place) == {s \in Held : msgs[s].place = place}
Unacked(c) == {s \in Held : msgs[s].chan = c}
Tagged(c, n) == {s \in Unacked(c) : msgs[s].tag = n}
Fresh(t, retries, place) ==
    [task |-> t, retries |-> retries, place |-> place, chan |-> None, tag |-> 0]
Publish(t, retries, place) ==
    \E k \in 1..MaxCopies :
        /\ <<t, k>> \notin Held /\ \A i \in 1..(k - 1) : <<t, i>> \in Held
        /\ msgs' = [msgs EXCEPT ![<<t, k>>] = Fresh(t, retries, place)]
Moved(m, place) == Fresh(m.task, m.retries, place)

-----------------------------------------------------------------------------
(* Producers and RabbitMQ *)

\* enqueue: a publish to the direct exchange; a foreign producer may publish
\* anything.
Enqueue(t) ==
    /\ fate[t] = "new"
    /\ Publish(t, 0, "ready")
    /\ fate' = [fate EXCEPT ![t] = "sent"]
    /\ UNCHANGED <<plugin, chan, brokerVars, jobs, due, failures>>

EtaPasses(t) ==
    /\ t \in Delayed \ due
    /\ due' = due \cup {t}
    /\ UNCHANGED <<rabbit, brokerVars, jobs, failures, fate>>

\* The delayed exchange routes the message when x-delay is over; a delay that
\* the cast to i32 has made negative is over at once.
Release(s) ==
    /\ s \in At("delayed")
    /\ msgs[s].task \in due \cup Far
    /\ msgs' = [msgs EXCEPT ![s] = Moved(@, "ready")]
    /\ UNCHANGED <<plugin, chan, brokerVars, jobs, due, failures, fate>>

\* A delivery tag no one on the channel refers to: tags are compared, and no
\* more, so a forgotten one may come again.
NewTag(c) ==
    LET w == c[1]
        used == {msgs[s].tag : s \in Unacked(c)} \cup {j.tag : j \in jobs[w]}
                \cup {m.tag : m \in {d \in inbox \cup hand : d.chan = c}}
                \cup {mpsc[w][i].tag : i \in DOMAIN mpsc[w]}
                \cup {deliveries[w][t][2] : t \in {u \in Task : deliveries[w][u] # None}}
    IN  CHOOSE n \in 1..(Cardinality(used) + 1) : n \notin used

Delivered(m, c, n) == [m EXCEPT !.place = "unacked", !.chan = c, !.tag = n]

\* Delivery to a consumer, within the prefetch count of its channel.
Push(c, s) ==
    /\ chan[c] = "open" /\ c \in loop
    /\ s \in At("ready") /\ QueueOf[msgs[s].task] = c[2]
    /\ Cardinality(Unacked(c)) < Prefetch
    /\ msgs' = [msgs EXCEPT ![s] = Delivered(@, c, NewTag(c))]
    /\ inbox' = inbox \cup {[task |-> msgs[s].task, retries |-> msgs[s].retries, chan |-> c, tag |-> NewTag(c)]}
    /\ UNCHANGED <<plugin, chan, consuming, loop, hand, deliveries, mpsc, publishing, jobs, due, failures, fate>>

\* What a closed channel leaves unresolved is ready again.
Requeued(C) == [s \in Slot |->
    IF s \in Held /\ msgs[s].chan \in C THEN Moved(msgs[s], "ready") ELSE msgs[s]]

-----------------------------------------------------------------------------
(* AmqpBroker::new and the consumer loops *)

\* new declares the topology and starts the consumers one after the other.
EnsureConsumer(w, q) ==
    /\ q \in Queues[w] \ consuming[w]
    /\ chan' = [chan EXCEPT ![<<w, q>>] = "open"]
    /\ loop' = loop \cup {<<w, q>>}
    /\ consuming' = [consuming EXCEPT ![w] = @ \cup {q}]
    /\ UNCHANGED <<plugin, msgs, inbox, hand, deliveries, mpsc, publishing, jobs, due, failures, fate>>

\* The loop handles one delivery after the other.
Reads(c, m) == c \in loop /\ m \in inbox /\ m.chan = c /\ \A d \in hand : d.chan # c

\* Mutant of Tracked: the insertion is left to whoever receives the message.
TrackedLater(c, m) == deliveries

Tracked(c, m) == [deliveries EXCEPT ![c[1]][m.task] = <<c, m.tag>>]

\* The loop inserts the tag, then sends.
Track(c, m) ==
    /\ Reads(c, m) /\ m.task \notin Garbage
    /\ inbox' = inbox \ {m} /\ hand' = hand \cup {m}
    /\ deliveries' = Tracked(c, m)
    /\ UNCHANGED <<rabbit, consuming, loop, mpsc, publishing, jobs, due, failures, fate>>

\* Mutant of Reject: the error ends the loop.
RejectAndBreak(c, m) ==
    /\ Reads(c, m) /\ m.task \in Garbage
    /\ loop' = loop \ {c}
    /\ UNCHANGED <<rabbit, consuming, inbox, hand, deliveries, mpsc, publishing, jobs, due, failures, fate>>

\* A body that does not parse is nacked without requeue, to the dead letters;
\* on a closed channel that is an error, ignored.
Reject(c, m) ==
    /\ Reads(c, m) /\ m.task \in Garbage
    /\ inbox' = inbox \ {m}
    /\ msgs' = [s \in Slot |-> IF s \in Tagged(c, m.tag) THEN Moved(msgs[s], "dlq") ELSE msgs[s]]
    /\ UNCHANGED <<plugin, chan, consuming, loop, hand, deliveries, mpsc, publishing, jobs, due, failures, fate>>

\* Mutant of Capacity: not multiplied by the number of queues.
CapacityOfOne(w) == Prefetch

Capacity(w) == Prefetch * Cardinality(Queues[w])

Send(c, m) ==
    /\ c \in loop /\ m \in hand /\ m.chan = c
    /\ Len(mpsc[c[1]]) < Capacity(c[1])
    /\ mpsc' = [mpsc EXCEPT ![c[1]] = Append(@, m)]
    /\ hand' = hand \ {m}
    /\ UNCHANGED <<rabbit, consuming, loop, inbox, deliveries, publishing, jobs, due, failures, fate>>

\* RabbitMQ or the network closes the channel.
Closes(c) ==
    /\ chan[c] = "open"
    /\ Cardinality({d \in Channel : chan[d] = "closed"}) < MaxClosed
    /\ chan' = [chan EXCEPT ![c] = "closed"]
    /\ msgs' = Requeued({c})
    /\ UNCHANGED <<plugin, brokerVars, jobs, due, failures, fate>>

\* The consumer yields an error or None, at once or after the deliveries it had
\* buffered, and the loop ends.  The queue stays in `consuming', so no other
\* consumer is started for it.
ConsumerError(c) ==
    /\ chan[c] = "closed" /\ c \in loop /\ \A d \in hand : d.chan # c
    /\ loop' = loop \ {c}
    /\ inbox' = {m \in inbox : m.chan # c}
    /\ UNCHANGED <<rabbit, consuming, hand, deliveries, mpsc, publishing, jobs, due, failures, fate>>

\* The process ends: so do its connection, its executions and its memory.
Crash(w) ==
    /\ \E q \in Queues[w] : chan[<<w, q>>] = "open"
    /\ Cardinality({d \in Channel : chan[d] = "closed"}) < MaxClosed
    /\ chan' = [c \in Channel |-> IF c[1] = w THEN "closed" ELSE chan[c]]
    /\ consuming' = [consuming EXCEPT ![w] = Queues[w]]
    /\ loop' = {c \in loop : c[1] # w}
    /\ inbox' = {m \in inbox : m.chan[1] # w} /\ hand' = {m \in hand : m.chan[1] # w}
    /\ msgs' = Requeued({w} \X Queue)
    /\ deliveries' = [deliveries EXCEPT ![w] = [t \in Task |-> None]]
    /\ mpsc' = [mpsc EXCEPT ![w] = <<>>]
    /\ jobs' = [jobs EXCEPT ![w] = {}]
    /\ fate' = [t \in Task |-> IF \E j \in jobs[w] : j.task = t /\ j.step = "schedule"
                               THEN "dropped" ELSE fate[t]]
    /\ UNCHANGED <<plugin, publishing, due, failures>>

-----------------------------------------------------------------------------
(* The worker: dequeue, and execute_task as far as it calls the broker *)

HasPermit(w) == Cardinality(jobs[w]) < Concurrency

Dequeue(w) ==
    /\ mpsc[w] # <<>>
    /\ HasPermit(w)
    /\ LET m == Head(mpsc[w]) IN
       jobs' = [jobs EXCEPT ![w] = @ \cup {[task |-> m.task, retries |-> m.retries, step |-> "run",
                                            chan |-> m.chan, tag |-> m.tag]}]
    /\ mpsc' = [mpsc EXCEPT ![w] = Tail(@)]
    /\ UNCHANGED <<rabbit, consuming, loop, inbox, hand, deliveries, publishing, due, failures, fate>>

Becomes(w, j, k) == jobs' = [jobs EXCEPT ![w] = (@ \ {j}) \cup {k}]
Ends(w, j) == jobs' = [jobs EXCEPT ![w] = @ \ {j}]

\* Mutant of MayRetry: the first run counts as a retry.
MayRetryEarly(j) == j.retries + 1 < MaxRetries[j.task]

MayRetry(j) == j.retries < MaxRetries[j.task]

\* The eta guard.
NotDue(w, j) ==
    /\ j.step = "run" /\ j.task \in Delayed \ due
    /\ Becomes(w, j, [j EXCEPT !.step = "etaAck"])
    /\ UNCHANGED <<rabbit, brokerVars, due, failures, fate>>

Succeed(w, j) ==
    /\ j.step = "run" /\ j.task \notin Delayed \ due
    /\ Becomes(w, j, [j EXCEPT !.step = "ack"])
    /\ fate' = [fate EXCEPT ![j.task] = "done"]
    /\ UNCHANGED <<rabbit, brokerVars, due, failures>>

\* ack, nack and dead_letter take the entry of the task id, whichever delivery
\* it is, and resolve its tag: the copy becomes what the call asks for.  On a
\* closed channel that is an error, logged.
Resolve(w, t, becomes) ==
    LET d == deliveries[w][t]
        own == IF d = None THEN {} ELSE Tagged(d[1], d[2])
    IN  /\ deliveries' = [deliveries EXCEPT ![w][t] = None]
        /\ msgs' = [s \in Slot |-> IF s \in own THEN becomes[s] ELSE msgs[s]]

Failed(j) == IF MayRetry(j) THEN [j EXCEPT !.step = "backoff", !.retries = @ + 1]
                            ELSE [j EXCEPT !.step = "bury"]

\* A handler may fail on every run; the code keeps no count of it, and no step
\* depends on this one.
OneMoreFailure(t) ==
    failures' = IF failures[t] < MaxFailures THEN [failures EXCEPT ![t] = @ + 1] ELSE failures

\* Mutant of Fail: nacked first, then the backoff.
FailNacksFirst(w, j) ==
    /\ j.step = "run" /\ j.task \notin Delayed \ due
    /\ OneMoreFailure(j.task)
    /\ Becomes(w, j, Failed(j))
    /\ Resolve(w, j.task, [s \in Held |-> Moved(msgs[s], "ready")])
    /\ UNCHANGED <<plugin, chan, consuming, loop, inbox, hand, mpsc, publishing, due, fate>>

\* handle_failure decides; the message stays unresolved through the backoff.
Fail(w, j) ==
    /\ j.step = "run" /\ j.task \notin Delayed \ due
    /\ OneMoreFailure(j.task)
    /\ Becomes(w, j, Failed(j))
    /\ UNCHANGED <<rabbit, brokerVars, due, fate>>

Ack(w, j) ==
    /\ j.step \in {"ack", "etaAck"}
    /\ Resolve(w, j.task, [s \in Held |-> None])
    /\ IF j.step = "ack" THEN Ends(w, j) ELSE Becomes(w, j, [j EXCEPT !.step = "schedule"])
    /\ UNCHANGED <<plugin, chan, consuming, loop, inbox, hand, mpsc, publishing, due, failures, fate>>

\* The body RabbitMQ holds is ready again, not the message with its incremented
\* count.
Nack(w, j) ==
    /\ j.step = "backoff"
    /\ Resolve(w, j.task, [s \in Held |-> Moved(msgs[s], "ready")])
    /\ Ends(w, j)
    /\ UNCHANGED <<plugin, chan, consuming, loop, inbox, hand, mpsc, publishing, due, failures, fate>>

DeadLetter(w, j) ==
    /\ j.step = "bury"
    /\ Resolve(w, j.task, [s \in Held |-> Moved(msgs[s], "dlq")])
    /\ Ends(w, j)
    /\ UNCHANGED <<plugin, chan, consuming, loop, inbox, hand, mpsc, publishing, due, failures, fate>>

\* Without the plugin the exchange does not exist: no confirmation is asked
\* for, so the publish returns Ok and RabbitMQ closes the channel, on which
\* every later publish fails.
Schedule(w, j) ==
    /\ j.step = "schedule"
    /\ Ends(w, j)
    /\ IF plugin /\ w \in publishing
       THEN Publish(j.task, j.retries, "delayed") /\ UNCHANGED <<publishing, fate>>
       ELSE /\ publishing' = publishing \ {w}
            /\ fate' = [fate EXCEPT ![j.task] = "dropped"]
            /\ UNCHANGED msgs
    /\ UNCHANGED <<plugin, chan, consuming, loop, inbox, hand, deliveries, mpsc, due, failures>>

Execute(w) == Dequeue(w) \/ \E j \in jobs[w] :
    NotDue(w, j) \/ Succeed(w, j) \/ Fail(w, j) \/ Ack(w, j) \/ Nack(w, j) \/ DeadLetter(w, j) \/ Schedule(w, j)

-----------------------------------------------------------------------------
(* The views of the dashboard *)

QueueLen(q) == Cardinality({s \in At("ready") : QueueOf[msgs[s].task] = q})

Looked(s) == [msgs[s] EXCEPT !.place = "got"]

\* dlq_messages: a message is taken, and put back (nack with requeue, or its
\* connection is lost) before the next is taken.
GetDlq(s) ==
    /\ s \in At("dlq") /\ At("got") = {}
    /\ msgs' = [msgs EXCEPT ![s] = Looked(s)]
    /\ UNCHANGED <<plugin, chan, brokerVars, jobs, due, failures, fate>>

PutBackDlq(s) ==
    /\ s \in At("got")
    /\ msgs' = [msgs EXCEPT ![s] = Moved(@, "dlq")]
    /\ UNCHANGED <<plugin, chan, brokerVars, jobs, due, failures, fate>>

DlqMessages == \E s \in Held : GetDlq(s) \/ PutBackDlq(s)

-----------------------------------------------------------------------------
Init ==
    /\ plugin \in BOOLEAN
    /\ msgs = [s \in Slot |-> None]
    /\ chan = [c \in Channel |-> "none"]
    /\ consuming = [w \in Worker |-> {}]
    /\ loop = {} /\ inbox = {} /\ hand = {}
    /\ deliveries = [w \in Worker |-> [t \in Task |-> None]]
    /\ mpsc = [w \in Worker |-> <<>>]
    /\ jobs = [w \in Worker |-> {}]
    /\ publishing = Worker
    /\ due = {}
    /\ failures = [t \in Task |-> 0]
    /\ fate = [t \in Task |-> "new"]

Deliver(c) ==
    \/ \E s \in Held : Push(c, s)
    \/ \E m \in inbox : Track(c, m) \/ Reject(c, m)
    \/ \E m \in hand : Send(c, m)
    \/ ConsumerError(c)

Next ==
    \/ \E t \in Task : Enqueue(t) \/ EtaPasses(t)
    \/ \E s \in Held : Release(s)
    \/ \E c \in Channel : EnsureConsumer(c[1], c[2]) \/ Deliver(c) \/ Closes(c)
    \/ \E w \in Worker : Execute(w) \/ Crash(w)
    \/ DlqMessages

\* RabbitMQ, the consumer loops and the executions go on; nothing is promised
\* of producers, of failures and of whoever looks at the dead letters.
Fairness ==
    /\ \A c \in Channel : WF_vars(EnsureConsumer(c[1], c[2])) /\ WF_vars(Deliver(c))
    /\ \A w \in Worker : WF_vars(Execute(w))
    /\ \A t \in Task : WF_vars(EtaPasses(t))
    /\ WF_vars(\E s \in Held : Release(s))

Spec == Init /\ [][Next]_vars /\ Fairness

-----------------------------------------------------------------------------
(* Correctness *)

Copies(t) == {s \in Held : msgs[s].task = t}
Executing(w, t) == {j \in jobs[w] : j.task = t}

\* A message RabbitMQ has taken is in RabbitMQ until its handler has
\* succeeded: neither a channel that closes at any moment, nor a crash, nor
\* somebody who pages through the dead letters loses one.  Only the eta guard
\* can, which acknowledges before it schedules.
NoTaskVanishes ==
    \A t \in Task : fate[t] = "sent" =>
        \/ Copies(t) # {}
        \/ \E w \in Worker : \E j \in Executing(w, t) : j.step = "schedule"

\* The messages of which RabbitMQ never had a second copy.
Single(t) == t \notin Delayed \/ "closed" \notin Range(chan)

\* "Calling ack() or nack() resolves the corresponding AMQP delivery": the
\* entry of the task id is that of the delivery the execution stems from, and
\* the tag that of a copy that waits for it, as long as the channel is open and
\* there was only one copy of the message.
ResolvesOwnDelivery ==
    \A w \in Worker : \A j \in jobs[w] :
        chan[j.chan] = "open" /\ j.step # "schedule" /\ Single(j.task) =>
            /\ deliveries[w][j.task] = <<j.chan, j.tag>>
            /\ \E s \in Copies(j.task) : s \in Tagged(j.chan, j.tag)

\* RabbitMQ has a second copy of a message only if an acknowledgement went to a
\* closed channel and the eta guard has scheduled the message as well.
SecondCopyNeedsClosedChannel ==
    (\E t \in Task : Cardinality(Copies(t)) > 1)
        => "closed" \in Range(chan) /\ \E t \in Delayed : Cardinality(Copies(t)) > 1

\* Two workers execute a message at once only if a channel was closed.
ExclusiveExecution ==
    \A t \in Task : \A v, w \in Worker :
        v # w /\ Executing(v, t) # {} /\ Executing(w, t) # {} => "closed" \in Range(chan)

\* While channels close, workers crash and somebody reads the dead letters: a
\* message that RabbitMQ took is not lost, and a second copy or a second worker
\* needs a closed channel.
NeitherLostNorDoubled ==
    TypeOK /\ NoTaskVanishes /\ SecondCopyNeedsClosedChannel /\ ExclusiveExecution

\* The mpsc channel has room for all that the prefetch counts of the channels
\* let through, so no consumer loop ever waits in send; such a loop would not
\* see its cancellation.
SendNeverWaits ==
    \A m \in hand : Len(mpsc[m.chan[1]]) < Capacity(m.chan[1])

\* A task is dead-lettered only after its handler has failed in the first run
\* and in all of its max_retries: neither a redelivery to another worker, nor a
\* second copy, nor a closed channel makes it lose one of them.
BuriedOnlyWhenExhausted ==
    \A s \in At("dlq") : LET t == msgs[s].task IN t \in Garbage \/ failures[t] > MaxRetries[t]

\* A queue is empty again and again: no tag is forgotten whose prefetch slot would
\* then be used up for good.  That is so unless no consumer is left for it, or
\* the handler of one of its tasks fails for ever: nack never gives such a task
\* up, and RabbitMQ may hand it out before all others.
QueueDrains ==
    \A q \in Queue :
        \/ []<>(QueueLen(q) = 0 \/ \A c \in Channel : c[2] = q => chan[c] = "closed")
        \/ []<><<\E w \in Worker : \E j \in jobs[w] : QueueOf[j.task] = q /\ Fail(w, j)>>_vars

-----------------------------------------------------------------------------
(* What the documentation says *)

\* kojin-core/src/message.rs:23, of max_retries: "Maximum allowed retries."  A
\* task runs once, and again at most max_retries times after failures.
RetryLimitKept == \A t \in Task : failures[t] <= MaxRetries[t] + 1
=============================================================================
