----------------------------- MODULE RedisBroker -----------------------------
(***************************************************************************)
(* RedisBroker (kojin-redis/src/broker.rs) shared by several workers that  *)
(* may crash.  A step is one Redis command or script, which Redis executes *)
(* atomically; ack, nack, dead_letter and enqueue are sequences of them.   *)
(*                                                                         *)
(* Of the worker there is what decides which broker calls it makes: run    *)
(* the handler, then ack, or nack after the backoff, or dead_letter, or    *)
(* ack and schedule when the message is not due (worker.rs).  A worker is  *)
(* one incarnation: a process that restarts takes a new worker id.         *)
(***************************************************************************)
EXTENDS Naturals, Sequences, FiniteSets, SequencesExt

CONSTANTS
    Task,           \* ids of the messages
    Queue,          \* queue names
    Worker,         \* worker ids
    None,           \* absence
    Order,          \* the queues in the order dequeue tries them
    QueueOf,        \* message.queue
    MaxRetries,     \* message.max_retries
    DedupKey,       \* message.dedup_key
    Mentions,       \* the ids the serialised message contains besides its own:
                    \* the one of its chord callback
    EtaTask,        \* messages with an eta in the future
    Concurrency,    \* WorkerConfig.concurrency
    PollLimit,      \* the limit in POLL_SCHEDULED_SCRIPT (100)
    Crashing,       \* workers that may crash
    Faults          \* whether a command may fail

ASSUME RedisAssumption ==
    /\ Order \in Seq(Queue) /\ Order # <<>>
    /\ QueueOf \in [Task -> Queue]
    /\ MaxRetries \in [Task -> Nat]
    /\ Mentions \in [Task -> SUBSET Task]
    /\ EtaTask \subseteq Task
    /\ Concurrency \in Nat
    /\ PollLimit \in Nat
    /\ Crashing \subseteq Worker
    /\ Faults \in BOOLEAN

VARIABLES
    queue,          \* {prefix}:queue:{name}, leftmost item first
    processing,     \* {prefix}:processing:{worker_id}
    scheduled,      \* {prefix}:scheduled
    dlq,            \* {prefix}:dlq:{name}
    dedup,          \* the {prefix}:dedup:{key} that have not expired
    client,         \* per message, where the client's enqueue is
    scan,           \* per worker, which queue its dequeue blocks on
    jobs,           \* the executions in flight
    alive,          \* the workers that have not crashed
    due,            \* EtaTasks whose eta has passed
    stranded,       \* history: items left in a list with no execution
    done,           \* history: messages whose handler returned Ok
    dropped         \* history: messages that were discarded

redisVars == <<queue, processing, scheduled, dlq, dedup>>
vars == <<redisVars, client, scan, jobs, alive, due, stranded, done, dropped>>

Message == [id : Task, retries : Nat]

\* An execution of `item' by worker w: it settles the message m, which is the
\* item or the item with one retry more, by the calls of its plan.
Plans == {"success", "reschedule", "retry", "bury"}
Steps == {"run", "find", "remove", "settle", "push"}
Job == [w : Worker, item : Message, m : Message, plan : Plans \cup {None},
        pc : Steps, found : Message \cup {None}]

ASSUME NoneAssumption == None \notin Plans

Keys == {DedupKey[t] : t \in Task} \ {None}

TypeOK ==
    /\ queue \in [Queue -> Seq(Message)]
    /\ processing \in [Worker -> Seq(Message)]
    /\ scheduled \subseteq Message
    /\ dlq \in [Queue -> Seq(Message)]
    /\ dedup \subseteq Keys
    /\ client \in [Task -> {"new", "push", "sent", "filtered"}]
    /\ scan \in [Worker -> DOMAIN Order]
    /\ jobs \subseteq Job
    /\ alive \subseteq Worker
    /\ due \subseteq EtaTask
    /\ stranded \subseteq Worker \X Message
    /\ done \subseteq Task
    /\ dropped \subseteq Task

\* LPUSH
Push(m) == queue' = [queue EXCEPT ![QueueOf[m.id]] = <<m>> \o @]

-----------------------------------------------------------------------------
(* enqueue, by a client or by the worker that goes on with a workflow *)

\* A chord callback is enqueued by the execution of a member, after its ack.
Follows(t) ==
    \A s \in Task : t \in Mentions[s] =>
        s \in done /\ ~\E j \in jobs : j.m.id = s /\ j.pc # "settle"

\* SET NX.  An error is taken for a duplicate.
ClientDedup(t) ==
    /\ client[t] = "new"
    /\ Follows(t)
    /\ DedupKey[t] # None
    /\ \/ /\ DedupKey[t] \notin dedup
          /\ dedup' = dedup \cup {DedupKey[t]}
          /\ client' = [client EXCEPT ![t] = "push"]
       \/ /\ DedupKey[t] \in dedup \/ Faults
          /\ client' = [client EXCEPT ![t] = "filtered"]
          /\ UNCHANGED dedup
    /\ UNCHANGED <<queue, processing, scheduled, dlq, scan, jobs, alive, due,
                   stranded, done, dropped>>

ClientPush(t) ==
    /\ IF DedupKey[t] = None THEN client[t] = "new" /\ Follows(t)
                             ELSE client[t] = "push"
    /\ Push([id |-> t, retries |-> 0])
    /\ client' = [client EXCEPT ![t] = "sent"]
    /\ UNCHANGED <<processing, scheduled, dlq, dedup, scan, jobs, alive, due,
                   stranded, done, dropped>>

KeyExpires(k) ==
    /\ k \in dedup
    /\ dedup' = dedup \ {k}
    /\ UNCHANGED <<queue, processing, scheduled, dlq, client, scan, jobs,
                   alive, due, stranded, done, dropped>>

EtaPasses(t) ==
    /\ t \in EtaTask \ due
    /\ due' = due \cup {t}
    /\ UNCHANGED <<redisVars, client, scan, jobs, alive, stranded, done,
                   dropped>>

-----------------------------------------------------------------------------
(* dequeue *)

Idle(w) == w \in alive /\ Cardinality({j \in jobs : j.w = w}) < Concurrency

\* Mutant of TakeFrom: BLMOVE RIGHT RIGHT.
TakeRight(w, q) ==
    /\ queue' = [queue EXCEPT ![q] = Front(@)]
    /\ processing' = [processing EXCEPT ![w] = Append(@, Last(queue[q]))]

\* BLMOVE RIGHT LEFT
TakeFrom(w, q) ==
    /\ queue' = [queue EXCEPT ![q] = Front(@)]
    /\ processing' = [processing EXCEPT ![w] = <<Last(queue[q])>> \o @]

Started(w, m) ==
    [w |-> w, item |-> m, m |-> m, plan |-> None, pc |-> "run", found |-> None]

\* The queue dequeue blocks on has a message: it is moved and executed.  If the
\* reply gets lost it is moved all the same, and dequeue returns Err.
Dequeue(w) ==
    LET q == Order[scan[w]] IN
    /\ Idle(w)
    /\ queue[q] # <<>>
    /\ TakeFrom(w, q)
    /\ \/ /\ jobs' = jobs \cup {Started(w, Last(queue[q]))}
          /\ UNCHANGED stranded
       \/ /\ Faults
          /\ stranded' = stranded \cup {<<w, Last(queue[q])>>}
          /\ UNCHANGED jobs
    /\ scan' = [scan EXCEPT ![w] = 1]
    /\ UNCHANGED <<scheduled, dlq, dedup, client, alive, due, done, dropped>>


\* The timeout of one BLMOVE: try the next queue, or return None and start over.
DequeueTimeout(w) ==
    /\ Idle(w)
    /\ queue[Order[scan[w]]] = <<>>
    /\ scan' = [scan EXCEPT ![w] = IF @ = Len(Order) THEN 1 ELSE @ + 1]
    /\ UNCHANGED <<redisVars, client, jobs, alive, due, stranded, done, dropped>>

-----------------------------------------------------------------------------
(* execute_task: which calls it will make *)

Becomes(j, k) == jobs' = (jobs \ {j}) \cup {k}

Ends(j) == jobs' = jobs \ {j}

NotDue(j) ==
    /\ j.pc = "run"
    /\ j.item.id \in EtaTask \ due
    /\ Becomes(j, [j EXCEPT !.plan = "reschedule", !.pc = "find"])
    /\ UNCHANGED <<redisVars, client, scan, alive, due, stranded, done, dropped>>

Succeed(j) ==
    /\ j.pc = "run"
    /\ j.item.id \notin EtaTask \ due
    /\ done' = done \cup {j.item.id}
    /\ Becomes(j, [j EXCEPT !.plan = "success", !.pc = "find"])
    /\ UNCHANGED <<redisVars, client, scan, alive, due, stranded, dropped>>

Fail(j) ==
    /\ j.pc = "run"
    /\ j.item.id \notin EtaTask \ due
    /\ IF j.item.retries < MaxRetries[j.item.id]
       THEN Becomes(j, [j EXCEPT !.plan = "retry", !.pc = "find", !.m.retries = @ + 1])
       ELSE Becomes(j, [j EXCEPT !.plan = "bury", !.pc = "find"])
    /\ UNCHANGED <<redisVars, client, scan, alive, due, stranded, done, dropped>>

-----------------------------------------------------------------------------
(* ack *)

\* item.contains(&id_str)
TextContains(item, t) == t = item.id \/ t \in Mentions[item.id]

\* LRANGE, then a search for the first item whose text contains the id.
Find(j) ==
    LET items == processing[j.w] IN
    /\ j.pc = "find"
    /\ \/ \E i \in DOMAIN items :
             /\ TextContains(items[i], j.m.id)
             /\ \A k \in 1..(i - 1) : ~TextContains(items[k], j.m.id)
             /\ Becomes(j, [j EXCEPT !.found = items[i], !.pc = "remove"])
       \/ /\ \A i \in DOMAIN items : ~TextContains(items[i], j.m.id)
          /\ Becomes(j, [j EXCEPT !.pc = "settle"])
    /\ UNCHANGED <<redisVars, client, scan, alive, due, stranded, done, dropped>>

\* Mutant of RemoveFound: LREM with the message as it is now, one retry more.
RemoveSerialised(j) ==
    /\ j.pc = "remove"
    /\ processing' = [processing EXCEPT ![j.w] = RemoveFirst(@, j.m)]
    /\ Becomes(j, [j EXCEPT !.pc = "settle", !.found = None])
    /\ UNCHANGED <<queue, scheduled, dlq, dedup, client, scan, alive, due,
                   stranded, done, dropped>>

\* LREM 1: the leftmost item equal to the one that was found.
RemoveFound(j) ==
    /\ j.pc = "remove"
    /\ processing' = [processing EXCEPT ![j.w] = RemoveFirst(@, j.found)]
    /\ Becomes(j, [j EXCEPT !.pc = "settle", !.found = None])
    /\ UNCHANGED <<queue, scheduled, dlq, dedup, client, scan, alive, due,
                   stranded, done, dropped>>

\* nack and dead_letter return the error of ack; execute_task logs it and goes
\* on.  The command that failed had no effect.
AckFails(j) ==
    /\ Faults
    /\ j.pc \in {"find", "remove"}
    /\ IF j.plan \in {"retry", "bury"}
       THEN Ends(j)
       ELSE Becomes(j, [j EXCEPT !.pc = "settle", !.found = None])
    /\ stranded' = stranded \cup {<<j.w, j.item>>}
    /\ UNCHANGED <<redisVars, client, scan, alive, due, done, dropped>>

-----------------------------------------------------------------------------
(* What follows ack *)

Finish(j) ==
    /\ j.pc = "settle" /\ j.plan = "success"
    /\ Ends(j)
    /\ UNCHANGED <<redisVars, client, scan, alive, due, stranded, done, dropped>>

\* schedule: ZADD
Schedule(j) ==
    /\ j.pc = "settle" /\ j.plan = "reschedule"
    /\ scheduled' = scheduled \cup {j.m}
    /\ Ends(j)
    /\ UNCHANGED <<queue, processing, dlq, dedup, client, scan, alive, due,
                   stranded, done, dropped>>

\* nack calls enqueue, which checks the deduplication key once more.
RequeueDedup(j) ==
    LET key == DedupKey[j.m.id] IN
    /\ j.pc = "settle" /\ j.plan = "retry"
    /\ \/ /\ key # None => key \notin dedup
          /\ dedup' = IF key = None THEN dedup ELSE dedup \cup {key}
          /\ Becomes(j, [j EXCEPT !.pc = "push"])
          /\ UNCHANGED dropped
       \/ /\ key # None /\ (key \in dedup \/ Faults)
          /\ Ends(j)
          /\ dropped' = dropped \cup {j.m.id}
          /\ UNCHANGED dedup
    /\ UNCHANGED <<queue, processing, scheduled, dlq, client, scan, alive, due,
                   stranded, done>>

RequeuePush(j) ==
    /\ j.pc = "push"
    /\ Push(j.m)
    /\ Ends(j)
    /\ UNCHANGED <<processing, scheduled, dlq, dedup, client, scan, alive, due,
                   stranded, done, dropped>>

\* dead_letter: LPUSH
Bury(j) ==
    /\ j.pc = "settle" /\ j.plan = "bury"
    /\ dlq' = [dlq EXCEPT ![QueueOf[j.m.id]] = <<j.m>> \o @]
    /\ Ends(j)
    /\ UNCHANGED <<queue, processing, scheduled, dedup, client, scan, alive,
                   due, stranded, done, dropped>>

\* The messages of these executions are in no list any more.
InNoList(J) ==
    {j.m.id : j \in {k \in J : /\ k.pc \in {"settle", "push"}
                               /\ k.plan # "success"
                               /\ k.item \notin Range(processing[k.w])}}

\* The call that would have put the message back fails.
SettleFails(j) ==
    /\ Faults
    /\ j.pc \in {"settle", "push"}
    /\ j.plan # "success"
    /\ Ends(j)
    /\ dropped' = dropped \cup InNoList({j})
    /\ UNCHANGED <<redisVars, client, scan, alive, due, stranded, done>>

Execute(j) ==
    /\ j.w \in alive
    /\ \/ NotDue(j) \/ Succeed(j) \/ Fail(j)
       \/ Find(j) \/ RemoveFound(j) \/ AckFails(j)
       \/ Finish(j) \/ Schedule(j) \/ RequeueDedup(j) \/ RequeuePush(j)
       \/ Bury(j) \/ SettleFails(j)

-----------------------------------------------------------------------------
\* The process dies with its executions; its processing list stays in Redis.
Crash(w) ==
    /\ w \in alive \cap Crashing
    /\ alive' = alive \ {w}
    /\ jobs' = {j \in jobs : j.w # w}
    /\ dropped' = dropped \cup InNoList({j \in jobs : j.w = w})
    /\ stranded' = stranded \cup {<<w, item>> : item \in Range(processing[w])}
    /\ UNCHANGED <<redisVars, client, scan, due, done>>

\* The ways to LPUSH a batch to the queues of its messages: in the order of their
\* etas, which may be any, so that every queue gets its messages in some order.
Pushed(batch) ==
    LET Of(q) == {m \in batch : QueueOf[m.id] = q} IN
    {front \in [Queue -> UNION {SetToSeqs(Of(q)) : q \in Queue}] :
        \A q \in Queue : front[q] \in SetToSeqs(Of(q))}

\* POLL_SCHEDULED_SCRIPT: push the first PollLimit due items, in the order of
\* their etas, and remove every due item.  The program leaves it to its user to
\* call poll_scheduled.
PollScheduled ==
    LET ready == {m \in scheduled : m.id \in due} IN
    /\ ready # {}
    /\ \E batch \in SUBSET ready :
          /\ Cardinality(batch) = IF Cardinality(ready) < PollLimit
                                  THEN Cardinality(ready) ELSE PollLimit
          /\ \E front \in Pushed(batch) : queue' = [q \in Queue |-> front[q] \o queue[q]]
          /\ dropped' = dropped \cup {m.id : m \in ready \ batch}
    /\ scheduled' = scheduled \ ready
    /\ UNCHANGED <<processing, dlq, dedup, client, scan, jobs, alive, due,
                   stranded, done>>

-----------------------------------------------------------------------------
Init ==
    /\ queue = [q \in Queue |-> <<>>]
    /\ processing = [w \in Worker |-> <<>>]
    /\ scheduled = {}
    /\ dlq = [q \in Queue |-> <<>>]
    /\ dedup = {}
    /\ client = [t \in Task |-> "new"]
    /\ scan = [w \in Worker |-> 1]
    /\ jobs = {}
    /\ alive = Worker
    /\ due = {}
    /\ stranded = {}
    /\ done = {}
    /\ dropped = {}

Next ==
    \/ \E t \in Task : ClientDedup(t) \/ ClientPush(t) \/ EtaPasses(t)
    \/ \E k \in Keys : KeyExpires(k)
    \/ \E w \in Worker : Dequeue(w) \/ DequeueTimeout(w) \/ Crash(w)
    \/ \E j \in jobs : Execute(j)
    \/ PollScheduled

Spec == Init /\ [][Next]_vars

\* Live workers go on, and time passes.  Nothing is assumed of clients, of
\* handlers' results or of crashes.
Fairness ==
    /\ \A w \in Worker : WF_vars(Dequeue(w) \/ DequeueTimeout(w))
    /\ \A t \in Task : WF_vars(\E j \in jobs : j.m.id = t /\ Execute(j))
    /\ \A t \in Task : WF_vars(EtaPasses(t))

FairSpec == Spec /\ Fairness

-----------------------------------------------------------------------------
(* Correctness *)

Ids(s) == {s[i].id : i \in DOMAIN s}

Queued == UNION {Ids(queue[q]) : q \in Queue}
Processing == UNION {Ids(processing[w]) : w \in Worker}
Scheduled == {m.id : m \in scheduled}
DeadLettered == UNION {Ids(dlq[q]) : q \in Queue}
Sent == {t \in Task : client[t] = "sent"}

\* Executions that have not removed their item from the processing list.
Unacked == {j \in jobs : j.pc \in {"run", "find", "remove"}}

\* Executions between ack and the command that puts the message back.
Moving == {j.m.id : j \in jobs \ Unacked}

\* Conservation across crashes.  A message that was enqueued is in a queue, in
\* some worker's processing list, in the scheduled set or the dead-letter
\* queue, in the hands of a live worker between two commands, or successful;
\* or it was dropped by a filtered retry, by a crash or an error between those
\* two commands, or by a poll past its limit.
NoTaskVanishes ==
    Sent \subseteq Queued \cup Processing \cup Scheduled \cup DeadLettered \cup Moving
                   \cup done \cup dropped

\* Exclusive execution.  No message is executed twice at a time, by one worker
\* or by two, and none is executed or scheduled while it is queued.
ExclusiveExecution ==
    /\ \A j, k \in jobs : j.m.id = k.m.id => j = k
    /\ \A j \in jobs : j.m.id \notin Queued \cup Scheduled
    /\ Queued \cap Scheduled = {}

\* ack searches for the id in the text of every item, and a chord member's text
\* contains the id of the callback, too: yet the item it finds is the one it is
\* meant for, also when a failed ack has left members in the list.  So until an
\* execution acknowledges, its item is there.
AckRemovesOwn ==
    \A j \in Unacked :
        /\ j.item \in Range(processing[j.w])
        /\ j.pc = "remove" => j.found = j.item

\* Every item of a processing list is being executed and not yet acknowledged,
\* or was left there by a crash, a failed ack or a lost reply: the lists do not
\* grow with messages that are finished.
NothingLeaks ==
    \A w \in Worker : \A item \in Range(processing[w]) :
        \/ <<w, item>> \in stranded
        \/ \E j \in Unacked : j.w = w /\ j.item = item

\* With several workers, commands that fail and a worker that crashes between any
\* two commands: a message is in some list or accounted for, one worker at a time
\* executes it, and only what a crash or an error left behind stays in a
\* processing list.
NeitherLostNorDoubled == TypeOK /\ NoTaskVanishes /\ ExclusiveExecution /\ NothingLeaks

\* No message waits in a queue or in the hands of a worker for ever: it comes to
\* be successful, through its retries, or dead-lettered; or it is in the scheduled
\* set, which only a user's call of poll_scheduled empties; or it was dropped, or
\* is stranded in a processing list, which needs a crash or an error of its own
\* and which nothing in the code looks into again.
EventuallySettled ==
    <>[](Sent \subseteq done \cup DeadLettered \cup Scheduled \cup dropped \cup {s[2].id : s \in stranded})

-----------------------------------------------------------------------------
(* What the documentation says *)

\* broker.rs on nack: "message will be re-enqueued or dead-lettered"; scripts.rs
\* on the poll: "move due items from the scheduled sorted set to their target
\* queues".
NothingDropped == dropped = {}
=============================================================================
