------------------------------ MODULE SqsBroker ------------------------------
(***************************************************************************)
(* Workers on SQS (kojin-sqs/src/broker.rs).  A received message is        *)
(* invisible for visibility_timeout seconds; the receipt of the last       *)
(* receipt is kept per task id, and ack, nack and dead_letter use it.      *)
(* Nothing extends the timeout while a handler runs or a worker sleeps in  *)
(* its backoff, so the message may be received again under the execution,  *)
(* by the same worker, too.  A call to SQS may fail, a worker may crash.   *)
(***************************************************************************)
EXTENDS Naturals, Sequences, FiniteSets, SequencesExt

CONSTANTS
    Task, Name, Url, Worker, Client,
    NameOf,         \* per url: its last segment, without the suffix .fifo
    Fifo,           \* the urls that end in .fifo
    QueueOf,        \* message.queue
    DedupId,        \* message.dedup_key, or the id
    Queues,         \* per worker: the names it polls, in their order
    MaxRetries,     \* the values of message.max_retries to look at
    Delayed,        \* tasks that have an eta in the future
    Far,            \* those more than 900 s away
    Garbage,        \* bodies that are no TaskMessage
    HasDlq,         \* the values of config.dlq_url.is_some() to look at
    Permits,        \* the settings of the workers' concurrency to look at
    Strays,         \* bound: who may settle on another url than the others
    MaxCopies,      \* bound: the copies of a message SQS holds
    MaxFailures,    \* bound: failed runs are counted up to here, per task
    MaxFaults,      \* bound: timeouts under an execution, failed calls, crashes
    None

ASSUME SqsAssumption ==
    /\ NameOf \in [Url -> Name] /\ Fifo \subseteq Url
    /\ QueueOf \in [Task -> Name] /\ MaxRetries \subseteq Nat
    /\ \A w \in Worker : Queues[w] \in Seq(Name)
    /\ Far \subseteq Delayed /\ Delayed \cap Garbage = {}
    /\ Client \notin Worker /\ IsFiniteSet(Worker)
    /\ HasDlq \subseteq BOOLEAN /\ Permits \subseteq [Worker -> Nat]
    /\ MaxCopies \in Nat /\ MaxFailures \in Nat /\ MaxFaults \in Nat
    /\ \A n \in MaxRetries : n < MaxFailures

VARIABLES
    route,          \* per process: name -> url, None if there is none
    dlqUrl,         \* config.dlq_url is set
    concurrency,    \* per worker
    maxRetries,     \* message.max_retries
    msgs,           \* what SQS holds
    sentIds,        \* deduplication ids SQS remembers, per FIFO url
    receipts,       \* per worker: TaskId -> receipt
    scan,           \* per worker: where dequeue is in its list of queues
    jobs,           \* per worker: the executions in flight
    due, faults,
    failures,       \* per task: how often its handler has failed, over all runs
    doubled,        \* tasks that SQS gives out again under an execution
    fate            \* per task: what became of it

setting == <<route, dlqUrl, concurrency, maxRetries>>
vars == <<setting, msgs, sentIds, receipts, scan, jobs, due, failures, faults, doubled, fate>>

Slot == Task \X (1..MaxCopies)
Message == [retries : Nat, url : Url \cup {None}, receipt : Nat,
            place : {"delayed", "visible", "invisible", "dlq"}]
Steps == {"run", "etaAck", "schedule", "ack", "backoff", "bury", "toDlq"}

\* Between the call that deletes the message and the one that sends it.
Moving == {"schedule", "toDlq"}

ASSUME NoneAssumption == None \notin Message \cup Url \cup (Slot \X Nat)

\* An execution has task and retries; slot and receipt say what it stems from.
Job == [task : Task, retries : Nat, step : Steps, slot : Slot, receipt : Nat]

TypeOK ==
    /\ route \in [Worker \cup {Client} -> [Name -> Url \cup {None}]]
    /\ dlqUrl \in BOOLEAN /\ concurrency \in [Worker -> Nat] /\ maxRetries \in MaxRetries
    /\ msgs \in [Slot -> Message \cup {None}]
    /\ sentIds \subseteq Fifo \X {DedupId[t] : t \in Task}
    /\ receipts \in [Worker -> [Task -> (Slot \X Nat) \cup {None}]]
    /\ \A w \in Worker : scan[w] \in Nat /\ jobs[w] \subseteq Job
    /\ \A w \in Worker : Cardinality(jobs[w]) <= concurrency[w]
    /\ due \cup doubled \subseteq Task
    /\ failures \in [Task -> 0..MaxFailures]
    /\ faults \in 0..MaxFaults
    /\ fate \in [Task -> {"new", "sent", "refused", "done", "buried", "deleted", "dropped"}]

Held == {s \in Slot : msgs[s] # None}
Executing(t) == {j \in UNION {jobs[w] : w \in Worker} : j.task = t}
Fault == faults < MaxFaults /\ faults' = faults + 1

\* What becomes of a task; success is final, whatever its other executions do.
Fated(t, f) == fate' = [fate EXCEPT ![t] = IF @ = "done" THEN @ ELSE f]

-----------------------------------------------------------------------------
(* The names of queues *)

\* A HashMap from url to name is searched for the name: if two urls have it,
\* any of them, the same one each time.
Routes == [n \in Name |-> {u \in Url : NameOf[u] = n}]
ResolveQueueUrl(r) == \A n \in Name : IF Routes[n] = {} THEN r[n] = None ELSE r[n] \in Routes[n]

-----------------------------------------------------------------------------
(* Sending, and what SQS does by itself *)

\* SendMessage.  A FIFO queue accepts a deduplication id it remembers, and
\* does not deliver the message.
Send(t, u, retries, place, newFate) ==
    IF u \in Fifo /\ <<u, DedupId[t]>> \in sentIds
    THEN Fated(t, "dropped") /\ UNCHANGED <<msgs, sentIds>>
    ELSE \E k \in 1..MaxCopies :
         /\ <<t, k>> \notin Held /\ \A i \in 1..(k - 1) : <<t, i>> \in Held
         /\ msgs' = [msgs EXCEPT ![<<t, k>>] = [retries |-> retries, url |-> u, receipt |-> 0, place |-> place]]
         /\ sentIds' = IF u \in Fifo THEN sentIds \cup {<<u, DedupId[t]>>} ELSE sentIds
         /\ Fated(t, newFate)

Enqueue(t) ==
    LET u == route[Client][QueueOf[t]] IN
    /\ fate[t] = "new"
    /\ IF u = None
       THEN fate' = [fate EXCEPT ![t] = "refused"] /\ UNCHANGED <<msgs, sentIds>>
       ELSE Send(t, u, 0, IF t \in Delayed \ due THEN "delayed" ELSE "visible", "sent")
    /\ UNCHANGED <<setting, receipts, scan, jobs, due, failures, faults, doubled>>

EtaPasses(t) ==
    /\ t \in Delayed \ due
    /\ due' = due \cup {t}
    /\ UNCHANGED <<setting, msgs, sentIds, receipts, scan, jobs, failures, faults, doubled, fate>>

\* DelaySeconds is 900 at most: a message that is due later comes too early.
DelayEnds(s) ==
    /\ msgs[s].place = "delayed" /\ s[1] \in due \cup Far
    /\ msgs' = [msgs EXCEPT ![s].place = "visible"]
    /\ UNCHANGED <<setting, sentIds, receipts, scan, jobs, due, failures, faults, doubled, fate>>

\* The visibility timeout ends, under an execution or after it.
TimesOut(s) ==
    /\ msgs[s].place = "invisible"
    /\ msgs' = [msgs EXCEPT ![s].place = "visible"]
    /\ IF \E w \in Worker : \E j \in jobs[w] : j.slot = s
       THEN Fault /\ doubled' = doubled \cup {s[1]}
       ELSE UNCHANGED <<faults, doubled>>
    /\ UNCHANGED <<setting, sentIds, receipts, scan, jobs, due, failures, fate>>

-----------------------------------------------------------------------------
(* dequeue *)

\* A queue's messages are one message group: a FIFO queue gives none while one
\* of them is invisible.
Receivable(u) ==
    {s \in Held : /\ msgs[s].url = u /\ msgs[s].place = "visible"
                  /\ u \in Fifo => ~ \E r \in Held : msgs[r].url = u /\ msgs[r].place = "invisible"}

\* Receipts are compared and no more: one that nobody refers to comes again.
NewReceipt(s) ==
    LET used == {j.receipt : j \in {k \in Executing(s[1]) : k.slot = s}}
                \cup {receipts[w][s[1]][2] : w \in {v \in Worker : receipts[v][s[1]] # None}}
    IN  CHOOSE n \in 1..(Cardinality(used) + 1) : n \notin used

Hidden(s) == [msgs[s] EXCEPT !.receipt = NewReceipt(s), !.place = "invisible"]

\* Mutant of Registered: the receipt of the delivery before.
RegisteredLate(w, s) == [receipts EXCEPT ![w][s[1]] = <<s, msgs[s].receipt>>]

Registered(w, s) == [receipts EXCEPT ![w][s[1]] = <<s, Hidden(s).receipt>>]

HasPermit(w) == Cardinality(jobs[w]) < concurrency[w]

\* Mutant of Scanned: a name without a url ends the loop.
ScannedUpToUnknown(w) ==
    LET known(i) == \A k \in 1..i : route[w][Queues[w][k]] # None
    IN  SubSeq(Queues[w], 1, Cardinality({i \in DOMAIN Queues[w] : known(i)}))

\* A name without a url is passed over at once.
Scanned(w) == SelectSeq(Queues[w], LAMBDA n : route[w][n] # None)
Polled(w) == IF Scanned(w) = <<>> THEN None ELSE route[w][Scanned(w)[scan[w]]]

\* A body that does not parse is an error: it stays invisible, without receipt.
Receive(w, s) ==
    /\ HasPermit(w)
    /\ s \in Receivable(Polled(w))
    /\ scan' = [scan EXCEPT ![w] = 1]
    /\ msgs' = [msgs EXCEPT ![s] = Hidden(s)]
    /\ IF s[1] \in Garbage
       THEN UNCHANGED <<receipts, jobs>>
       ELSE /\ receipts' = Registered(w, s)
            /\ jobs' = [jobs EXCEPT ![w] = @ \cup {[task |-> s[1], retries |-> msgs[s].retries, step |-> "run",
                                                     slot |-> s, receipt |-> Hidden(s).receipt]}]
    /\ UNCHANGED <<setting, sentIds, due, failures, faults, doubled, fate>>

\* A queue that is empty is passed over; after the last dequeue returns None.
ReceiveNothing(w) ==
    /\ HasPermit(w) /\ Scanned(w) # <<>>
    /\ Receivable(Polled(w)) = {}
    /\ scan' = [scan EXCEPT ![w] = IF @ = Len(Scanned(w)) THEN 1 ELSE @ + 1]
    /\ UNCHANGED <<setting, msgs, sentIds, receipts, jobs, due, failures, faults, doubled, fate>>

-----------------------------------------------------------------------------
(* execute_task, as far as it calls the broker *)

Becomes(w, j, k) == jobs' = [jobs EXCEPT ![w] = (@ \ {j}) \cup {k}]
Ends(w, j) == jobs' = [jobs EXCEPT ![w] = @ \ {j}]
Goto(w, j, step) == Becomes(w, j, [j EXCEPT !.step = step])

\* The eta guard.
NotDue(w, j) ==
    /\ j.step = "run" /\ j.task \in Delayed \ due
    /\ Goto(w, j, "etaAck")
    /\ UNCHANGED <<setting, msgs, sentIds, receipts, scan, due, failures, faults, doubled, fate>>

Succeed(w, j) ==
    /\ j.step = "run" /\ j.task \notin Delayed \ due
    /\ Goto(w, j, "ack")
    /\ fate' = [fate EXCEPT ![j.task] = "done"]
    /\ UNCHANGED <<setting, msgs, sentIds, receipts, scan, due, failures, faults, doubled>>

\* Mutant of MayRetry: the first run counts as a retry.
MayRetryEarly(j) == j.retries + 1 < maxRetries

MayRetry(j) == j.retries < maxRetries

\* A handler may fail on every run; the code keeps no count of it, and no step
\* depends on this one.
OneMoreFailure(t) ==
    failures' = IF failures[t] < MaxFailures THEN [failures EXCEPT ![t] = @ + 1] ELSE failures

Fail(w, j) ==
    /\ j.step = "run" /\ j.task \notin Delayed \ due
    /\ OneMoreFailure(j.task)
    /\ IF MayRetry(j) THEN Becomes(w, j, [j EXCEPT !.step = "backoff", !.retries = @ + 1])
                      ELSE Goto(w, j, "bury")
    /\ UNCHANGED <<setting, msgs, sentIds, receipts, scan, due, faults, doubled, fate>>

Run(w, j) == NotDue(w, j) \/ Succeed(w, j) \/ Fail(w, j)

\* The receipt of the task id is removed, then the call is made with it.  With
\* an older receipt than the last SQS may ignore the call; any call may fail.
Resolve(w, t, becomes) ==
    LET r == receipts[w][t]
        changed(s) == [msgs EXCEPT ![s] = becomes[s]]
    IN  /\ receipts' = [receipts EXCEPT ![w][t] = None]
        /\ \/ /\ IF r = None \/ r[1] \notin Held
                 THEN msgs' = msgs
                 ELSE IF msgs[r[1]].receipt = r[2] THEN msgs' = changed(r[1])
                                                   ELSE msgs' \in {msgs, changed(r[1])}
              /\ UNCHANGED faults
           \/ r # None /\ Fault /\ UNCHANGED msgs

Ack(w, j) ==
    /\ j.step \in {"ack", "etaAck"}
    /\ Resolve(w, j.task, [s \in Held |-> None])
    /\ IF j.step = "ack" THEN Ends(w, j) ELSE Goto(w, j, "schedule")
    /\ doubled' = IF j.step = "etaAck" /\ faults' # faults THEN doubled \cup {j.task} ELSE doubled
    /\ UNCHANGED <<setting, sentIds, scan, due, failures, fate>>

\* The body SQS holds is visible again, without the incremented count.
Nack(w, j) ==
    /\ j.step = "backoff"
    /\ Resolve(w, j.task, [s \in Held |-> [msgs[s] EXCEPT !.place = "visible"]])
    /\ Ends(w, j)
    /\ UNCHANGED <<setting, sentIds, scan, due, failures, doubled, fate>>

\* Mutant of DeadLetter: an error of ack does not end it.
DeadLetterAnyway(w, j) ==
    /\ j.step = "bury"
    /\ Resolve(w, j.task, [s \in Held |-> None])
    /\ Goto(w, j, "toDlq")
    /\ UNCHANGED <<setting, sentIds, scan, due, failures, doubled, fate>>

\* ack first: if that fails dead_letter returns the error.
DeadLetter(w, j) ==
    /\ j.step = "bury"
    /\ Resolve(w, j.task, [s \in Held |-> None])
    /\ IF faults' = faults THEN Goto(w, j, "toDlq") ELSE Ends(w, j)
    /\ UNCHANGED <<setting, sentIds, scan, due, failures, doubled, fate>>

\* Without a dlq_url nothing is sent: the message is deleted.
ToDlq(w, j) ==
    /\ j.step = "toDlq"
    /\ Ends(w, j)
    /\ \/ dlqUrl /\ Send(j.task, None, j.retries, "dlq", "buried") /\ UNCHANGED faults
       \/ ~dlqUrl /\ Fated(j.task, "deleted") /\ UNCHANGED <<msgs, sentIds, faults>>
       \/ dlqUrl /\ Fault /\ Fated(j.task, "dropped") /\ UNCHANGED <<msgs, sentIds>>
    /\ UNCHANGED <<setting, receipts, scan, due, failures, doubled>>

Schedule(w, j) ==
    LET u == route[w][QueueOf[j.task]] IN
    /\ j.step = "schedule"
    /\ Ends(w, j)
    /\ \/ u # None /\ Send(j.task, u, j.retries, "delayed", "sent") /\ UNCHANGED faults
       \/ /\ (u = None /\ UNCHANGED faults) \/ Fault
          /\ Fated(j.task, "dropped") /\ UNCHANGED <<msgs, sentIds>>
    /\ UNCHANGED <<setting, receipts, scan, due, failures, doubled>>

Settle(w, j) == Run(w, j) \/ Ack(w, j) \/ Nack(w, j) \/ DeadLetter(w, j) \/ ToDlq(w, j) \/ Schedule(w, j)

\* The process restarts: its receipts and executions are gone.
Crash(w) ==
    /\ jobs[w] # {} /\ Fault
    /\ jobs' = [jobs EXCEPT ![w] = {}]
    /\ receipts' = [receipts EXCEPT ![w] = [t \in Task |-> None]]
    /\ scan' = [scan EXCEPT ![w] = 1]
    /\ fate' = [t \in Task |-> IF fate[t] # "done" /\ \E j \in jobs[w] : j.task = t /\ j.step \in Moving
                               THEN "dropped" ELSE fate[t]]
    /\ UNCHANGED <<setting, msgs, sentIds, due, failures, doubled>>

-----------------------------------------------------------------------------
Init ==
    /\ route \in {r \in [Worker \cup {Client} -> [Name -> Url \cup {None}]] :
                    /\ \A p \in DOMAIN r : ResolveQueueUrl(r[p])
                    /\ \A p, q \in DOMAIN r \ Strays : r[p] = r[q]}
    /\ dlqUrl \in HasDlq /\ concurrency \in Permits /\ maxRetries \in MaxRetries
    /\ msgs = [s \in Slot |-> None]
    /\ sentIds = {}
    /\ receipts = [w \in Worker |-> [t \in Task |-> None]]
    /\ scan = [w \in Worker |-> 1]
    /\ jobs = [w \in Worker |-> {}]
    /\ due = {} /\ doubled = {}
    /\ failures = [t \in Task |-> 0]
    /\ faults = 0
    /\ fate = [t \in Task |-> "new"]

Dequeue(w) == ReceiveNothing(w) \/ \E s \in Held : Receive(w, s)
Execute(w) == \E j \in jobs[w] : Settle(w, j)

Next ==
    \/ \E t \in Task : Enqueue(t) \/ EtaPasses(t)
    \/ \E s \in Held : DelayEnds(s) \/ TimesOut(s)
    \/ \E w \in Worker : Dequeue(w) \/ Execute(w) \/ Crash(w)

\* Workers go on, timeouts end, and SQS does not pass over a message for ever.
\* Nothing is assumed of producers and failures.
Fairness ==
    /\ \A w \in Worker : WF_vars(Dequeue(w)) /\ WF_vars(Execute(w))
    /\ WF_vars(\E t \in Task : EtaPasses(t))
    /\ WF_vars(\E s \in Held : DelayEnds(s) \/ (s[1] \notin Garbage /\ TimesOut(s)))
    /\ \A t \in Task \ Garbage : SF_vars(\E w \in Worker, s \in Held : s[1] = t /\ Receive(w, s))

Spec == Init /\ [][Next]_vars /\ Fairness

-----------------------------------------------------------------------------
(* Correctness *)

\* A message that SQS has taken is in SQS until its handler has succeeded, for
\* any failed call, timeout and crash: it can be lost only by the two handlers
\* that delete before they send, the eta guard and dead_letter, or because a
\* FIFO queue still remembers its deduplication id.
NoTaskVanishes ==
    \A t \in Task : fate[t] = "sent" =>
        \/ \E s \in Held : s[1] = t
        \/ \E j \in Executing(t) : j.step \in Moving

\* A message is executed twice at once only if its visibility timeout ended
\* under the first execution, or the eta guard sent it again although it could
\* not delete it.
ExclusiveExecution ==
    \A t \in Task \ doubled : Cardinality(Executing(t)) <= 1

\* Whatever else a worker receives meanwhile: the receipt with which it would
\* acknowledge or nack is that of the delivery it executes, and the last one, so
\* that the call has its effect.
ReceiptIsLast ==
    \A w \in Worker : \A j \in jobs[w] :
        j.step \notin Moving /\ j.task \notin doubled =>
            /\ receipts[w][j.task] = <<j.slot, j.receipt>>
            /\ j.slot \in Held /\ msgs[j.slot].receipt = j.receipt

\* Nobody finds in the dead-letter queue what is also in the task queue: of
\* such a message there was more than one execution.
DeadLetterIsFinal ==
    \A t \in Task \ doubled :
        (\E s \in Held : s[1] = t /\ msgs[s].place = "dlq") =>
            Cardinality({s \in Held : s[1] = t}) = 1 /\ Executing(t) = {}

\* While calls fail, timeouts end and workers crash: a message that SQS took is
\* not lost but by the two handlers that delete first, it is executed once at a
\* time unless its timeout ended, and a dead letter is nowhere else.
NeitherLostNorDoubled == TypeOK /\ NoTaskVanishes /\ ExclusiveExecution /\ DeadLetterIsFinal

\* A task is buried only after its handler has failed in the first run and in
\* all of its max_retries: neither a timeout, nor a crash, nor the redelivery
\* that follows makes it lose one of them.
BuriedOnlyWhenExhausted ==
    \A s \in Held : msgs[s].place = "dlq" => failures[s[1]] > maxRetries

QueueServed(t) ==
    LET u == route[Client][QueueOf[t]]
    IN  u \notin Fifo /\ \E w \in Worker : concurrency[w] > 0 /\ \E i \in DOMAIN Queues[w] : route[w][Queues[w][i]] = u

\* A message in a standard queue that somebody polls does not stay unsettled: a
\* name that is not configured is passed over, a receipt that is lost only
\* delays, and after every timeout somebody receives the message again.  The
\* exception is a handler that fails for ever: nack forgets the count, so nobody
\* gives the task up, and dequeue, which starts from the first queue each time,
\* may not come to the queues behind it.
EventuallySettled ==
    \A t \in Task \ Garbage :
        \/ []<>(fate[t] # "sent" \/ ~ QueueServed(t))
        \/ []<><<maxRetries > 0 /\ \E w \in Worker : \E j \in jobs[w] : Fail(w, j)>>_vars

-----------------------------------------------------------------------------
(* What the documentation says *)

\* kojin-sqs/src/broker.rs:33: "The `dead_letter()` method sends to the
\* configured `dlq_url` if set, otherwise nacks the message."
NackedWithoutDlq == \A t \in Task : fate[t] # "deleted"
=============================================================================
