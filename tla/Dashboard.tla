------------------------------ MODULE Dashboard ------------------------------
(***************************************************************************)
(* The views of the dashboard (kojin-dashboard/src/routes.rs) on a broker  *)
(* that others keep changing: the overview of all queues, which is put     *)
(* together from one call for the names and two per queue, and the pages   *)
(* of a dead-letter queue, which a client asks for one after the other.    *)
(* The brokers differ in which queues they list and how they page.         *)
(***************************************************************************)
EXTENDS Naturals, Sequences, FiniteSets, SequencesExt

CONSTANTS
    Queue,
    Brokers,        \* a subset of {"memory", "redis", "amqp", "sqs"}
    Consumed,       \* the queues this process was configured with (AMQP, SQS)
    Limits,         \* the limits that are passed
    MaxWaiting,     \* bound: messages in a queue
    MaxDead,        \* bound: dead letters of a queue
    None

VARIABLES
    broker,         \* the kind of broker
    waiting,        \* per queue: messages that wait
    used,           \* the queues that were ever enqueued to
    running,        \* per queue: messages that execute
    dlq,            \* per queue: the dead letters, numbered as they come
    overview,       \* the request for the overview: pc, todo, shown, before
    pager           \* the client that pages: queue, offset, limit, seen, before, asked, answer

brokerVars == <<waiting, used, running, dlq>>
vars == <<broker, brokerVars, overview, pager>>

Seen(s) == {s[i] : i \in DOMAIN s}

\* The entries from the position from to the position to, as far as there are any.
Slice(s, from, to) == SubSeq(s, from, IF to < Len(s) THEN to ELSE Len(s))

-----------------------------------------------------------------------------
(* What others do with the broker *)

Enqueue(q) ==
    /\ waiting[q] < MaxWaiting
    /\ waiting' = [waiting EXCEPT ![q] = @ + 1]
    /\ used' = used \cup {q}
    /\ UNCHANGED <<broker, running, dlq, overview, pager>>

Dequeue(q) ==
    /\ waiting[q] > 0 /\ running[q] = 0
    /\ waiting' = [waiting EXCEPT ![q] = @ - 1]
    /\ running' = [running EXCEPT ![q] = 1]
    /\ UNCHANGED <<broker, used, dlq, overview, pager>>

\* A Redis list grows at its head, the others at their end.
Buried(q) ==
    LET m == Len(dlq[q]) + 1
    IN  IF broker = "redis" THEN <<m>> \o dlq[q] ELSE Append(dlq[q], m)

DeadLetter(q) ==
    /\ running[q] = 1 /\ Len(dlq[q]) < MaxDead
    /\ running' = [running EXCEPT ![q] = 0]
    /\ dlq' = [dlq EXCEPT ![q] = Buried(q)]
    /\ UNCHANGED <<broker, waiting, used, overview, pager>>

-----------------------------------------------------------------------------
(* list_queues, queue_len and dlq_len of the brokers *)

\* Mutant of MemoryQueues: the queues that have messages.
MemoryQueuesFilled == {q \in used : waiting[q] > 0}

\* The keys of a map from which nothing is removed.
MemoryQueues == used

\* KEYS finds no list that is empty: Redis removes it with its last element.
RedisQueues == {q \in Queue : waiting[q] > 0}

\* The queues for which there is a consumer.
AmqpQueues == Consumed

\* The names of the configured urls.
SqsQueues == Consumed

ListQueues ==
    CASE broker = "memory" -> MemoryQueues [] broker = "redis" -> RedisQueues
      [] broker = "amqp" -> AmqpQueues [] OTHER -> SqsQueues

QueueLen(q) == waiting[q]

\* SQS has one dead-letter queue for all.
SqsDlqLen(q) == FoldSet(LAMBDA r, n : n + Len(dlq[r]), 0, Queue)

DlqLen(q) == IF broker = "sqs" THEN SqsDlqLen(q) ELSE Len(dlq[q])

-----------------------------------------------------------------------------
(* GET /api/queues *)

MayFail == broker # "memory"

\* The names, or 500.
GetQueues(ok) ==
    /\ overview.pc = "idle" /\ pager.queue = None
    /\ ok \/ MayFail
    /\ overview' = [pc |-> IF ok THEN "length" ELSE "error", shown |-> <<>>,
                    todo |-> IF ok THEN SetToSeq(ListQueues) ELSE <<>>,
                    before |-> {q \in Queue : dlq[q] # <<>>}]
    /\ UNCHANGED <<broker, brokerVars, pager>>

\* A length that cannot be had is shown as 0.
ShowLength(ok) ==
    /\ overview.pc = "length" /\ overview.todo # <<>>
    /\ ok \/ MayFail
    /\ overview' = [overview EXCEPT !.pc = "dlq_length",
            !.shown = Append(@, [name |-> Head(overview.todo), dlq_length |-> 0,
                                 length |-> IF ok THEN QueueLen(Head(overview.todo)) ELSE 0])]
    /\ UNCHANGED <<broker, brokerVars, pager>>

ShowDlqLength(ok) ==
    /\ overview.pc = "dlq_length"
    /\ ok \/ MayFail
    /\ overview' = [overview EXCEPT !.pc = "length", !.todo = Tail(@),
            !.shown[Len(overview.shown)].dlq_length = IF ok THEN DlqLen(Head(overview.todo)) ELSE 0]
    /\ UNCHANGED <<broker, brokerVars, pager>>

Answer ==
    /\ overview.pc = "length" /\ overview.todo = <<>>
    /\ overview' = [overview EXCEPT !.pc = "done"]
    /\ UNCHANGED <<broker, brokerVars, pager>>

-----------------------------------------------------------------------------
(* GET /api/queues/:name/dlq *)

MemoryPage(q, offset, limit) == {Slice(dlq[q], offset + 1, offset + limit)}

\* LRANGE offset .. offset + limit - 1, in which the end is taken along.  For 0
\* and 0 the subtraction underflows: a panic and no page, or in a release build
\* -1, which is the end of the list.
RedisPage(q, offset, limit) ==
    IF offset + limit = 0 THEN {None, dlq[q]} ELSE {Slice(dlq[q], offset + 1, offset + limit)}

\* basic_get and nack with requeue, offset + limit times: RabbitMQ decides where
\* a message it gets back is put, so each may be any dead letter.
AmqpPage(q, offset, limit) ==
    IF dlq[q] = <<>> THEN {<<>>} ELSE [1..limit -> Seen(dlq[q])]

\* The default of the trait.
SqsPage(q, offset, limit) == {<<>>}

Pages(q, offset, limit) ==
    CASE broker = "memory" -> MemoryPage(q, offset, limit) [] broker = "redis" -> RedisPage(q, offset, limit)
      [] broker = "amqp" -> AmqpPage(q, offset, limit) [] OTHER -> SqsPage(q, offset, limit)

\* A client starts with the first page of a queue.
OpenDlq(q, limit) ==
    /\ pager.queue = None /\ overview.pc = "idle"
    /\ pager' = [queue |-> q, offset |-> 0, limit |-> limit, seen |-> <<>>,
                 before |-> Seen(dlq[q]), asked |-> FALSE, answer |-> None]
    /\ UNCHANGED <<broker, brokerVars, overview>>

\* It asks for the next one for as long as the pages are full.
GetDlq ==
    /\ pager.queue # None /\ pager.offset <= MaxDead
    /\ pager.asked => pager.answer # None /\ Len(pager.answer) = pager.limit /\ pager.limit > 0
    /\ \E page \in Pages(pager.queue, pager.offset, pager.limit) :
         pager' = [pager EXCEPT !.asked = TRUE, !.answer = page, !.offset = @ + pager.limit,
                                !.seen = IF page = None THEN @ ELSE @ \o page]
    /\ UNCHANGED <<broker, brokerVars, overview>>

-----------------------------------------------------------------------------
Init ==
    /\ broker \in Brokers
    /\ waiting = [q \in Queue |-> 0] /\ running = [q \in Queue |-> 0]
    /\ used = {}
    /\ dlq = [q \in Queue |-> <<>>]
    /\ overview = [pc |-> "idle", todo |-> <<>>, shown |-> <<>>, before |-> {}]
    /\ pager = [queue |-> None, offset |-> 0, limit |-> 0, seen |-> <<>>, before |-> {},
                asked |-> FALSE, answer |-> None]

Next ==
    \/ \E q \in Queue : Enqueue(q) \/ Dequeue(q) \/ DeadLetter(q)
    \/ \E ok \in BOOLEAN : GetQueues(ok) \/ ShowLength(ok) \/ ShowDlqLength(ok)
    \/ Answer
    \/ \E q \in Queue, limit \in Limits : OpenDlq(q, limit)
    \/ GetDlq

Spec == Init /\ [][Next]_vars

-----------------------------------------------------------------------------
(* Correctness *)

\* Limits are natural numbers, and None is neither a queue nor a page.
ViewConstants ==
    /\ IsFiniteSet(Queue) /\ None \notin Queue
    /\ Brokers \subseteq {"memory", "redis", "amqp", "sqs"}
    /\ Limits \subseteq Nat /\ MaxWaiting \in Nat /\ MaxDead \in Nat
    /\ None \notin Seq(Nat)

\* The overview shows the dead letters of every queue that had any when it was
\* asked for, whatever comes and goes while it is put together.  That is so in
\* memory; Redis does not list a queue whose last message was dead-lettered.
DeadLettersShown ==
    broker = "memory" /\ overview.pc = "done" =>
        \A q \in overview.before :
            \E i \in DOMAIN overview.shown : overview.shown[i].name = q /\ overview.shown[i].dlq_length > 0

Exhausted == pager.answer # None /\ Len(pager.answer) < pager.limit

\* A client that pages to the end has seen every dead letter that was there when
\* it began, although others are added between two pages; in memory none of
\* them twice.
PagesMissNothing ==
    broker \in {"memory", "redis"} /\ Exhausted =>
        /\ pager.before \subseteq Seen(pager.seen)
        /\ broker = "memory" => IsInjective(pager.seen)

\* A page has at most limit entries, at the end of a list and for a limit of 0
\* too, except for the range of Redis from 0 to -1.
PageWithinLimit ==
    pager.answer # None =>
        Len(pager.answer) <= pager.limit \/ (broker = "redis" /\ pager.limit = 0 /\ pager.offset = 0)

\* The overview of a memory broker shows all dead letters there were, paging
\* passes over none, and a page has at most limit messages but for one case of
\* Redis.
ViewsMissNothing == DeadLettersShown /\ PagesMissNothing /\ PageWithinLimit
=============================================================================
