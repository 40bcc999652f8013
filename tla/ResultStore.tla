---------------------------- MODULE ResultStore ----------------------------
(***************************************************************************)
(* The result of one task in a result backend: the memory, Redis and       *)
(* PostgreSQL implementations of store, get, wait and delete.  A worker    *)
(* stores it (again when the task is delivered again), clients wait for it *)
(* or look it up over the dashboard, and it expires except in memory.      *)
(***************************************************************************)
EXTENDS Naturals, FiniteSets

CONSTANTS
    Client,         \* the callers of wait
    Values,         \* the results the executions of the task produce
    Backends,       \* a subset of {"memory", "redis", "postgres"}
    Timeout,        \* the timeout the callers pass
    PollEvery,      \* the sleep between two gets
    Ttl,            \* the time a result is kept, in ticks
    MaxTime,        \* bound: the clock stops here
    None

VARIABLES
    backend,        \* the implementation
    time,           \* the clock
    row,            \* the stored result [value, expires_at], None without one
    caller,         \* client -> where its wait stands, with deadline and answer
    page,           \* the status the dashboard last answered, None before
    visible,        \* history: client -> values that were there since it called wait
    steady          \* history: client -> a result was there since it went to sleep

vars == <<backend, time, row, caller, page, visible, steady>>

Answers == [kind : {"ok"}, value : Values] \cup [kind : {"timeout", "error"}]

-----------------------------------------------------------------------------
(* The backend *)

\* What store writes: SET with EX in Redis, an upsert with expires_at in
\* PostgreSQL; a result in memory is kept.
MemoryRow(v) == [value |-> v, expires_at |-> None]
RedisRow(v) == [value |-> v, expires_at |-> time + Ttl]
PostgresRow(v) == [value |-> v, expires_at |-> time + Ttl]

RowOf(v) ==
    CASE backend = "memory" -> MemoryRow(v) [] backend = "redis" -> RedisRow(v) [] OTHER -> PostgresRow(v)

\* What get finds in a row: Redis has deleted the key at the end of its TTL,
\* PostgreSQL compares expires_at with NOW().
MemoryGet(r, at) == r.value
RedisGet(r, at) == IF at < r.expires_at THEN r.value ELSE None
PostgresGet(r, at) == IF at < r.expires_at THEN r.value ELSE None

Readable(r, at) ==
    IF r = None THEN None
    ELSE CASE backend = "memory" -> MemoryGet(r, at)
           [] backend = "redis"  -> RedisGet(r, at)
           [] OTHER              -> PostgresGet(r, at)

\* A result that is stored, not deleted and not past its TTL.
Live(r, at) == IF r = None \/ (r.expires_at # None /\ at >= r.expires_at) THEN None ELSE r.value

\* History: what was there at every instant of the waits.
Observe ==
    LET v == Live(row', time')
    IN  /\ visible' = [c \in Client |->
                (IF caller[c].pc = "idle" THEN {} ELSE visible[c]) \cup ({v} \ {None})]
        /\ steady' = [c \in Client |-> /\ v # None
                                      /\ \/ steady[c]
                                         \/ caller'[c].pc = "sleep" /\ caller[c].pc # "sleep"]

\* A store replaces what an earlier execution stored, and its expiry.
Store(v) ==
    /\ row' = RowOf(v)
    /\ UNCHANGED <<backend, time, caller, page>>
    /\ Observe

Delete ==
    /\ row # None
    /\ row' = None
    /\ UNCHANGED <<backend, time, caller, page>>
    /\ Observe

Tick ==
    /\ time < MaxTime
    /\ time' = time + 1
    /\ UNCHANGED <<backend, row, caller, page>>
    /\ Observe

-----------------------------------------------------------------------------
(* wait, the same loop in the three backends *)

Goto(c, pc, answer) ==
    /\ caller' = [caller EXCEPT ![c].pc = pc, ![c].answer = answer]
    /\ UNCHANGED <<backend, time, row, page>>
    /\ Observe

\* Bound: calls whose deadline the clock reaches.
Wait(c) ==
    /\ caller[c].pc = "idle" /\ time + Timeout <= MaxTime
    /\ caller' = [caller EXCEPT ![c].pc = "get", ![c].deadline = time + Timeout]
    /\ UNCHANGED <<backend, time, row, page>>
    /\ Observe

Get(c) ==
    /\ caller[c].pc = "get"
    /\ LET v == Readable(row, time)
       IN  IF v = None THEN Goto(c, "check", None) ELSE Goto(c, "done", [kind |-> "ok", value |-> v])

\* The pool or the query of a backend that is a service fails: wait gives up.
GetFails(c) ==
    /\ backend # "memory" /\ caller[c].pc = "get"
    /\ Goto(c, "done", [kind |-> "error"])


Expired(c) == time >= caller[c].deadline

CheckDeadline(c) ==
    /\ caller[c].pc = "check"
    /\ IF Expired(c)
       THEN Goto(c, "done", [kind |-> "timeout"])
       ELSE /\ caller' = [caller EXCEPT ![c].pc = "sleep", ![c].wake = time + PollEvery]
            /\ UNCHANGED <<backend, time, row, page>>
            /\ Observe

\* Mutant of AfterSleep: the deadline is compared before the result is read.
AfterSleepCheck == "check"

AfterSleep == "get"

\* The sleep may end late; at MaxTime it ends at once.
Wake(c) ==
    /\ caller[c].pc = "sleep" /\ (time >= caller[c].wake \/ time = MaxTime)
    /\ Goto(c, AfterSleep, None)

\* GET /api/tasks/:id of the dashboard: one get, mapped to a status.  A dashboard
\* that has no backend answers 404, and an id that is no UUID is refused.
GetTaskResult ==
    /\ page' \in {400, 404} \cup (IF Readable(row, time) = None THEN {} ELSE {200})
                            \cup (IF backend = "memory" THEN {} ELSE {500})
    /\ UNCHANGED <<backend, time, row, caller>>
    /\ Observe

-----------------------------------------------------------------------------
Init ==
    /\ backend \in Backends
    /\ time = 0 /\ row = None /\ page = None
    /\ caller = [c \in Client |-> [pc |-> "idle", deadline |-> 0, wake |-> 0, answer |-> None]]
    /\ visible = [c \in Client |-> {}]
    /\ steady = [c \in Client |-> FALSE]

WaitStep(c) == Get(c) \/ GetFails(c) \/ CheckDeadline(c) \/ Wake(c)

Next ==
    \/ Tick \/ Delete \/ GetTaskResult
    \/ \E v \in Values : Store(v)
    \/ \E c \in Client : Wait(c) \/ WaitStep(c)

Spec == Init /\ [][Next]_vars

\* The clock runs and a runnable caller is resumed; nothing makes a worker
\* store a result.
Fairness == WF_vars(Tick) /\ \A c \in Client : WF_vars(WaitStep(c))

-----------------------------------------------------------------------------
(* Correctness *)

\* Times are natural numbers, and None is neither a time, a result, a row nor an
\* answer.
ResultConstants ==
    /\ Backends \subseteq {"memory", "redis", "postgres"}
    /\ Timeout \in Nat /\ PollEvery \in Nat /\ Ttl \in Nat /\ MaxTime \in Nat
    /\ None \notin Nat /\ None \notin Values /\ None \notin Answers
    /\ None \notin [value : Values, expires_at : Nat \cup {None}]

TypeOK ==
    /\ backend \in Backends /\ time \in 0..MaxTime /\ page \in {None, 200, 400, 404, 500}
    /\ row \in [value : Values, expires_at : 0..(MaxTime + Ttl) \cup {None}] \cup {None}
    /\ \A c \in Client :
        /\ caller[c].pc \in {"idle", "get", "check", "sleep", "done"}
        /\ caller[c].answer \in Answers \cup {None}

\* wait returns a result that was there, not deleted and not expired, at some
\* instant between call and return.
AnswerWasReadable ==
    \A c \in Client : caller[c].answer # None /\ caller[c].answer.kind = "ok" =>
        caller[c].answer.value \in visible[c]

\* wait does not time out before its deadline, nor on a result that was there
\* all through its last sleep: the result is read once more before the deadline
\* is compared, however late the sleep ended.
NoFalseTimeout ==
    \A c \in Client : caller[c].answer = [kind |-> "timeout"] =>
        time >= caller[c].deadline /\ ~steady[c]

\* wait returns only what get could have read during the call, and times out
\* neither early nor on a result it could have read.
WaitAnswersTruly == TypeOK /\ AnswerWasReadable /\ NoFalseTimeout

\* Every call of wait returns, whether or not a result is ever stored.
WaitReturns == \A c \in Client : caller[c].pc = "get" ~> caller[c].pc = "done"
=============================================================================
