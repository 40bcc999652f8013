------------------------------ MODULE Pipeline ------------------------------
(***************************************************************************)
(* The middleware pipeline around a handler: execute_task and              *)
(* handle_failure of kojin-core/src/worker.rs call before, after and       *)
(* on_error of each middleware in turn (kojin-core/src/middleware/), and   *)
(* the registry dispatches to the handler.  Messages run concurrently, and *)
(* the middlewares are shared by all of them.                              *)
(*                                                                         *)
(* Time is left to nondeterminism: the TTL of a deduplication key ends, a  *)
(* token is refilled and a backoff ends when they please.                  *)
(***************************************************************************)
EXTENDS Naturals, Sequences, FiniteSets, FiniteSetsExt

CONSTANTS
    Msg,            \* the deliveries, two copies of a task included
    IdOf,           \* delivery -> task id
    NameOf,         \* delivery -> task_name
    KeyOf,          \* delivery -> dedup_key, NoKey without one
    Registered,     \* the task names the registry knows
    Panics,         \* the deliveries whose handler may panic
    Pipelines,      \* the orders of middlewares to look at
    Buckets,        \* the modes of the rate limiter: "global", "per_task"
    Burst,          \* tokens in a full bucket
    MaxRetries,     \* max_retries of the messages
    NoKey

VARIABLES
    middlewares,    \* the worker's pipeline
    buckets,        \* the mode of the rate limiter
    exec,           \* delivery -> where it is: pc, index of the middleware, retries
    seen,           \* dedup_key -> "vacant", "fresh" or "stale" (older than the TTL)
    tokens,         \* bucket -> tokens left
    started, succeeded, failed,     \* MetricsMiddleware
    timings,        \* the task ids OtelMiddleware times
    admitted,       \* history: dedup_key -> deliveries let through in this TTL
    refused         \* history: number of executions refused as duplicates

pipelineVars == <<middlewares, buckets, exec, seen, tokens, started, succeeded, failed, timings, admitted, refused>>
counters == <<started, succeeded, failed>>
settings == <<middlewares, buckets>>

Keys == {KeyOf[m] : m \in Msg} \ {NoKey}
BucketNames == IF buckets = "global" THEN {"all"} ELSE {NameOf[m] : m \in Msg}
BucketOf(m) == IF buckets = "global" THEN "all" ELSE NameOf[m]

Current(m) == middlewares[exec[m].mw]
Moved(m, pc, mw) == [exec EXCEPT ![m].pc = pc, ![m].mw = mw]
InLoop(m, pc) == exec[m].pc = pc /\ exec[m].mw <= Len(middlewares)

-----------------------------------------------------------------------------
(* before *)

\* A worker takes the message from the queue.
Start(m) ==
    /\ exec[m].pc = "queued"
    /\ exec' = Moved(m, "before", 1)
    /\ UNCHANGED <<settings, seen, tokens, counters, timings, admitted, refused>>

\* Mutant of Admit: the timestamp of an expired entry is left as it is.
AdmitStale(k) == IF seen[k] = "vacant" THEN [seen EXCEPT ![k] = "fresh"] ELSE seen

\* A vacant entry is taken, the timestamp of an expired one updated.
Admit(k) == [seen EXCEPT ![k] = "fresh"]

\* Mutant of AfterRefusal: nothing is called for a refused message.
AfterRefusalSkip == Len(middlewares) + 1

\* handle_failure calls on_error of every middleware, from the first.
AfterRefusal == 1

\* The entry of the map is locked from the look-up to the insertion.
BeforeDedup(m) ==
    LET k == KeyOf[m]
    IN  IF k # NoKey /\ seen[k] = "fresh"
        THEN /\ exec' = Moved(m, "on_error", AfterRefusal)
             /\ refused' = refused + 1
             /\ UNCHANGED <<seen, admitted>>
        ELSE /\ exec' = Moved(m, "before", exec[m].mw + 1)
             /\ seen' = IF k = NoKey THEN seen ELSE Admit(k)
             /\ admitted' = IF k = NoKey THEN admitted ELSE [admitted EXCEPT ![k] = @ + 1]
             /\ UNCHANGED refused

\* One call of before.  The rate limiter waits for a token.
Before(m) ==
    /\ InLoop(m, "before")
    /\ Current(m) = "rate_limit" => tokens[BucketOf(m)] > 0
    /\ tokens' = IF Current(m) = "rate_limit" THEN [tokens EXCEPT ![BucketOf(m)] = @ - 1] ELSE tokens
    /\ started' = IF Current(m) = "metrics" THEN started + 1 ELSE started
    /\ timings' = IF Current(m) = "otel" THEN timings \cup {IdOf[m]} ELSE timings
    /\ IF Current(m) = "dedup"
       THEN BeforeDedup(m)
       ELSE exec' = Moved(m, "before", exec[m].mw + 1) /\ UNCHANGED <<seen, admitted, refused>>
    /\ UNCHANGED <<settings, succeeded, failed>>

\* registry.dispatch: the handler is missing, cannot read its payload, fails or
\* succeeds.
Dispatch(m, ok) ==
    /\ exec[m].pc = "before" /\ exec[m].mw > Len(middlewares)
    /\ ok => NameOf[m] \in Registered
    /\ exec' = Moved(m, IF ok THEN "after" ELSE "on_error", 1)
    /\ UNCHANGED <<settings, seen, tokens, counters, timings, admitted, refused>>

\* A panic ends the spawned task: no middleware is called any more, and the
\* message is not settled.
Panic(m) ==
    /\ exec[m].pc = "before" /\ exec[m].mw > Len(middlewares)
    /\ m \in Panics /\ NameOf[m] \in Registered
    /\ exec' = Moved(m, "panicked", 1)
    /\ UNCHANGED <<settings, seen, tokens, counters, timings, admitted, refused>>

-----------------------------------------------------------------------------
(* after and on_error *)

\* Mutant of RecordDuration: the entry stays after a failure.
RecordSuccess(m) ==
    IF Current(m) = "otel" /\ exec[m].pc = "after" THEN timings \ {IdOf[m]} ELSE timings

RecordDuration(m) == IF Current(m) = "otel" THEN timings \ {IdOf[m]} ELSE timings

After(m) ==
    /\ InLoop(m, "after")
    /\ exec' = Moved(m, "after", exec[m].mw + 1)
    /\ succeeded' = IF Current(m) = "metrics" THEN succeeded + 1 ELSE succeeded
    /\ timings' = RecordDuration(m)
    /\ UNCHANGED <<settings, seen, tokens, started, failed, admitted, refused>>

Ack(m) ==
    /\ exec[m].pc = "after" /\ exec[m].mw > Len(middlewares)
    /\ exec' = Moved(m, "acked", 1)
    /\ UNCHANGED <<settings, seen, tokens, counters, timings, admitted, refused>>

OnError(m) ==
    /\ InLoop(m, "on_error")
    /\ exec' = Moved(m, "on_error", exec[m].mw + 1)
    /\ failed' = IF Current(m) = "metrics" THEN failed + 1 ELSE failed
    /\ timings' = RecordDuration(m)
    /\ UNCHANGED <<settings, seen, tokens, started, succeeded, admitted, refused>>

Retried(m) == [exec EXCEPT ![m].pc = "backoff", ![m].retries = @ + 1]

MayRetry(m) == exec[m].retries < MaxRetries

\* A duplicate is retried and dead-lettered like any other failure.
RetryOrDeadLetter(m) ==
    /\ exec[m].pc = "on_error" /\ exec[m].mw > Len(middlewares)
    /\ exec' = IF MayRetry(m) THEN Retried(m) ELSE Moved(m, "dead", 1)
    /\ UNCHANGED <<settings, seen, tokens, counters, timings, admitted, refused>>

\* The sleep ends and nack puts the message back.
Nack(m) ==
    /\ exec[m].pc = "backoff"
    /\ exec' = Moved(m, "queued", 1)
    /\ UNCHANGED <<settings, seen, tokens, counters, timings, admitted, refused>>

-----------------------------------------------------------------------------
(* Time *)

TtlEnds(k) ==
    /\ seen[k] = "fresh"
    /\ seen' = [seen EXCEPT ![k] = "stale"]
    /\ admitted' = [admitted EXCEPT ![k] = 0]
    /\ UNCHANGED <<settings, exec, tokens, counters, timings, refused>>

\* DeduplicationMiddleware::cleanup, if the program calls it.
Cleanup ==
    /\ \E k \in Keys : seen[k] = "stale"
    /\ seen' = [k \in Keys |-> IF seen[k] = "stale" THEN "vacant" ELSE seen[k]]
    /\ UNCHANGED <<settings, exec, tokens, counters, timings, admitted, refused>>

Refill(b) ==
    /\ tokens[b] < Burst
    /\ tokens' = [tokens EXCEPT ![b] = @ + 1]
    /\ UNCHANGED <<settings, exec, seen, counters, timings, admitted, refused>>

-----------------------------------------------------------------------------
PipelineInit ==
    /\ middlewares \in Pipelines
    /\ buckets \in Buckets
    /\ buckets = "per_task" => \E i \in DOMAIN middlewares : middlewares[i] = "rate_limit"
    /\ exec = [m \in Msg |-> [pc |-> "queued", mw |-> 1, retries |-> 0]]
    /\ seen = [k \in Keys |-> "vacant"] /\ admitted = [k \in Keys |-> 0]
    /\ tokens = [b \in BucketNames |-> Burst]
    /\ started = 0 /\ succeeded = 0 /\ failed = 0 /\ refused = 0
    /\ timings = {}

Execute(m) ==
    \/ Start(m) \/ Before(m) \/ (\E ok \in BOOLEAN : Dispatch(m, ok)) \/ Panic(m)
    \/ After(m) \/ Ack(m) \/ OnError(m) \/ RetryOrDeadLetter(m) \/ Nack(m)

Step == (\E m \in Msg : Execute(m)) \/ (\E b \in BucketNames : Refill(b))

PipelineNext == Step \/ (\E k \in Keys : TtlEnds(k)) \/ Cleanup

\* The worker, handlers and refills go on while any of them can.  Nothing is
\* assumed about the end of a TTL.
Fairness == WF_pipelineVars(Step)

PipelineSpec == PipelineInit /\ [][PipelineNext]_pipelineVars

-----------------------------------------------------------------------------
(* Correctness *)

\* What the constants are: a pipeline is a list of middlewares.
ConstantsOK ==
    /\ MaxRetries \in Nat /\ Burst \in Nat
    /\ \A p \in Pipelines : p \in Seq(STRING)

\* There are finitely many deliveries, and a pipeline has one middleware of a
\* kind: the counters and the map of keys are those of one object.
CountersOK ==
    /\ IsFiniteSet(Msg)
    /\ \A p \in Pipelines : \A i, j \in DOMAIN p : p[i] = p[j] => i = j

Places == {"queued", "before", "after", "on_error", "backoff", "acked", "dead", "panicked"}

IndexOf(kind) == CHOOSE i \in DOMAIN middlewares : middlewares[i] = kind
Has(kind) == kind \in {middlewares[i] : i \in DOMAIN middlewares}

\* Executions that metrics has counted as started and not as ended, or as ended
\* and not as started.
BetweenCounts ==
    {m \in Msg : LET at == IndexOf("metrics") IN
        \/ exec[m].pc = "before" /\ exec[m].mw > at
        \/ exec[m].pc = "panicked"
        \/ exec[m].pc \in {"after", "on_error"} /\ exec[m].mw <= at}

\* The counters of MetricsMiddleware agree with what was executed: every start
\* is followed by one success or failure, unless the handler panics.  Where
\* deduplication comes before metrics, a refused message is counted as failed
\* and never as started.
CountersBalance ==
    Has("metrics") =>
        LET early == IF Has("dedup") /\ IndexOf("dedup") < IndexOf("metrics") THEN refused ELSE 0
        IN  started + early = succeeded + failed + Cardinality(BetweenCounts)

\* Within the TTL of a deduplication key one execution is let through, of all
\* messages that carry it and of all their retries: also the retry of the
\* message that has set the key is refused.
OneExecutionPerTtl == \A k \in Keys : admitted[k] <= 1

\* OtelMiddleware forgets the start of every execution that has ended, also of
\* those a later middleware refuses, and however two copies of a task overlap.
\* Only a panic leaves one behind.
NoTimingLeaks ==
    \A id \in timings : \E m \in Msg :
        IdOf[m] = id /\ exec[m].pc \in {"before", "after", "on_error", "panicked"}

\* No message waits for ever at a middleware, or is retried for ever: each is
\* acknowledged or dead-lettered, unless its handler panics.
EveryMessageSettles == <>(\A m \in Msg : exec[m].pc \in {"acked", "dead", "panicked"})

=============================================================================
