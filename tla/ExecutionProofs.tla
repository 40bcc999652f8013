--------------------------- MODULE ExecutionProofs ---------------------------
(***************************************************************************)
(* Proofs about Pipeline, for any messages, any order of middlewares and   *)
(* any number of retries, and about Agent, for any tasks, permits and      *)
(* number of restarts.                                                     *)
(***************************************************************************)
EXTENDS Pipeline, Agent, FiniteSetTheorems, TLAPS

-----------------------------------------------------------------------------
(* Deduplication *)

\* A delivery that was let through in this TTL has left a fresh entry behind.
DedupInv ==
    /\ seen \in [Keys -> {"vacant", "fresh", "stale"}]
    /\ admitted \in [Keys -> {0, 1}]
    /\ \A k \in Keys : admitted[k] = 1 => seen[k] = "fresh"

\* The key of a message is one of Keys.
LEMMA KeyIsKey == \A m \in Msg : KeyOf[m] # NoKey => KeyOf[m] \in Keys
  BY DEF Keys

\* before of DeduplicationMiddleware lets a message through only if the entry
\* of its key is not fresh, and makes it fresh.
LEMMA BeforeKeepsDedup ==
  ASSUME NEW m \in Msg, DedupInv, Before(m)
  PROVE  DedupInv'
  <1>1. CASE UNCHANGED <<seen, admitted>>
    BY <1>1 DEF DedupInv
  <1>2. CASE KeyOf[m] # NoKey /\ seen[KeyOf[m]] # "fresh" /\ Current(m) = "dedup"
    <2> DEFINE k == KeyOf[m]
    <2>1. /\ seen' = [seen EXCEPT ![k] = "fresh"]
          /\ admitted' = [admitted EXCEPT ![k] = @ + 1]
      BY <1>2 DEF Before, BeforeDedup, Admit
    <2>2. k \in Keys
      BY <1>2, KeyIsKey
    <2>3. admitted[k] = 0
      BY <1>2, <2>2 DEF DedupInv
    <2>4. admitted'[k] = 1 /\ seen'[k] = "fresh"
      BY <2>1, <2>2, <2>3 DEF DedupInv
    <2>5. \A j \in Keys \ {k} : admitted'[j] = admitted[j] /\ seen'[j] = seen[j]
      BY <2>1 DEF DedupInv
    <2>6. seen' \in [Keys -> {"vacant", "fresh", "stale"}] /\ admitted' \in [Keys -> {0, 1}]
      BY <2>1, <2>2, <2>3 DEF DedupInv
    <2> QED
      BY <2>4, <2>5, <2>6 DEF DedupInv
  <1> QED
    BY <1>1, <1>2 DEF Before, BeforeDedup

\* Of all messages that carry a deduplication key, and of all their retries, one
\* execution at most is let through within the TTL of the key: the entry of
\* DeduplicationMiddleware is looked up and taken in one step.
THEOREM OneExecution == PipelineSpec => []OneExecutionPerTtl
  <1>1. PipelineInit => DedupInv
    BY DEF PipelineInit, DedupInv
  <1>2. DedupInv /\ [PipelineNext]_pipelineVars => DedupInv'
    <2> SUFFICES ASSUME DedupInv, [PipelineNext]_pipelineVars
                 PROVE  DedupInv'
      OBVIOUS
    <2>1. CASE UNCHANGED <<seen, admitted>>
      BY <2>1 DEF DedupInv
    <2>2. ASSUME NEW m \in Msg, Execute(m)
          PROVE  DedupInv'
      <3>1. CASE Before(m)
        BY <3>1, BeforeKeepsDedup
      <3> QED
        BY <2>1, <2>2, <3>1
        DEF Execute, Start, Dispatch, Panic, After, Ack, OnError, RetryOrDeadLetter, Nack
    <2>3. ASSUME NEW k \in Keys, TtlEnds(k)
          PROVE  DedupInv'
      BY <2>3 DEF TtlEnds, DedupInv
    <2>4. CASE Cleanup
      BY <2>4 DEF Cleanup, DedupInv
    <2>5. ASSUME NEW b \in BucketNames, Refill(b)
          PROVE  DedupInv'
      BY <2>1, <2>5 DEF Refill
    <2> QED
      BY <2>1, <2>2, <2>3, <2>4, <2>5 DEF PipelineNext, Step, pipelineVars
  <1>3. DedupInv => OneExecutionPerTtl
    BY DEF DedupInv, OneExecutionPerTtl
  <1> QED
    BY <1>1, <1>2, <1>3, PTL DEF PipelineSpec

-----------------------------------------------------------------------------
(* Start times *)

\* The type of the executions.
ExecType == [Msg -> [pc : Places, mw : Nat \ {0}, retries : Nat]]

\* The pipeline is a list, and the executions have their type.
ExecInv ==
    /\ middlewares \in Seq(STRING)
    /\ exec \in ExecType

\* OtelMiddleware is still to be called for m, from the middleware m is at.
OtelAhead(m) == \E i \in 1..Len(middlewares) : exec[m].mw <= i /\ middlewares[i] = "otel"

\* An execution that will remove the start time of its task, or panicked.
Holds(m) ==
    \/ exec[m].pc = "before" /\ Has("otel")
    \/ exec[m].pc \in {"after", "on_error"} /\ OtelAhead(m)
    \/ exec[m].pc = "panicked"

\* Somebody holds every start time.
TimingInv ==
    /\ ExecInv
    /\ \A id \in timings : \E m \in Msg : IdOf[m] = id /\ Holds(m)

\* An execution that calls OtelMiddleware has it in its pipeline.
LEMMA HasOtel ==
  ASSUME ExecInv
  PROVE  Has("otel") <=> \E i \in 1..Len(middlewares) : middlewares[i] = "otel"
  BY DEF ExecInv, Has

\* A step of m keeps the executions of all the other messages as they are.
LEMMA OthersHold ==
  ASSUME NEW m \in Msg, ExecInv, ExecInv', UNCHANGED middlewares,
         \A n \in Msg : n # m => exec'[n] = exec[n]
  PROVE  \A n \in Msg : n # m /\ Holds(n) => Holds(n)'
  BY DEF Holds, OtelAhead, Has

\* Every step of an execution keeps the type.
LEMMA ExecuteKeepsType ==
  ASSUME NEW m \in Msg, ExecInv, Execute(m)
  PROVE  /\ ExecInv'
         /\ UNCHANGED middlewares
         /\ \A n \in Msg : n # m => exec'[n] = exec[n]
  <1> USE DEF ExecInv
  <1>1. \A pc \in Places, mw \in Nat \ {0} :
          Moved(m, pc, mw) \in ExecType /\ \A n \in Msg : n # m => Moved(m, pc, mw)[n] = exec[n]
    BY DEF Moved, ExecType
  <1>2. Retried(m) \in ExecType /\ \A n \in Msg : n # m => Retried(m)[n] = exec[n]
    <2>1. /\ exec[m].mw \in Nat \ {0} /\ exec[m].retries + 1 \in Nat /\ "backoff" \in Places
          /\ exec[m] = [pc |-> exec[m].pc, mw |-> exec[m].mw, retries |-> exec[m].retries]
      BY DEF ExecType, Places
    <2>2. [exec[m] EXCEPT !.pc = "backoff", !.retries = @ + 1] \in [pc : Places, mw : Nat \ {0}, retries : Nat]
      BY <2>1
    <2>3. Retried(m) = [exec EXCEPT ![m] = [exec[m] EXCEPT !.pc = "backoff", !.retries = @ + 1]]
      BY DEF Retried, ExecType
    <2> QED
      BY <2>2, <2>3 DEF ExecType
  <1>3. exec[m].mw + 1 \in Nat \ {0} /\ 1 \in Nat \ {0}
    BY DEF ExecType
  <1>a. {"queued", "before", "after", "on_error", "acked", "dead", "panicked"} \subseteq Places
    BY DEF Places
  <1>4. CASE Start(m)
    BY <1>1, <1>3, <1>a, <1>4 DEF Start, settings
  <1>5. CASE Before(m)
    <2>1. CASE exec' = Moved(m, "on_error", AfterRefusal)
      BY <1>1, <1>3, <1>a, <1>5, <2>1 DEF Before, AfterRefusal, settings
    <2>2. CASE exec' = Moved(m, "before", exec[m].mw + 1)
      BY <1>1, <1>3, <1>a, <1>5, <2>2 DEF Before, settings
    <2> QED
      BY <1>5, <2>1, <2>2 DEF Before, BeforeDedup
  <1>6. ASSUME NEW ok \in BOOLEAN, Dispatch(m, ok)
        PROVE  /\ ExecInv'
               /\ UNCHANGED middlewares
               /\ \A n \in Msg : n # m => exec'[n] = exec[n]
    <2>1. exec' = Moved(m, "after", 1) \/ exec' = Moved(m, "on_error", 1)
      BY <1>6 DEF Dispatch
    <2> QED
      BY <1>1, <1>3, <1>a, <1>6, <2>1 DEF Dispatch, settings
  <1>8. CASE Panic(m)
    BY <1>1, <1>3, <1>a, <1>8 DEF Panic, settings
  <1>9. CASE After(m)
    BY <1>1, <1>3, <1>a, <1>9 DEF After, settings
  <1>10. CASE Ack(m)
    BY <1>1, <1>3, <1>a, <1>10 DEF Ack, settings
  <1>11. CASE OnError(m)
    BY <1>1, <1>3, <1>a, <1>11 DEF OnError, settings
  <1>12. CASE RetryOrDeadLetter(m)
    BY <1>1, <1>3, <1>a, <1>2, <1>12 DEF RetryOrDeadLetter, settings
  <1>13. CASE Nack(m)
    BY <1>1, <1>3, <1>a, <1>13 DEF Nack, settings
  <1> QED
    BY <1>4, <1>5, <1>6, <1>8, <1>9, <1>10, <1>11, <1>12, <1>13 DEF Execute

\* What a step of m has to show: if the start time of its task is kept and m held
\* it, m still does, and m holds a start time that it adds.
LEMMA HoldersSuffice ==
  ASSUME NEW m \in Msg, TimingInv, Execute(m),
         timings' \subseteq timings \cup {IdOf[m]},
         IdOf[m] \in timings' /\ (Holds(m) \/ IdOf[m] \notin timings) => Holds(m)'
  PROVE  TimingInv'
  <1>1. ExecInv /\ ExecInv' /\ UNCHANGED middlewares /\ \A n \in Msg : n # m => exec'[n] = exec[n]
    BY ExecuteKeepsType DEF TimingInv
  <1>2. \A n \in Msg : n # m /\ Holds(n) => Holds(n)'
    BY <1>1, OthersHold
  <1>3. ASSUME NEW id \in timings'
        PROVE  \E n \in Msg : IdOf[n] = id /\ Holds(n)'
    <2>1. CASE id \in timings
      <3>1. PICK n \in Msg : IdOf[n] = id /\ Holds(n)
        BY <2>1 DEF TimingInv
      <3>2. CASE n = m
        BY <1>3, <3>1, <3>2
      <3>3. CASE n # m
        BY <1>2, <3>1, <3>3
      <3> QED
        BY <3>2, <3>3
    <2>2. CASE id \notin timings
      <3>1. id = IdOf[m]
        BY <1>3, <2>2
      <3> QED
        BY <1>3, <2>2, <3>1
    <2> QED
      BY <2>1, <2>2
  <1> QED
    BY <1>1, <1>3 DEF TimingInv

\* before adds the start time, and a refusal sends m to on_error of every
\* middleware, OtelMiddleware included.
LEMMA BeforeKeepsTimings ==
  ASSUME NEW m \in Msg, TimingInv, Before(m)
  PROVE  TimingInv'
  <1>1. ExecInv /\ ExecInv' /\ UNCHANGED middlewares
    BY ExecuteKeepsType DEF TimingInv, Execute
  <1>2. /\ exec[m].pc = "before" /\ exec[m].mw \in 1..Len(middlewares)
        /\ timings' \subseteq timings \cup {IdOf[m]}
        /\ IdOf[m] \in timings' \ timings => middlewares[exec[m].mw] = "otel"
    BY <1>1 DEF ExecInv, ExecType, Before, InLoop, Current
  <1>3. \/ exec'[m].pc = "before"
        \/ exec'[m].pc = "on_error" /\ exec'[m].mw = 1
    BY <1>1 DEF Before, BeforeDedup, Moved, AfterRefusal, ExecInv, ExecType
  <1>4. ASSUME Holds(m) \/ IdOf[m] \in timings' \ timings
        PROVE  Holds(m)'
    <2>1. \E i \in 1..Len(middlewares) : middlewares[i] = "otel"
      BY <1>1, <1>2, <1>4, HasOtel DEF Holds
    <2>2. Has("otel")'
      BY <1>1, <2>1 DEF Has, ExecInv, ExecType
    <2>3. exec'[m].mw = 1 => OtelAhead(m)'
      BY <1>1, <2>1 DEF OtelAhead
    <2> QED
      BY <1>3, <2>2, <2>3 DEF Holds
  <1> QED
    BY <1>2, <1>4, HoldersSuffice DEF Execute

\* dispatch is followed by after or on_error of every middleware.
LEMMA DispatchKeepsTimings ==
  ASSUME NEW m \in Msg, TimingInv, NEW ok \in BOOLEAN, Dispatch(m, ok)
  PROVE  TimingInv'
  <1>0. Execute(m)
    BY DEF Execute
  <1>1. ExecInv /\ ExecInv' /\ UNCHANGED middlewares
    BY <1>0, ExecuteKeepsType DEF TimingInv
  <1>2. exec[m].pc = "before" /\ timings' = timings
    BY DEF Dispatch
  <1>3. exec'[m].pc \in {"after", "on_error"} /\ exec'[m].mw = 1
    BY <1>1 DEF Dispatch, Moved, ExecInv, ExecType
  <1>4. ASSUME Holds(m)
        PROVE  Holds(m)'
    <2>1. \E i \in 1..Len(middlewares) : middlewares[i] = "otel"
      BY <1>1, <1>2, <1>4, HasOtel DEF Holds
    <2>2. OtelAhead(m)'
      BY <1>1, <1>3, <2>1 DEF OtelAhead
    <2> QED
      BY <1>3, <2>2 DEF Holds
  <1> QED
    BY <1>0, <1>2, <1>4, HoldersSuffice

\* after and on_error remove the start time when it is the turn of OtelMiddleware,
\* and leave it ahead when it is not.
LEMMA CallKeepsTimings ==
  ASSUME NEW m \in Msg, TimingInv, After(m) \/ OnError(m)
  PROVE  TimingInv'
  <1>0. Execute(m)
    BY DEF Execute
  <1>1. ExecInv /\ ExecInv' /\ UNCHANGED middlewares
    BY <1>0, ExecuteKeepsType DEF TimingInv
  <1>2. /\ exec[m].pc \in {"after", "on_error"}
        /\ timings' = RecordDuration(m)
    BY DEF After, OnError, InLoop
  <1>3. exec'[m].pc = exec[m].pc /\ exec'[m].mw = exec[m].mw + 1
    BY <1>1 DEF After, OnError, InLoop, Moved, ExecInv, ExecType
  <1>4. ASSUME Holds(m), IdOf[m] \in timings'
        PROVE  Holds(m)'
    <2>1. PICK i \in 1..Len(middlewares) : exec[m].mw <= i /\ middlewares[i] = "otel"
      BY <1>2, <1>4 DEF Holds, OtelAhead
    <2>2. middlewares[exec[m].mw] # "otel"
      BY <1>2, <1>4 DEF RecordDuration, Current
    <2>3. exec[m].mw + 1 <= i
      BY <1>1, <2>1, <2>2 DEF ExecInv, ExecType
    <2>4. OtelAhead(m)'
      BY <1>1, <1>3, <2>1, <2>3 DEF OtelAhead
    <2> QED
      BY <1>2, <1>3, <2>4 DEF Holds
  <1>5. timings' \subseteq timings
    BY <1>2 DEF RecordDuration
  <1> QED
    BY <1>0, <1>4, <1>5, HoldersSuffice

\* The other steps are taken by executions that hold nothing, or panic.
LEMMA OtherStepsKeepTimings ==
  ASSUME NEW m \in Msg, TimingInv,
         Start(m) \/ Panic(m) \/ Ack(m) \/ RetryOrDeadLetter(m) \/ Nack(m)
  PROVE  TimingInv'
  <1>0. Execute(m)
    BY DEF Execute
  <1>1. ExecInv
    BY DEF TimingInv
  <1>2. timings' = timings
    BY DEF Start, Panic, Ack, RetryOrDeadLetter, Nack
  <1>3. CASE Panic(m)
    <2>1. exec'[m].pc = "panicked"
      BY <1>1, <1>3 DEF Panic, Moved, ExecInv, ExecType
    <2> QED
      BY <1>0, <1>2, <2>1, HoldersSuffice DEF Holds
  <1>4. CASE Start(m) \/ Nack(m)
    <2>1. ~Holds(m)
      BY <1>4 DEF Start, Nack, Holds
    <2> QED
      BY <1>0, <1>2, <2>1, HoldersSuffice
  <1>5. CASE Ack(m) \/ RetryOrDeadLetter(m)
    <2>1. exec[m].pc \in {"after", "on_error"} /\ exec[m].mw > Len(middlewares)
      BY <1>5 DEF Ack, RetryOrDeadLetter
    <2>2. ~OtelAhead(m)
      BY <1>1, <2>1 DEF OtelAhead, ExecInv, ExecType
    <2>3. ~Holds(m)
      BY <2>1, <2>2 DEF Holds
    <2> QED
      BY <1>0, <1>2, <2>3, HoldersSuffice
  <1> QED
    BY <1>3, <1>4, <1>5

\* OtelMiddleware forgets the start of every execution that has ended, whatever
\* the order of the middlewares, whichever of them refuses the message and
\* however the deliveries of one task overlap; only a panic leaves one behind.
THEOREM TimingsAreRemoved ==
  ASSUME ConstantsOK
  PROVE  PipelineSpec => []NoTimingLeaks
  <1>1. PipelineInit => TimingInv
    BY DEF PipelineInit, TimingInv, ExecInv, ExecType, Places, ConstantsOK
  <1>2. TimingInv /\ [PipelineNext]_pipelineVars => TimingInv'
    <2> SUFFICES ASSUME TimingInv, [PipelineNext]_pipelineVars
                 PROVE  TimingInv'
      OBVIOUS
    <2>1. CASE UNCHANGED <<middlewares, exec, timings>>
      BY <2>1 DEF TimingInv, ExecInv, ExecType, Holds, OtelAhead, Has
    <2>2. ASSUME NEW m \in Msg, Execute(m)
          PROVE  TimingInv'
      BY <2>2, BeforeKeepsTimings, DispatchKeepsTimings, CallKeepsTimings, OtherStepsKeepTimings DEF Execute
    <2>3. ASSUME NEW b \in BucketNames, Refill(b)
          PROVE  TimingInv'
      BY <2>1, <2>3 DEF Refill, settings
    <2>4. ASSUME NEW k \in Keys, TtlEnds(k)
          PROVE  TimingInv'
      BY <2>1, <2>4 DEF TtlEnds, settings
    <2>5. CASE Cleanup
      BY <2>1, <2>5 DEF Cleanup, settings
    <2> QED
      BY <2>1, <2>2, <2>3, <2>4, <2>5 DEF PipelineNext, Step, pipelineVars
  <1>3. TimingInv => NoTimingLeaks
    BY DEF TimingInv, NoTimingLeaks, Holds
  <1> QED
    BY <1>1, <1>2, <1>3, PTL DEF PipelineSpec

-----------------------------------------------------------------------------
(* Counters *)

\* What the counters are compared with, where deduplication comes first.
Early == IF Has("dedup") /\ IndexOf("dedup") < IndexOf("metrics") THEN refused ELSE 0

\* Starts, ends and what is in between balance; a kind of middleware is in one
\* place, so that an execution passes it once.
CounterInv ==
    /\ ExecInv
    /\ IsFiniteSet(Msg)
    /\ \A i, j \in DOMAIN middlewares : middlewares[i] = middlewares[j] => i = j
    /\ started \in Nat /\ succeeded \in Nat /\ failed \in Nat /\ refused \in Nat
    /\ CountersBalance

\* A kind that occurs is at its index, and nowhere else.
LEMMA IndexIsPlace ==
  ASSUME CounterInv, NEW kind, Has(kind)
  PROVE  /\ IndexOf(kind) \in 1..Len(middlewares)
         /\ middlewares[IndexOf(kind)] = kind
         /\ \A i \in DOMAIN middlewares : middlewares[i] = kind => i = IndexOf(kind)
  <1>1. \E i \in DOMAIN middlewares : middlewares[i] = kind
    BY DEF Has
  <1>2. IndexOf(kind) \in DOMAIN middlewares /\ middlewares[IndexOf(kind)] = kind
    BY <1>1 DEF IndexOf
  <1>3. DOMAIN middlewares = 1..Len(middlewares)
    BY DEF CounterInv, ExecInv
  <1> QED
    BY <1>2, <1>3 DEF CounterInv

\* Adding an element to a finite set, removing one, or neither, counts.
LEMMA OneMore ==
  ASSUME NEW S, NEW T, NEW m, IsFiniteSet(S), \A x : x # m => (x \in S <=> x \in T)
  PROVE  /\ Cardinality(S) \in Nat /\ Cardinality(T) \in Nat
         /\ (m \in S <=> m \in T) => Cardinality(T) = Cardinality(S)
         /\ m \notin S /\ m \in T => Cardinality(T) = Cardinality(S) + 1
         /\ m \in S /\ m \notin T => Cardinality(S) = Cardinality(T) + 1
  <1>1. CASE m \in S <=> m \in T
    <2>1. S = T
      BY <1>1
    <2> QED
      BY <1>1, <2>1, FS_CardinalityType
  <1>2. CASE m \notin S /\ m \in T
    <2>1. T = S \cup {m}
      BY <1>2
    <2> QED
      BY <1>2, <2>1, FS_AddElement, FS_CardinalityType
  <1>3. CASE m \in S /\ m \notin T
    <2>1. T = S \ {m} /\ S = T \cup {m}
      BY <1>3
    <2>2. IsFiniteSet(T)
      BY <2>1, FS_Subset
    <2>3. Cardinality(T \cup {m}) = Cardinality(T) + 1
      BY <1>3, <2>2, FS_AddElement
    <2> QED
      BY <1>3, <2>1, <2>2, <2>3, FS_CardinalityType
  <1> QED
    BY <1>1, <1>2, <1>3

\* Whether m is between its counts.
Between(m) ==
    \/ exec[m].pc = "before" /\ exec[m].mw > IndexOf("metrics")
    \/ exec[m].pc = "panicked"
    \/ exec[m].pc \in {"after", "on_error"} /\ exec[m].mw <= IndexOf("metrics")

\* What a step of m has to show: it counts what its own move makes uneven.
LEMMA CountsSuffice ==
  ASSUME NEW m \in Msg, CounterInv, Execute(m),
         started' \in Nat /\ succeeded' \in Nat /\ failed' \in Nat /\ refused' \in Nat,
         Has("metrics") =>
            \/ /\ started' + Early' + succeeded + failed = started + Early + succeeded' + failed'
               /\ Between(m) <=> Between(m)'
            \/ /\ started' + Early' + succeeded + failed = started + Early + succeeded' + failed' + 1
               /\ ~Between(m) /\ Between(m)'
            \/ /\ started' + Early' + succeeded + failed + 1 = started + Early + succeeded' + failed'
               /\ Between(m) /\ ~Between(m)'
  PROVE  CounterInv'
  <1>1. ExecInv /\ ExecInv' /\ UNCHANGED middlewares /\ \A n \in Msg : n # m => exec'[n] = exec[n]
    BY ExecuteKeepsType DEF CounterInv
  <1>2. Has("metrics")' = Has("metrics") /\ IndexOf("metrics")' = IndexOf("metrics")
    BY <1>1 DEF Has, IndexOf
  <1>3. SUFFICES CountersBalance'
    BY <1>1 DEF CounterInv
  <1>4. SUFFICES ASSUME Has("metrics")
                 PROVE  started' + Early' = succeeded' + failed' + Cardinality(BetweenCounts)'
    BY <1>2 DEF CountersBalance, Early, Has, IndexOf
  <1>5. started + Early = succeeded + failed + Cardinality(BetweenCounts)
    BY <1>4 DEF CounterInv, CountersBalance, Early
  <1>6. BetweenCounts = {n \in Msg : Between(n)} /\ BetweenCounts' = {n \in Msg : Between(n)'}
    BY DEF BetweenCounts, Between
  <1>7. \A n \in Msg : n # m => (Between(n) <=> Between(n)')
    BY <1>1, <1>2 DEF Between
  <1>8. IsFiniteSet(BetweenCounts)
    BY <1>6, FS_Subset DEF CounterInv
  <1>9. PICK S : S = BetweenCounts
    OBVIOUS
  <1>10. PICK T : T = BetweenCounts'
    OBVIOUS
  <1>11. /\ Cardinality(S) \in Nat /\ Cardinality(T) \in Nat
         /\ (Between(m) <=> Between(m)') => Cardinality(T) = Cardinality(S)
         /\ ~Between(m) /\ Between(m)' => Cardinality(T) = Cardinality(S) + 1
         /\ Between(m) /\ ~Between(m)' => Cardinality(S) = Cardinality(T) + 1
    <2>1. \A x : x # m => (x \in S <=> x \in T)
      BY <1>6, <1>7, <1>9, <1>10
    <2>2. (m \in S <=> Between(m)) /\ (m \in T <=> Between(m)')
      BY <1>6, <1>9, <1>10
    <2>3. IsFiniteSet(S)
      BY <1>8, <1>9
    <2> HIDE DEF Between
    <2> QED
      BY <2>1, <2>2, <2>3, OneMore
  <1>12. Early \in Nat /\ Early' \in Nat
    BY DEF Early, CounterInv
  <1>13. started + Early = succeeded + failed + Cardinality(S)
    BY <1>5, <1>9
  <1>14. started' + Early' = succeeded' + failed' + Cardinality(T)
    <2>1. started \in Nat /\ succeeded \in Nat /\ failed \in Nat
      BY DEF CounterInv
    <2> QED
      BY <1>4, <1>11, <1>12, <1>13, <2>1
  <1> QED
    BY <1>10, <1>14

\* A call of before counts the start at metrics, and a refusal where it has not.
LEMMA BeforeCounts ==
  ASSUME NEW m \in Msg, CounterInv, Before(m)
  PROVE  CounterInv'
  <1>0. Execute(m)
    BY DEF Execute
  <1>1. /\ ExecInv /\ ExecInv' /\ UNCHANGED <<middlewares, succeeded, failed>>
        /\ started \in Nat /\ succeeded \in Nat /\ failed \in Nat /\ refused \in Nat
    BY <1>0, ExecuteKeepsType DEF CounterInv, Before
  <1>2. PICK at : at = IndexOf("metrics")
    OBVIOUS
  <1>3. PICK i \in 1..Len(middlewares) : i = exec[m].mw
    BY <1>1 DEF Before, InLoop, ExecInv, ExecType
  <1>4. exec[m].pc = "before" /\ Current(m) = middlewares[i]
    BY <1>3 DEF Before, InLoop, Current
  <1>5. /\ IndexOf("metrics")' = at /\ IndexOf("dedup")' = IndexOf("dedup")
        /\ Has("dedup")' = Has("dedup")
    BY <1>1, <1>2 DEF IndexOf, Has
  <1>6. Has("metrics") => at \in 1..Len(middlewares) /\ (i = at <=> middlewares[i] = "metrics")
    BY <1>1, <1>2, IndexIsPlace DEF ExecInv
  <1>7. started' = IF middlewares[i] = "metrics" THEN started + 1 ELSE started
    BY <1>4 DEF Before
  <1>8. Len(middlewares) \in Nat
    BY <1>1 DEF ExecInv
  <1>9. CASE exec' = Moved(m, "before", exec[m].mw + 1) /\ UNCHANGED refused
    <2>1. exec'[m].pc = "before" /\ exec'[m].mw = i + 1
      BY <1>1, <1>3, <1>9 DEF Moved, ExecInv, ExecType
    <2>2. Early' = Early /\ Early \in Nat
      BY <1>1, <1>2, <1>5, <1>9 DEF Early
    <2>3. Between(m) <=> i > at
      BY <1>2, <1>3, <1>4 DEF Between
    <2>4. Between(m)' <=> i + 1 > at
      BY <1>5, <2>1 DEF Between
    <2>5. Has("metrics") /\ i = at =>
             /\ started' + Early' + succeeded + failed = started + Early + succeeded' + failed' + 1
             /\ ~Between(m) /\ Between(m)'
      <3>1. Has("metrics") /\ i = at => started' = started + 1
        BY <1>6, <1>7
      <3>2. i = at => ~(i > at) /\ i + 1 > at
        OBVIOUS
      <3> QED
        BY <1>1, <2>2, <2>3, <2>4, <3>1, <3>2
    <2>6. Has("metrics") /\ i # at =>
             /\ started' + Early' + succeeded + failed = started + Early + succeeded' + failed'
             /\ Between(m) <=> Between(m)'
      <3>1. Has("metrics") /\ i # at => started' = started
        BY <1>6, <1>7
      <3>2. Has("metrics") /\ i # at => (i > at <=> i + 1 > at)
        BY <1>6
      <3> QED
        BY <1>1, <2>2, <2>3, <2>4, <3>1, <3>2
    <2>7. started' \in Nat /\ succeeded' \in Nat /\ failed' \in Nat /\ refused' \in Nat
      BY <1>1, <1>7, <1>9
    <2> QED
      BY <1>0, <2>5, <2>6, <2>7, CountsSuffice
  <1>10. CASE /\ middlewares[i] = "dedup"
              /\ exec' = Moved(m, "on_error", AfterRefusal) /\ refused' = refused + 1
    <2>1. exec'[m].pc = "on_error" /\ exec'[m].mw = 1
      BY <1>1, <1>10 DEF Moved, ExecInv, ExecType, AfterRefusal
    <2>2. started' = started
      BY <1>7, <1>10
    <2>3. Has("dedup") /\ IndexOf("dedup") = i
      <3>1. Has("dedup")
        BY <1>1, <1>10 DEF Has, ExecInv
      <3> QED
        BY <1>1, <1>10, <3>1, IndexIsPlace DEF ExecInv
    <2>4. Early = (IF i < at THEN refused ELSE 0) /\ Early' = (IF i < at THEN refused + 1 ELSE 0)
      BY <1>2, <1>5, <1>10, <2>3 DEF Early
    <2>5. Between(m) <=> i > at
      BY <1>2, <1>3, <1>4 DEF Between
    <2>6. Between(m)' <=> 1 <= at
      BY <1>5, <2>1 DEF Between
    <2>7. Has("metrics") => i # at /\ 1 <= at /\ at \in Nat
      BY <1>6, <1>10
    <2>8. Has("metrics") /\ i < at =>
             /\ started' + Early' + succeeded + failed = started + Early + succeeded' + failed' + 1
             /\ ~Between(m) /\ Between(m)'
      BY <1>1, <2>2, <2>4, <2>5, <2>6, <2>7
    <2>9. Has("metrics") /\ ~(i < at) =>
             /\ started' + Early' + succeeded + failed = started + Early + succeeded' + failed'
             /\ Between(m) <=> Between(m)'
      BY <1>1, <2>2, <2>4, <2>5, <2>6, <2>7
    <2>10. started' \in Nat /\ succeeded' \in Nat /\ failed' \in Nat /\ refused' \in Nat
      BY <1>1, <1>10, <2>2
    <2> QED
      BY <1>0, <2>8, <2>9, <2>10, CountsSuffice
  <1> QED
    BY <1>4, <1>9, <1>10 DEF Before, BeforeDedup

\* A call of after or on_error counts the end at metrics.
LEMMA CallCounts ==
  ASSUME NEW m \in Msg, CounterInv, After(m) \/ OnError(m)
  PROVE  CounterInv'
  <1>0. Execute(m)
    BY DEF Execute
  <1>1. /\ ExecInv /\ ExecInv' /\ UNCHANGED <<middlewares, started, refused>>
        /\ started \in Nat /\ succeeded \in Nat /\ failed \in Nat /\ refused \in Nat
    BY <1>0, ExecuteKeepsType DEF CounterInv, After, OnError
  <1>2. PICK at : at = IndexOf("metrics")
    OBVIOUS
  <1>3. PICK i \in 1..Len(middlewares) : i = exec[m].mw
    BY <1>1 DEF After, OnError, InLoop, ExecInv, ExecType
  <1>4. exec[m].pc \in {"after", "on_error"} /\ Current(m) = middlewares[i]
    BY <1>3 DEF After, OnError, InLoop, Current
  <1>5. IndexOf("metrics")' = at /\ Early' = Early /\ Early \in Nat
    BY <1>1, <1>2 DEF IndexOf, Has, Early
  <1>6. Has("metrics") => at \in 1..Len(middlewares) /\ (i = at <=> middlewares[i] = "metrics")
    BY <1>1, <1>2, IndexIsPlace DEF ExecInv
  <1>7. /\ succeeded' + failed' =
              IF middlewares[i] = "metrics" THEN succeeded + failed + 1 ELSE succeeded + failed
        /\ succeeded' \in Nat /\ failed' \in Nat
    BY <1>1, <1>4 DEF After, OnError
  <1>8. exec'[m].pc \in {"after", "on_error"} /\ exec'[m].mw = i + 1
    BY <1>1, <1>3 DEF After, OnError, InLoop, Moved, ExecInv, ExecType
  <1>9. Between(m) <=> i <= at
    BY <1>2, <1>3, <1>4 DEF Between
  <1>10. Between(m)' <=> i + 1 <= at
    BY <1>5, <1>8 DEF Between
  <1>11. Has("metrics") /\ i = at =>
            /\ started' + Early' + succeeded + failed + 1 = started + Early + succeeded' + failed'
            /\ Between(m) /\ ~Between(m)'
    <2>1. Has("metrics") /\ i = at => succeeded' + failed' = succeeded + failed + 1
      BY <1>6, <1>7
    <2>2. i = at => i <= at /\ ~(i + 1 <= at)
      OBVIOUS
    <2>3. succeeded' \in Nat /\ failed' \in Nat
      BY <1>7
    <2>4. (succeeded' + failed' = succeeded + failed + 1) =>
             (started' + Early' + succeeded + failed + 1 = started + Early + succeeded' + failed')
      <3>1. PICK early \in Nat : early = Early /\ early = Early'
        BY <1>5
      <3>2. (succeeded' + failed' = succeeded + failed + 1) =>
               (started + early + succeeded + failed + 1 = started + early + succeeded' + failed')
        <4>1. PICK a \in Nat, c \in Nat, d \in Nat, c2 \in Nat, d2 \in Nat :
                 a = started /\ c = succeeded /\ d = failed /\ c2 = succeeded' /\ d2 = failed'
          BY <1>1, <2>3
        <4>2. (c2 + d2 = c + d + 1) => (a + early + c + d + 1 = a + early + c2 + d2)
          OBVIOUS
        <4> QED
          BY <4>1, <4>2, Zenon
      <3>3. started' = started
        BY <1>1
      <3> QED
        BY <3>1, <3>2, <3>3
    <2> QED
      BY <1>9, <1>10, <2>1, <2>2, <2>4
  <1>12. Has("metrics") /\ i # at =>
            /\ started' + Early' + succeeded + failed = started + Early + succeeded' + failed'
            /\ Between(m) <=> Between(m)'
    <2>1. Has("metrics") /\ i # at => succeeded' + failed' = succeeded + failed
      BY <1>6, <1>7
    <2>2. Has("metrics") /\ i # at => (i <= at <=> i + 1 <= at)
      BY <1>6
    <2>3. succeeded' \in Nat /\ failed' \in Nat
      BY <1>7
    <2>4. (succeeded' + failed' = succeeded + failed) =>
             (started' + Early' + succeeded + failed = started + Early + succeeded' + failed')
      <3>1. PICK early \in Nat : early = Early /\ early = Early'
        BY <1>5
      <3>2. (succeeded' + failed' = succeeded + failed) =>
               (started + early + succeeded + failed = started + early + succeeded' + failed')
        <4>1. PICK a \in Nat, c \in Nat, d \in Nat, c2 \in Nat, d2 \in Nat :
                 a = started /\ c = succeeded /\ d = failed /\ c2 = succeeded' /\ d2 = failed'
          BY <1>1, <2>3
        <4>2. (c2 + d2 = c + d) => (a + early + c + d = a + early + c2 + d2)
          OBVIOUS
        <4> QED
          BY <4>1, <4>2, Zenon
      <3>3. started' = started
        BY <1>1
      <3> QED
        BY <3>1, <3>2, <3>3
    <2> QED
      BY <1>9, <1>10, <2>1, <2>2, <2>4
  <1> QED
    BY <1>0, <1>1, <1>7, <1>11, <1>12, CountsSuffice

\* The other steps count nothing, and pass from one side of metrics to the other
\* only where the calls of before meet those of after and on_error.
LEMMA OtherCounts ==
  ASSUME NEW m \in Msg, CounterInv,
         \/ Start(m) \/ Panic(m) \/ Ack(m) \/ RetryOrDeadLetter(m) \/ Nack(m)
         \/ \E ok \in BOOLEAN : Dispatch(m, ok)
  PROVE  CounterInv'
  <1>0. Execute(m)
    BY DEF Execute
  <1>1. /\ ExecInv /\ ExecInv' /\ UNCHANGED <<middlewares, started, succeeded, failed, refused>>
        /\ started \in Nat /\ succeeded \in Nat /\ failed \in Nat /\ refused \in Nat
    BY <1>0, ExecuteKeepsType
       DEF CounterInv, Start, Panic, Ack, RetryOrDeadLetter, Nack, Dispatch, counters
  <1>2. PICK at : at = IndexOf("metrics")
    OBVIOUS
  <1>3. IndexOf("metrics")' = at /\ Early' = Early /\ Early \in Nat
    BY <1>1, <1>2 DEF IndexOf, Has, Early
  <1>4. Has("metrics") => at \in 1..Len(middlewares) /\ Len(middlewares) \in Nat
    BY <1>1, <1>2, IndexIsPlace DEF ExecInv
  <1>5. exec[m].mw \in Nat
    BY <1>1 DEF ExecInv, ExecType
  <1>6. Has("metrics") => (Between(m) <=> Between(m)')
    <2>1. CASE Panic(m) \/ \E ok \in BOOLEAN : Dispatch(m, ok)
      <3>1. /\ exec[m].pc = "before" /\ exec[m].mw > Len(middlewares)
            /\ exec'[m].pc = "panicked" \/ (exec'[m].pc \in {"after", "on_error"} /\ exec'[m].mw = 1)
        <4>1. /\ exec[m].pc = "before" /\ exec[m].mw > Len(middlewares)
              /\ \E pc \in {"panicked", "after", "on_error"} : exec' = Moved(m, pc, 1)
          BY <2>1 DEF Panic, Dispatch
        <4> QED
          BY <1>1, <4>1 DEF Moved, ExecInv, ExecType
      <3>2. Has("metrics") => exec[m].mw > at /\ 1 <= at
        BY <1>4, <1>5, <3>1
      <3> QED
        BY <1>2, <1>3, <3>1, <3>2 DEF Between
    <2>2. CASE Start(m)
      <3>1. exec[m].pc = "queued" /\ exec'[m].pc = "before" /\ exec'[m].mw = 1
        BY <1>1, <2>2 DEF Start, Moved, ExecInv, ExecType
      <3>2. Has("metrics") => ~(1 > at)
        BY <1>4
      <3> QED
        BY <1>2, <1>3, <3>1, <3>2 DEF Between
    <2>3. CASE Nack(m)
      <3>1. exec[m].pc = "backoff" /\ exec'[m].pc = "queued"
        BY <1>1, <2>3 DEF Nack, Moved, ExecInv, ExecType
      <3> QED
        BY <3>1 DEF Between
    <2>4. CASE Ack(m) \/ RetryOrDeadLetter(m)
      <3>1. /\ exec[m].pc \in {"after", "on_error"} /\ exec[m].mw > Len(middlewares)
            /\ exec'[m].pc \in {"acked", "dead", "backoff"}
        BY <1>1, <2>4 DEF Ack, RetryOrDeadLetter, Retried, Moved, ExecInv, ExecType
      <3>2. Has("metrics") => ~(exec[m].mw <= at)
        BY <1>4, <1>5, <3>1
      <3> QED
        BY <1>2, <1>3, <3>1, <3>2 DEF Between
    <2> QED
      BY <2>1, <2>2, <2>3, <2>4
  <1>7. started' + Early' + succeeded + failed = started + Early + succeeded' + failed'
    BY <1>1, <1>3
  <1> QED
    BY <1>0, <1>1, <1>6, <1>7, CountsSuffice

\* The counters of MetricsMiddleware balance, whatever the order of the
\* middlewares and however executions, retries, refusals and panics overlap:
\* every start is followed by one success or failure, and a message that
\* deduplication refuses before metrics has seen it counts as failed only.
THEOREM CountersAgree ==
  ASSUME ConstantsOK, CountersOK
  PROVE  PipelineSpec => []CountersBalance
  <1>1. PipelineInit => CounterInv
    <2> SUFFICES ASSUME PipelineInit PROVE CounterInv
      OBVIOUS
    <2>1. ExecInv
      BY DEF PipelineInit, ExecInv, ExecType, Places, ConstantsOK
    <2>2. BetweenCounts = {}
      BY DEF PipelineInit, BetweenCounts
    <2>3. CountersBalance
      BY <2>2, FS_EmptySet DEF PipelineInit, CountersBalance
    <2> QED
      BY <2>1, <2>3 DEF PipelineInit, CounterInv, CountersOK
  <1>2. CounterInv /\ [PipelineNext]_pipelineVars => CounterInv'
    <2> SUFFICES ASSUME CounterInv, [PipelineNext]_pipelineVars
                 PROVE  CounterInv'
      OBVIOUS
    <2>1. CASE UNCHANGED <<middlewares, exec, started, succeeded, failed, refused>>
      <3>1. ExecInv' /\ BetweenCounts' = BetweenCounts
        BY <2>1 DEF CounterInv, ExecInv, ExecType, BetweenCounts, IndexOf
      <3>2. CountersBalance'
        BY <2>1, <3>1 DEF CounterInv, CountersBalance, Has, IndexOf
      <3> QED
        BY <2>1, <3>1, <3>2 DEF CounterInv
    <2>2. ASSUME NEW m \in Msg, Execute(m)
          PROVE  CounterInv'
      BY <2>2, BeforeCounts, CallCounts, OtherCounts DEF Execute
    <2>3. ASSUME NEW b \in BucketNames, Refill(b)
          PROVE  CounterInv'
      BY <2>1, <2>3 DEF Refill, settings, counters
    <2>4. ASSUME NEW k \in Keys, TtlEnds(k)
          PROVE  CounterInv'
      BY <2>1, <2>4 DEF TtlEnds, settings, counters
    <2>5. CASE Cleanup
      BY <2>1, <2>5 DEF Cleanup, settings, counters
    <2> QED
      BY <2>1, <2>2, <2>3, <2>4, <2>5 DEF PipelineNext, Step, pipelineVars, counters
  <1>3. CounterInv => CountersBalance
    BY DEF CounterInv
  <1> QED
    BY <1>1, <1>2, <1>3, PTL DEF PipelineSpec

-----------------------------------------------------------------------------
(* Agents: types *)

Process == [job : Job, life : Nat, attempt : Nat]

JobType == [pc : {"queued", "acquire", "process", "test", "backoff"} \cup Settled \cup Abandoned, attempt : Nat,
            retries : Nat, life : Nat, tested : Process \cup {Nothing}]

\* The semaphore's waiters are exactly the tasks that want a permit, each once.
WaitInv ==
    /\ waiters \in Seq(Job)
    /\ \A i \in 1..Len(waiters) : job[waiters[i]].pc = "acquire"
    /\ \A i, k \in 1..Len(waiters) : waiters[i] = waiters[k] => i = k

TypeInv ==
    /\ job \in [Job -> JobType]
    /\ files \in [Dirs -> Process \cup {Nothing}]
    /\ processes \subseteq Process
    /\ permits \in Nat
    /\ restarts \in Nat
    /\ WaitInv

\* A record between two executions, with any pc.
LEMMA FreshJob ==
  ASSUME NEW n \in Nat, NEW pc \in {"queued", "done", "dead", "backoff"} \cup Abandoned
  PROVE  /\ Fresh(n) \in JobType /\ Fresh(n).pc = "queued"
         /\ [Fresh(n) EXCEPT !.pc = pc] \in JobType /\ [Fresh(n) EXCEPT !.pc = pc].pc = pc
  <1>1. [Fresh(n) EXCEPT !.pc = pc] = [pc |-> pc, attempt |-> 0, retries |-> n, life |-> 0, tested |-> Nothing]
    BY DEF Fresh
  <1>2. Fresh(n) = [pc |-> "queued", attempt |-> 0, retries |-> n, life |-> 0, tested |-> Nothing]
    BY DEF Fresh
  <1>3. pc \in {"queued", "acquire", "process", "test", "backoff"} \cup Settled \cup Abandoned
    BY DEF Settled
  <1> QED
    BY <1>1, <1>2, <1>3 DEF JobType

\* What the worker makes of a task that failed.
LEMMA FailedJob ==
  ASSUME NEW j \in Job, job \in [Job -> JobType]
  PROVE  Failed(j) \in JobType /\ Failed(j).pc \in {"backoff", "dead"}
  <1>1. job[j].retries + 1 \in Nat
    BY DEF JobType
  <1>2. /\ [Fresh(job[j].retries + 1) EXCEPT !.pc = "backoff"] \in JobType
        /\ [Fresh(job[j].retries + 1) EXCEPT !.pc = "backoff"].pc = "backoff"
    BY <1>1, FreshJob
  <1>3. [Fresh(0) EXCEPT !.pc = "dead"] \in JobType /\ [Fresh(0) EXCEPT !.pc = "dead"].pc = "dead"
    BY FreshJob
  <1> QED
    BY <1>2, <1>3 DEF Failed

\* A step of task j replaces its record by another one, next[j] below.
LEMMA OneRecord ==
  ASSUME NEW j \in Job, NEW r, job \in [Job -> JobType], r \in JobType, job' = [job EXCEPT ![j] = r]
  PROVE  /\ job' \in [Job -> JobType]
         /\ job'[j] = r
         /\ \A i \in Job : i # j => job'[i] = job[i]
  OBVIOUS

\* Directories exist.
LEMMA DirsExist ==
  ASSUME AgentConstants, NEW j \in Job
  PROVE  RunnerCwd(j) \in Dirs /\ TestCwd(j) \in Dirs
  BY DEF RunnerCwd, TestCwd, Dirs, AgentConstants

\* A task that does not wait is not among the waiters.
LEMMA NotWaiting ==
  ASSUME NEW j \in Job, WaitInv, job[j].pc # "acquire"
  PROVE  \A i \in 1..Len(waiters) : waiters[i] # j
  BY DEF WaitInv

-----------------------------------------------------------------------------
(* The steps, one by one: what becomes of the record of the task *)

\* The others are left alone.
Others(j) == \A i \in Job : i # j => job'[i] = job[i]

\* A task that has left the semaphore, and the waiters behind it.
LEMMA HeadLeaves ==
  ASSUME NEW j \in Job, WaitInv, waiters # <<>>, Head(waiters) = j
  PROVE  /\ job[j].pc = "acquire"
         /\ Tail(waiters) \in Seq(Job)
         /\ Len(Tail(waiters)) = Len(waiters) - 1
         /\ \A i \in 1..Len(Tail(waiters)) : Tail(waiters)[i] = waiters[i + 1] /\ Tail(waiters)[i] # j
  <1>1. Len(waiters) \in Nat /\ Len(waiters) >= 1 /\ waiters[1] = j
    BY DEF WaitInv
  <1>2. Len(Tail(waiters)) = Len(waiters) - 1 /\ Tail(waiters) \in Seq(Job)
    BY <1>1 DEF WaitInv
  <1>3. \A i \in 1..Len(Tail(waiters)) : Tail(waiters)[i] = waiters[i + 1] /\ i + 1 \in 1..Len(waiters) /\ i + 1 # 1
    BY <1>1, <1>2 DEF WaitInv
  <1>4. \A i \in 1..Len(Tail(waiters)) : waiters[i + 1] # waiters[1]
    BY <1>1, <1>3 DEF WaitInv
  <1> QED
    BY <1>1, <1>2, <1>3, <1>4 DEF WaitInv

\* The waiters after a step of j that takes it from the head.
LEMMA WaitersAfterLeave ==
  ASSUME NEW j \in Job, WaitInv, waiters # <<>>, Head(waiters) = j, waiters' = Tail(waiters), Others(j)
  PROVE  WaitInv'
  <1>1. \A i \in 1..Len(waiters') : waiters'[i] = waiters[i + 1] /\ waiters'[i] # j /\ waiters'[i] \in Job
    BY HeadLeaves
  <1>2. Len(waiters') = Len(waiters) - 1 /\ Len(waiters) \in Nat /\ waiters' \in Seq(Job)
    BY HeadLeaves DEF WaitInv
  <1>3. \A i \in 1..Len(waiters') : i + 1 \in 1..Len(waiters)
    BY <1>2
  <1>4. \A i \in 1..Len(waiters') : job'[waiters'[i]].pc = "acquire"
    BY <1>1, <1>3 DEF WaitInv, Others
  <1>5. \A i, k \in 1..Len(waiters') : waiters'[i] = waiters'[k] => i = k
    BY <1>1, <1>3 DEF WaitInv
  <1> QED
    BY <1>2, <1>4, <1>5 DEF WaitInv

\* The waiters after a step of j that makes it wait.
LEMMA WaitersAfterJoin ==
  ASSUME NEW j \in Job, WaitInv, job[j].pc # "acquire", waiters' = Append(waiters, j),
         job'[j].pc = "acquire", Others(j)
  PROVE  WaitInv'
  <1> DEFINE n == Len(waiters)
  <1>1. n \in Nat /\ waiters' \in Seq(Job) /\ Len(waiters') = n + 1 /\ waiters'[n + 1] = j
    BY DEF WaitInv
  <1>2. \A i \in 1..n : waiters'[i] = waiters[i] /\ waiters[i] \in Job /\ waiters[i] # j
    BY NotWaiting DEF WaitInv
  <1>3. \A i \in 1..(n + 1) : i \in 1..n \/ i = n + 1
    BY <1>1
  <1>4. \A i \in 1..(n + 1) : job'[waiters'[i]].pc = "acquire"
    BY <1>1, <1>2, <1>3 DEF WaitInv, Others
  <1>5. \A i, k \in 1..(n + 1) : waiters'[i] = waiters'[k] => i = k
    BY <1>1, <1>2, <1>3 DEF WaitInv
  <1> QED
    BY <1>1, <1>4, <1>5 DEF WaitInv

\* The waiters after a step of j that neither joins nor leaves them.
LEMMA WaitersStay ==
  ASSUME NEW j \in Job, WaitInv, job[j].pc # "acquire", UNCHANGED waiters, Others(j)
  PROVE  WaitInv'
  <1>1. \A i \in 1..Len(waiters) : waiters[i] \in Job /\ waiters[i] # j
    BY NotWaiting DEF WaitInv
  <1> QED
    BY <1>1 DEF WaitInv, Others

\* A worker starts the task, or there is no ClaudeRunner.
LEMMA RunStep ==
  ASSUME NEW j \in Job, TypeInv, Run(j)
  PROVE  /\ TypeInv' /\ Others(j)
         /\ job[j].pc = "queued" /\ job'[j].pc \in {"acquire", "backoff", "dead"}
         /\ job'[j].pc = "acquire" => job'[j].life = restarts
  <1> DEFINE a == [job[j] EXCEPT !.pc = "acquire", !.life = restarts]
             r == IF configured THEN a ELSE Failed(j)
  <1>1. job' = [job EXCEPT ![j] = r] /\ job[j].pc = "queued"
    BY DEF Run
  <1>2. a \in JobType /\ a.pc = "acquire" /\ a.life = restarts
    <2>1. job[j] \in JobType /\ restarts \in Nat
      BY DEF TypeInv
    <2> QED
      BY <2>1 DEF JobType
  <1>3. r \in JobType
    BY <1>2, FailedJob DEF TypeInv
  <1>4. job' \in [Job -> JobType] /\ job'[j] = r /\ Others(j)
    BY <1>1, <1>3, OneRecord DEF TypeInv, Others
  <1>5. CASE configured
    <2>1. WaitInv'
      BY <1>1, <1>2, <1>4, <1>5, WaitersAfterJoin DEF Run, TypeInv
    <2> QED
      BY <1>1, <1>2, <1>4, <1>5, <2>1 DEF Run, TypeInv
  <1>6. CASE ~configured
    <2>1. WaitInv'
      BY <1>1, <1>4, <1>6, WaitersStay DEF Run, TypeInv
    <2> QED
      BY <1>1, <1>4, <1>6, <2>1, FailedJob DEF Run, TypeInv
  <1> QED
    BY <1>5, <1>6

\* A task that failed goes back to its queue.
LEMMA RequeueStep ==
  ASSUME NEW j \in Job, TypeInv, Requeue(j)
  PROVE  TypeInv' /\ Others(j) /\ job[j].pc = "backoff" /\ job'[j].pc = "queued"
  <1>1. PICK n \in Nat : job' = [job EXCEPT ![j] = Fresh(n)]
    <2>1. job[j].retries \in Nat
      BY DEF TypeInv, JobType
    <2> QED
      BY <2>1 DEF Requeue
  <1>2. Fresh(n) \in JobType /\ Fresh(n).pc = "queued"
    BY FreshJob
  <1>3. job' \in [Job -> JobType] /\ job'[j] = Fresh(n) /\ Others(j)
    BY <1>1, <1>2, OneRecord DEF TypeInv, Others
  <1>4. WaitInv'
    BY <1>3, WaitersStay DEF Requeue, TypeInv
  <1> QED
    BY <1>2, <1>3, <1>4 DEF Requeue, TypeInv

\* A permit is taken and a process is started.
LEMMA SpawnStep ==
  ASSUME NEW j \in Job, TypeInv, Spawn(j)
  PROVE  /\ TypeInv' /\ Others(j)
         /\ job[j].pc = "acquire" /\ job'[j].pc = "process"
         /\ job'[j].life = job[j].life /\ job'[j].attempt = job[j].attempt
         /\ permits > 0 /\ permits' = permits - 1
         /\ OwnProcess(j) \in Process /\ processes' = processes \cup {OwnProcess(j)}
  <1> DEFINE r == [job[j] EXCEPT !.pc = "process"]
  <1>1. job' = [job EXCEPT ![j] = r]
    BY DEF Spawn, TypeInv, JobType
  <1>2. /\ r \in JobType /\ r.pc = "process" /\ r.life = job[j].life /\ r.attempt = job[j].attempt
        /\ job[j].life \in Nat /\ job[j].attempt \in Nat
    <2>1. job[j] \in JobType
      BY DEF TypeInv
    <2> QED
      BY <2>1 DEF JobType
  <1>3. job' \in [Job -> JobType] /\ job'[j] = r /\ Others(j)
    BY <1>1, <1>2, OneRecord DEF TypeInv, Others
  <1>4. WaitInv'
    BY <1>3, WaitersAfterLeave DEF Spawn, TypeInv
  <1>5. job[j].pc = "acquire"
    BY HeadLeaves DEF Spawn, TypeInv
  <1>6. permits > 0 /\ permits' = permits - 1 /\ permits' \in Nat /\ processes' = processes \cup {OwnProcess(j)}
    BY DEF Spawn, TypeInv
  <1>7. OwnProcess(j) \in Process
    BY <1>2 DEF OwnProcess, Process
  <1>8. processes' \subseteq Process
    BY <1>6, <1>7 DEF TypeInv
  <1> QED
    BY <1>2, <1>3, <1>4, <1>5, <1>6, <1>7, <1>8 DEF Spawn, TypeInv

\* The process ends: the task fails, is done, or goes on to its tests.
LEMMA ProcessEndsStep ==
  ASSUME AgentConstants, NEW j \in Job, NEW ok \in BOOLEAN, TypeInv, ProcessEnds(j, ok)
  PROVE  /\ TypeInv' /\ Others(j)
         /\ job[j].pc = "process" /\ job'[j].pc \in {"backoff", "dead", "done", "test"}
         /\ job'[j].pc = "test" => job'[j].life = job[j].life /\ job'[j].attempt = job[j].attempt
         /\ permits' = permits + 1
         /\ OwnProcess(j) \in Process /\ processes' = processes \ {OwnProcess(j)}
  <1> DEFINE d == [Fresh(0) EXCEPT !.pc = "done"]
             t == [job[j] EXCEPT !.pc = "test"]
             r == IF ~ok THEN Failed(j) ELSE IF KindOf[j] = "claude_code" THEN d ELSE t
  <1>1. job' = [job EXCEPT ![j] = r] /\ r \in {Failed(j), d, t}
    BY DEF ProcessEnds
  <1>2. job[j] \in JobType /\ job[j].life \in Nat /\ job[j].attempt \in Nat
    BY DEF TypeInv, JobType
  <1>3. d \in JobType /\ d.pc = "done"
    BY FreshJob
  <1>4. t \in JobType /\ t.pc = "test" /\ t.life = job[j].life /\ t.attempt = job[j].attempt
    BY <1>2 DEF JobType
  <1>5. r \in JobType
    BY <1>1, <1>3, <1>4, FailedJob DEF TypeInv
  <1>6. job' \in [Job -> JobType] /\ job'[j] = r /\ Others(j) /\ job[j].pc = "process"
    BY <1>1, <1>5, OneRecord DEF TypeInv, Others, ProcessEnds
  <1>7. /\ r.pc \in {"backoff", "dead", "done", "test"}
        /\ r.pc = "test" => r.life = job[j].life /\ r.attempt = job[j].attempt
    <2>1. Failed(j).pc \in {"backoff", "dead"}
      BY FailedJob DEF TypeInv
    <2> HIDE DEF d, t, r
    <2> QED
      BY <1>1, <1>3, <1>4, <2>1
  <1>8. WaitInv'
    BY <1>6, WaitersStay DEF ProcessEnds, TypeInv
  <1>9. /\ permits' = permits + 1 /\ permits' \in Nat
        /\ processes' = processes \ {OwnProcess(j)} /\ processes' \subseteq Process
    BY DEF ProcessEnds, Released, TypeInv
  <1>10. OwnProcess(j) \in Process /\ OwnProcess(j).job = j
    BY <1>2 DEF OwnProcess, Process
  <1>11. files' \in [Dirs -> Process \cup {Nothing}]
    BY <1>10, DirsExist DEF ProcessEnds, Written, TypeInv
  <1> QED
    BY <1>6, <1>7, <1>8, <1>9, <1>10, <1>11 DEF ProcessEnds, TypeInv

\* No process could be started, or the test command could not.
LEMMA FailStep ==
  ASSUME NEW j \in Job, TypeInv, SpawnFails(j) \/ TestErrs(j)
  PROVE  /\ TypeInv' /\ Others(j)
         /\ job[j].pc \in {"acquire", "test"} /\ job'[j].pc \in {"backoff", "dead"}
  <1>1. job' = [job EXCEPT ![j] = Failed(j)]
    BY DEF SpawnFails, TestErrs
  <1>2. job' \in [Job -> JobType] /\ job'[j] = Failed(j) /\ Others(j)
    BY <1>1, FailedJob, OneRecord DEF TypeInv, Others
  <1>3. CASE SpawnFails(j)
    <2>1. WaitInv' /\ job[j].pc = "acquire"
      BY <1>2, <1>3, WaitersAfterLeave, HeadLeaves DEF SpawnFails, TypeInv
    <2> QED
      BY <1>2, <1>3, <2>1, FailedJob DEF SpawnFails, TypeInv
  <1>4. CASE TestErrs(j)
    <2>1. WaitInv' /\ job[j].pc = "test"
      BY <1>2, <1>4, WaitersStay DEF TestErrs, TypeInv
    <2> QED
      BY <1>2, <1>4, <2>1, FailedJob DEF TestErrs, TypeInv
  <1> QED
    BY <1>3, <1>4

\* The tests ran: the task ends, or waits for a process that fixes its code.
LEMMA TestStep ==
  ASSUME AgentConstants, NEW j \in Job, TypeInv, TestPasses(j) \/ TestFails(j)
  PROVE  /\ TypeInv' /\ Others(j)
         /\ job[j].pc = "test" /\ job'[j].pc \in {"passed", "not_passed", "acquire"}
         /\ job'[j].life = job[j].life
         /\ job'[j].pc # "acquire" => job'[j].attempt = job[j].attempt /\ job'[j].tested = files[TestCwd(j)]
  <1> DEFINE v(pc) == [job[j] EXCEPT !.pc = pc, !.tested = files[TestCwd(j)]]
             a == [job[j] EXCEPT !.pc = "acquire", !.attempt = @ + 1]
  <1>1. files[TestCwd(j)] \in Process \cup {Nothing}
    BY DirsExist DEF TypeInv
  <1>2. job[j] \in JobType /\ job[j].pc = "test" /\ job[j].attempt + 1 \in Nat
    BY DEF TypeInv, JobType, TestPasses, TestFails
  <1>3. CASE \E pc \in {"passed", "not_passed"} : job' = [job EXCEPT ![j] = v(pc)] /\ waiters' = waiters
    <2>1. PICK pc \in {"passed", "not_passed"} : job' = [job EXCEPT ![j] = v(pc)] /\ waiters' = waiters
      BY <1>3
    <2>2. /\ v(pc) \in JobType /\ v(pc).pc = pc /\ v(pc).life = job[j].life
          /\ v(pc).attempt = job[j].attempt /\ v(pc).tested = files[TestCwd(j)]
      BY <1>1, <1>2, <2>1 DEF JobType, Settled
    <2>3. job' \in [Job -> JobType] /\ job'[j] = v(pc) /\ Others(j)
      BY <2>1, <2>2, OneRecord DEF TypeInv, Others
    <2>4. WaitInv'
      BY <1>2, <2>1, <2>3, WaitersStay DEF TypeInv
    <2> QED
      BY <1>2, <2>2, <2>3, <2>4 DEF TestPasses, TestFails, TypeInv
  <1>4. CASE job' = [job EXCEPT ![j] = a] /\ waiters' = Append(waiters, j)
    <2>1. a \in JobType /\ a.pc = "acquire" /\ a.life = job[j].life
      BY <1>2 DEF JobType
    <2>2. job' \in [Job -> JobType] /\ job'[j] = a /\ Others(j)
      BY <1>4, <2>1, OneRecord DEF TypeInv, Others
    <2>3. WaitInv'
      BY <1>2, <1>4, <2>1, <2>2, WaitersAfterJoin DEF TypeInv
    <2> QED
      BY <1>2, <2>1, <2>2, <2>3 DEF TestPasses, TestFails, TypeInv
  <1>5. TestPasses(j) => job' = [job EXCEPT ![j] = v("passed")] /\ waiters' = waiters
    BY <1>2 DEF TestPasses, TypeInv, JobType
  <1>6. TestFails(j) => \/ job' = [job EXCEPT ![j] = v("not_passed")] /\ waiters' = waiters
                        \/ job' = [job EXCEPT ![j] = a] /\ waiters' = Append(waiters, j)
    <2>1. CASE LastAttempt(j)
      BY <2>1 DEF TestFails
    <2>2. CASE ~LastAttempt(j)
      BY <2>2 DEF TestFails
    <2> QED
      BY <2>1, <2>2
  <1> QED
    BY <1>3, <1>4, <1>5, <1>6

\* The worker is restarted: nothing is in flight.
LEMMA RestartStep ==
  ASSUME AgentConstants, TypeInv, Restart
  PROVE  /\ TypeInv'
         /\ \A j \in Job : /\ job'[j].pc \notin {"acquire", "process", "test"}
                           /\ job'[j].pc \in {"passed", "not_passed"} => job'[j] = job[j]
         /\ permits' = MaxConcurrent /\ restarts' = restarts + 1 /\ processes' = processes
  <1>1. ASSUME NEW j \in Job
        PROVE  /\ job'[j] \in JobType
               /\ job'[j].pc \notin {"acquire", "process", "test"}
               /\ job'[j].pc \in {"passed", "not_passed"} => job'[j] = job[j]
    <2> DEFINE lost == [Fresh(0) EXCEPT !.pc = "lost"]
               stranded == [Fresh(0) EXCEPT !.pc = "stranded"]
    <2>1. job'[j] = AfterRestart(j) /\ job[j] \in JobType
      BY DEF TypeInv, Restart
    <2>2. /\ lost \in JobType /\ lost.pc = "lost"
          /\ stranded \in JobType /\ stranded.pc = "stranded"
          /\ Fresh(0) \in JobType /\ Fresh(0).pc = "queued"
      BY FreshJob DEF Abandoned
    <2>3. AfterRestart(j) \in {lost, stranded, Fresh(0)} \/ (AfterRestart(j) = job[j] /\ ~InFlight(j))
      BY DEF AfterRestart
    <2> HIDE DEF lost, stranded
    <2> QED
      BY <2>1, <2>2, <2>3 DEF InFlight
  <1>2. job' \in [Job -> JobType]
    BY <1>1 DEF Restart
  <1>3. WaitInv'
    BY DEF Restart, WaitInv
  <1>4. /\ permits' = MaxConcurrent /\ restarts' = restarts + 1 /\ processes' = processes
        /\ UNCHANGED files
    BY DEF Restart
  <1>5. TypeInv'
    BY <1>2, <1>3, <1>4 DEF TypeInv, AgentConstants
  <1> QED
    BY <1>1, <1>4, <1>5

\* A process nobody waits for ends.
LEMMA OrphanEndsStep ==
  ASSUME AgentConstants, TypeInv, NEW p \in processes, OrphanEnds(p)
  PROVE  TypeInv' /\ UNCHANGED <<job, permits, restarts>> /\ processes' = processes \ {p}
  <1>1. p \in Process /\ p.job \in Job
    BY DEF TypeInv, Process
  <1>2. files' \in [Dirs -> Process \cup {Nothing}]
    BY <1>1, DirsExist DEF OrphanEnds, Written, TypeInv
  <1> QED
    BY <1>2 DEF OrphanEnds, TypeInv, WaitInv

\* Every variable keeps its type, and the waiters are in line once.
LEMMA TypeStep ==
  ASSUME AgentConstants, TypeInv, [AgentNext]_agentVars
  PROVE  TypeInv'
  <1>1. CASE UNCHANGED agentVars
    BY <1>1 DEF agentVars, TypeInv, WaitInv
  <1>2. ASSUME NEW j \in Job, Advance(j)
        PROVE  TypeInv'
    BY <1>2, RunStep, RequeueStep, SpawnStep, ProcessEndsStep, FailStep, TestStep DEF Advance
  <1> QED
    BY <1>1, <1>2, RestartStep, OrphanEndsStep DEF AgentNext, AgentStep

LEMMA TypeInit ==
  ASSUME AgentConstants, AgentInit
  PROVE  TypeInv
  <1>1. Fresh(0) \in JobType
    BY FreshJob
  <1> QED
    BY <1>1 DEF AgentInit, TypeInv, WaitInv, AgentConstants

-----------------------------------------------------------------------------
(* The permits of the SemaphoreRunner *)

\* The processes a task waits for.
Live == processes \ Orphans

\* Live and orphaned processes are a partition of a finite set.
LEMMA Partition ==
  ASSUME IsFiniteSet(processes)
  PROVE  /\ IsFiniteSet(Live) /\ IsFiniteSet(Orphans)
         /\ Live \cup Orphans = processes /\ Live \cap Orphans = {}
         /\ Cardinality(Live) \in Nat /\ Cardinality(Orphans) \in Nat /\ Cardinality(processes) \in Nat
         /\ Cardinality(processes) = Cardinality(Live) + Cardinality(Orphans)
  <1>1. Live \cup Orphans = processes /\ Live \cap Orphans = {} /\ Live \subseteq processes /\ Orphans \subseteq processes
    BY DEF Live, Orphans
  <1>2. IsFiniteSet(Live) /\ IsFiniteSet(Orphans)
    BY <1>1, FS_Subset
  <1>3. Cardinality(Live) \in Nat /\ Cardinality(Orphans) \in Nat /\ Cardinality(processes) \in Nat
    BY <1>2, FS_CardinalityType
  <1>4. Cardinality(Live \cup Orphans) = Cardinality(Live) + Cardinality(Orphans) - Cardinality(Live \cap Orphans)
    BY <1>2, FS_Union
  <1>5. Cardinality(Live \cap Orphans) = 0
    BY <1>1, FS_EmptySet
  <1> QED
    BY <1>1, <1>2, <1>3, <1>4, <1>5

\* A task in "process" has its process, what goes on in a task belongs to the
\* present life of the worker, and so do just the processes tasks wait for.
OwnersInv ==
    /\ \A j \in Job : job[j].pc = "process" => OwnProcess(j) \in processes
    /\ \A j \in Job : job[j].pc \in {"acquire", "process", "test"} => job[j].life = restarts
    /\ \A p \in processes : /\ p.life <= restarts
                            /\ p.life = restarts => job[p.job].pc = "process" /\ p = OwnProcess(p.job)

\* Permits and processes add up, and each restart orphans at most MaxConcurrent.
PermitInv ==
    /\ TypeInv /\ OwnersInv
    /\ IsFiniteSet(processes)
    /\ Cardinality(Live) + permits = MaxConcurrent
    /\ Cardinality(Orphans) <= MaxConcurrent * restarts

\* A step of a task that neither starts a process nor ends one.
LEMMA QuietStep ==
  ASSUME NEW j \in Job, TypeInv, OwnersInv, Others(j), UNCHANGED <<processes, restarts>>,
         job[j].pc # "process", job'[j].pc # "process",
         job'[j].pc \in {"acquire", "test"} => job'[j].life = restarts
  PROVE  OwnersInv' /\ Orphans' = Orphans /\ Live' = Live
  <1>1. \A p \in processes : p.job \in Job
    BY DEF TypeInv, Process
  <1>2. Orphans' = Orphans /\ Live' = Live
    BY DEF Orphans, Live
  <1>3. \A i \in Job : i # j => OwnProcess(i)' = OwnProcess(i) /\ job'[i] = job[i]
    BY DEF Others, OwnProcess
  <1>4. \A p \in processes : p.life = restarts => p.job # j
    BY DEF OwnersInv
  <1> QED
    BY <1>1, <1>2, <1>3, <1>4 DEF OwnersInv

\* A process is started that no process is equal to.
LEMMA SpawnOwners ==
  ASSUME NEW j \in Job, TypeInv, OwnersInv, Spawn(j)
  PROVE  /\ OwnersInv' /\ Orphans' = Orphans
         /\ \E new : new \notin Live /\ Live' = Live \cup {new} /\ processes' = processes \cup {new}
  <1> DEFINE new == OwnProcess(j)
  <1>1. /\ Others(j) /\ job[j].pc = "acquire" /\ job'[j].pc = "process"
        /\ job'[j].life = job[j].life /\ job'[j].attempt = job[j].attempt
        /\ new \in Process /\ processes' = processes \cup {new}
    BY SpawnStep
  <1>2. restarts' = restarts /\ restarts \in Nat
    BY DEF Spawn, TypeInv
  <1>3. OwnProcess(j)' = new /\ \A i \in Job : i # j => OwnProcess(i)' = OwnProcess(i) /\ job'[i] = job[i]
    BY <1>1 DEF OwnProcess, Others
  <1>4. new.life = restarts /\ new.job = j
    BY <1>1 DEF OwnProcess, OwnersInv
  <1>5. \A p \in processes : p.life = restarts => p.job # j
    BY <1>1 DEF OwnersInv
  <1>6. new \notin processes
    BY <1>4, <1>5
  <1> HIDE DEF new
  <1>7. Orphans' = Orphans /\ Live' = Live \cup {new} /\ new \notin Live
    BY <1>1, <1>2, <1>4, <1>6 DEF Orphans, Live
  <1>8. \A p \in processes : p.job \in Job
    BY DEF TypeInv, Process
  <1>9. \A i \in Job : job'[i].pc = "process" => OwnProcess(i)' \in processes'
    BY <1>1, <1>3 DEF OwnersInv
  <1>10. \A i \in Job : job'[i].pc \in {"acquire", "process", "test"} => job'[i].life = restarts'
    BY <1>1, <1>2, <1>3 DEF OwnersInv
  <1>11. \A p \in processes' : /\ p.life <= restarts'
                               /\ p.life = restarts' => job'[p.job].pc = "process" /\ p = OwnProcess(p.job)'
    <2>1. \A p \in processes : /\ p.life <= restarts'
                               /\ p.life = restarts' => job'[p.job].pc = "process" /\ p = OwnProcess(p.job)'
      BY <1>2, <1>3, <1>5, <1>8 DEF OwnersInv
    <2> QED
      BY <1>1, <1>2, <1>3, <1>4, <2>1
  <1> QED
    BY <1>1, <1>7, <1>9, <1>10, <1>11 DEF OwnersInv

\* The process that ends is one that was waited for.
LEMMA EndOwners ==
  ASSUME AgentConstants, NEW j \in Job, NEW ok \in BOOLEAN, TypeInv, OwnersInv, ProcessEnds(j, ok)
  PROVE  /\ OwnersInv' /\ Orphans' = Orphans
         /\ OwnProcess(j) \in Live /\ Live' = Live \ {OwnProcess(j)}
         /\ processes' = processes \ {OwnProcess(j)}
  <1> DEFINE own == OwnProcess(j)
  <1>1. /\ Others(j) /\ job[j].pc = "process" /\ job'[j].pc \in {"backoff", "dead", "done", "test"}
        /\ job'[j].pc = "test" => job'[j].life = job[j].life
        /\ processes' = processes \ {own}
    BY ProcessEndsStep
  <1>2. restarts' = restarts
    BY DEF ProcessEnds
  <1>3. own \in processes /\ own.life = restarts /\ own.job = j
    BY <1>1 DEF OwnProcess, OwnersInv
  <1>4. \A i \in Job : i # j => OwnProcess(i)' = OwnProcess(i) /\ OwnProcess(i) # own /\ job'[i] = job[i]
    BY <1>1 DEF OwnProcess, Others
  <1>5. \A p \in processes' : p.job \in Job /\ p \in processes /\ (p.life = restarts => p.job # j)
    <2>1. \A p \in processes : p.job = j /\ p.life = restarts => p = own
      BY DEF OwnersInv
    <2> QED
      BY <1>1, <2>1 DEF TypeInv, Process
  <1> HIDE DEF own
  <1>6. own \in Live /\ Live' = Live \ {own} /\ Orphans' = Orphans
    BY <1>1, <1>2, <1>3 DEF Live, Orphans
  <1>7. \A i \in Job : job'[i].pc = "process" => OwnProcess(i)' \in processes'
    BY <1>1, <1>4 DEF OwnersInv
  <1>8. \A i \in Job : job'[i].pc \in {"acquire", "process", "test"} => job'[i].life = restarts'
    BY <1>1, <1>2, <1>4 DEF OwnersInv
  <1>9. \A p \in processes' : /\ p.life <= restarts'
                              /\ p.life = restarts' => job'[p.job].pc = "process" /\ p = OwnProcess(p.job)'
    BY <1>2, <1>4, <1>5 DEF OwnersInv
  <1>10. OwnersInv'
    BY <1>7, <1>8, <1>9 DEF OwnersInv
  <1> QED
    BY <1>1, <1>6, <1>10 DEF own

\* A restart leaves every process behind.
LEMMA RestartPermits ==
  ASSUME AgentConstants, PermitInv, Restart
  PROVE  PermitInv'
  <1>1. TypeInv /\ OwnersInv /\ IsFiniteSet(processes)
    BY DEF PermitInv
  <1>2. /\ TypeInv' /\ permits' = MaxConcurrent /\ restarts' = restarts + 1 /\ processes' = processes
        /\ \A j \in Job : job'[j].pc \notin {"acquire", "process", "test"}
    BY <1>1, RestartStep
  <1>3. \A p \in processes : p.life \in Nat /\ p.life <= restarts' /\ p.life # restarts'
    BY <1>1, <1>2 DEF TypeInv, Process, OwnersInv
  <1>4. OwnersInv'
    BY <1>2, <1>3 DEF OwnersInv
  <1>5. Orphans' = processes /\ Live' = {}
    BY <1>2, <1>3 DEF Orphans, Live
  <1>6. Cardinality(Live') = 0
    BY <1>5, FS_EmptySet
  <1>7. Cardinality(processes) <= MaxConcurrent * restarts + MaxConcurrent
    <2>1. MaxConcurrent \in Nat /\ restarts \in Nat /\ permits \in Nat /\ MaxConcurrent * restarts \in Nat
      BY <1>1 DEF AgentConstants, TypeInv
    <2>2. /\ Cardinality(Live) \in Nat /\ Cardinality(Orphans) \in Nat
          /\ Cardinality(processes) = Cardinality(Live) + Cardinality(Orphans)
      BY <1>1, Partition
    <2> QED
      BY <2>1, <2>2 DEF PermitInv
  <1>8. MaxConcurrent * restarts' = MaxConcurrent * restarts + MaxConcurrent
    BY <1>1, <1>2 DEF AgentConstants, TypeInv
  <1> QED
    BY <1>1, <1>2, <1>4, <1>5, <1>6, <1>7, <1>8 DEF PermitInv, AgentConstants

\* An orphan that ends was nobody's.
LEMMA OrphanEndsPermits ==
  ASSUME AgentConstants, PermitInv, NEW p \in processes, OrphanEnds(p)
  PROVE  PermitInv'
  <1>1. TypeInv /\ OwnersInv /\ IsFiniteSet(processes)
    BY DEF PermitInv
  <1>2. TypeInv' /\ UNCHANGED <<job, permits, restarts>> /\ processes' = processes \ {p} /\ p \in Orphans
    BY <1>1, OrphanEndsStep DEF OrphanEnds
  <1>3. Orphans' = Orphans \ {p} /\ Live' = Live
    BY <1>2 DEF Orphans, Live
  <1>4. OwnersInv'
    <2>1. \A j \in Job : OwnProcess(j)' = OwnProcess(j) /\ (job[j].pc = "process" => OwnProcess(j) # p)
      BY <1>1, <1>2 DEF Orphans, OwnProcess, OwnersInv
    <2>2. \A q \in processes : q.job \in Job
      BY <1>1 DEF TypeInv, Process
    <2> QED
      BY <1>1, <1>2, <2>1, <2>2 DEF OwnersInv
  <1>5. IsFiniteSet(Orphans) /\ Cardinality(Orphans) \in Nat
    BY <1>1, Partition
  <1>6. Cardinality(Orphans') = Cardinality(Orphans) - 1 /\ IsFiniteSet(processes')
    BY <1>1, <1>2, <1>3, <1>5, FS_RemoveElement
  <1>7. Cardinality(Orphans') <= MaxConcurrent * restarts
    <2>1. MaxConcurrent * restarts \in Nat
      BY <1>1 DEF AgentConstants, TypeInv
    <2> QED
      BY <1>5, <1>6, <2>1 DEF PermitInv
  <1> QED
    BY <1>1, <1>2, <1>3, <1>4, <1>6, <1>7 DEF PermitInv

\* A step of a task.
LEMMA AdvancePermits ==
  ASSUME AgentConstants, PermitInv, NEW j \in Job, Advance(j)
  PROVE  PermitInv'
  <1>1. TypeInv /\ OwnersInv /\ IsFiniteSet(processes) /\ IsFiniteSet(Live) /\ Cardinality(Live) \in Nat
    BY Partition DEF PermitInv
  <1>2. TypeInv'
    BY <1>1, TypeStep DEF AgentNext, AgentStep
  <1>3. permits \in Nat /\ MaxConcurrent \in Nat /\ UNCHANGED restarts
    BY <1>1 DEF TypeInv, AgentConstants, Advance, Run, Requeue, Spawn, SpawnFails, ProcessEnds, TestPasses, TestFails, TestErrs
  <1>4. CASE Run(j) \/ Requeue(j) \/ SpawnFails(j) \/ TestPasses(j) \/ TestFails(j) \/ TestErrs(j)
    <2>1. UNCHANGED <<processes, permits>>
      BY <1>4 DEF Run, Requeue, SpawnFails, TestPasses, TestFails, TestErrs
    <2>2. /\ Others(j) /\ job[j].pc # "process" /\ job'[j].pc # "process"
          /\ job'[j].pc \in {"acquire", "test"} => job'[j].life = restarts
      BY <1>1, <1>4, RunStep, RequeueStep, FailStep, TestStep DEF OwnersInv
    <2>3. OwnersInv' /\ Orphans' = Orphans /\ Live' = Live
      BY <1>1, <1>3, <2>1, <2>2, QuietStep
    <2> QED
      BY <1>2, <1>3, <2>1, <2>3 DEF PermitInv
  <1>5. CASE Spawn(j)
    <2>1. PICK new : new \notin Live /\ Live' = Live \cup {new} /\ processes' = processes \cup {new}
      BY <1>1, <1>5, SpawnOwners
    <2>2. OwnersInv' /\ Orphans' = Orphans
      BY <1>1, <1>5, SpawnOwners
    <2>3. Cardinality(Live') = Cardinality(Live) + 1 /\ IsFiniteSet(processes')
      BY <1>1, <2>1, FS_AddElement
    <2>4. permits' = permits - 1
      BY <1>5 DEF Spawn
    <2>5. Cardinality(Live') + permits' = MaxConcurrent
      BY <1>1, <1>3, <2>3, <2>4 DEF PermitInv
    <2> QED
      BY <1>2, <1>3, <2>2, <2>3, <2>5 DEF PermitInv
  <1>6. ASSUME NEW ok \in BOOLEAN, ProcessEnds(j, ok)
        PROVE  PermitInv'
    <2>1. /\ OwnersInv' /\ Orphans' = Orphans
          /\ OwnProcess(j) \in Live /\ Live' = Live \ {OwnProcess(j)}
          /\ processes' = processes \ {OwnProcess(j)}
      BY <1>1, <1>6, EndOwners
    <2>2. Cardinality(Live') = Cardinality(Live) - 1 /\ IsFiniteSet(processes')
      BY <1>1, <2>1, FS_RemoveElement, FS_Subset
    <2>3. permits' = permits + 1
      BY <1>6 DEF ProcessEnds, Released
    <2>4. Cardinality(Live') + permits' = MaxConcurrent
      BY <1>1, <1>3, <2>2, <2>3 DEF PermitInv
    <2> QED
      BY <1>2, <1>3, <2>1, <2>2, <2>4 DEF PermitInv
  <1> QED
    BY <1>4, <1>5, <1>6 DEF Advance

LEMMA PermitInit ==
  ASSUME AgentConstants, AgentInit
  PROVE  PermitInv
  <1>1. processes = {} /\ Live = {} /\ Orphans = {} /\ restarts = 0 /\ permits = MaxConcurrent
    BY DEF AgentInit, Live, Orphans
  <1>2. IsFiniteSet(processes) /\ Cardinality(Live) = 0 /\ Cardinality(Orphans) = 0
    BY <1>1, FS_EmptySet
  <1>3. OwnersInv
    BY <1>1 DEF AgentInit, OwnersInv, Fresh
  <1> QED
    BY <1>1, <1>2, <1>3, TypeInit DEF PermitInv, AgentConstants

LEMMA PermitStep ==
  ASSUME AgentConstants, PermitInv, [AgentNext]_agentVars
  PROVE  PermitInv'
  <1>1. CASE UNCHANGED agentVars
    <2>1. UNCHANGED <<job, permits, processes, restarts>> /\ TypeInv'
      BY <1>1, TypeStep DEF agentVars, PermitInv
    <2>2. Orphans' = Orphans /\ Live' = Live /\ OwnersInv'
      BY <2>1 DEF Orphans, Live, PermitInv, OwnersInv, OwnProcess
    <2> QED
      BY <2>1, <2>2 DEF PermitInv
  <1> QED
    BY <1>1, AdvancePermits, RestartPermits, OrphanEndsPermits DEF AgentNext, AgentStep

\* The processes that tasks wait for and the available permits add up to
\* MaxConcurrent whichever way a run ended, and only processes that survived a
\* restart of the worker come on top, MaxConcurrent for each.
THEOREM ProcessesAreLimited ==
  ASSUME AgentConstants
  PROVE  AgentSpec => []ProcessesLimited
  <1>1. PermitInv => ProcessesLimited
    <2> SUFFICES ASSUME PermitInv PROVE ProcessesLimited
      OBVIOUS
    <2>1. /\ Cardinality(Live) \in Nat /\ Cardinality(Orphans) \in Nat
          /\ Cardinality(processes) = Cardinality(Live) + Cardinality(Orphans)
      BY Partition DEF PermitInv
    <2>2. permits \in Nat /\ restarts \in Nat /\ MaxConcurrent \in Nat
          /\ MaxConcurrent * (1 + restarts) = MaxConcurrent * restarts + MaxConcurrent
          /\ MaxConcurrent * restarts \in Nat
      BY DEF PermitInv, TypeInv, AgentConstants
    <2>3. Cardinality(Live) = MaxConcurrent - permits
      BY <2>1, <2>2 DEF PermitInv
    <2>4. Cardinality(processes) <= MaxConcurrent * (1 + restarts)
      BY <2>1, <2>2, <2>3 DEF PermitInv
    <2> QED
      BY <2>3, <2>4 DEF ProcessesLimited, Live
  <1> QED
    BY <1>1, PermitInit, PermitStep, PTL DEF AgentSpec

\* Every variable keeps its type: permits neither run below 0 nor past
\* MaxConcurrent, and a task is in line at the semaphore once.
THEOREM AgentTypeCorrect ==
  ASSUME AgentConstants
  PROVE  AgentSpec => []AgentTypeOK
  <1>1. PermitInv => AgentTypeOK
    <2> SUFFICES ASSUME PermitInv PROVE AgentTypeOK
      OBVIOUS
    <2>1. \A j \in Job : job[j].pc \in {"queued", "acquire", "process", "test", "backoff"} \cup Settled \cup Abandoned
      BY DEF PermitInv, TypeInv, JobType
    <2>2. permits \in 0..MaxConcurrent
      <3>1. Cardinality(Live) \in Nat /\ permits \in Nat /\ MaxConcurrent \in Nat
        BY Partition DEF PermitInv, TypeInv, AgentConstants
      <3> QED
        BY <3>1 DEF PermitInv
    <2>3. waiters \in Seq(Job) /\ IsInjective(waiters)
      BY DEF PermitInv, TypeInv, WaitInv, IsInjective
    <2> QED
      BY <2>1, <2>2, <2>3 DEF AgentTypeOK
  <1> QED
    BY <1>1, PermitInit, PermitStep, PTL DEF AgentSpec

-----------------------------------------------------------------------------
(* What the tests of an SddTask look at *)

\* What lies in a directory is of task j itself, or of another one that works
\* there, or of a process of j that survived its worker.
Acceptable(j, found) ==
    /\ found # Nothing
    /\ \/ found = OwnProcess(j)
       \/ found.job # j /\ RunnerCwd(found.job) = CwdOf[j]
       \/ found.job = j /\ found.life < job[j].life

\* That is so from the end of a process of j to the verdict.
OwnCodeInv == \A j \in Job : job[j].pc = "test" /\ CwdOf[j] # Nothing => Acceptable(j, files[CwdOf[j]])

VerdictInv == PermitInv /\ OwnCodeInv /\ VerdictIsOnOwnCode

\* A task with a directory of its own runs its processes and its tests there.
LEMMA OwnDirectory ==
  ASSUME NEW j \in Job, CwdOf[j] # Nothing
  PROVE  RunnerCwd(j) = CwdOf[j] /\ TestCwd(j) = CwdOf[j] /\ CwdOf[j] \in Dirs
  BY DEF RunnerCwd, TestCwd, Dirs

\* A process that ends writes to one directory.
LEMMA WritesOwn ==
  ASSUME AgentConstants, TypeInv, NEW p \in Process, files' = Written(p)
  PROVE  /\ p # Nothing /\ p.job \in Job
         /\ files'[RunnerCwd(p.job)] = p
         /\ \A d \in Dirs : d # RunnerCwd(p.job) => files'[d] = files[d]
  <1>1. p # Nothing /\ p.job \in Job
    BY DEF AgentConstants, Process
  <1>2. RunnerCwd(p.job) \in Dirs /\ files \in [Dirs -> Process \cup {Nothing}]
    BY <1>1, DirsExist DEF TypeInv
  <1> QED
    BY <1>1, <1>2 DEF Written

\* A verdict that is there stays as it is.
LEMMA VerdictsStay ==
  ASSUME VerdictIsOnOwnCode,
         \A i \in Job : job'[i].pc \in {"passed", "not_passed"} => job'[i] = job[i]
  PROVE  VerdictIsOnOwnCode'
  BY DEF VerdictIsOnOwnCode, OwnProcess

\* Tests that end: the verdict is about what was found.
LEMMA VerdictOfTest ==
  ASSUME AgentConstants, VerdictInv, NEW j \in Job, TestPasses(j) \/ TestFails(j)
  PROVE  OwnCodeInv' /\ VerdictIsOnOwnCode'
  <1>1. /\ Others(j) /\ job[j].pc = "test" /\ job'[j].pc \in {"passed", "not_passed", "acquire"}
        /\ job'[j].life = job[j].life
        /\ job'[j].pc # "acquire" => job'[j].attempt = job[j].attempt /\ job'[j].tested = files[TestCwd(j)]
    BY TestStep DEF VerdictInv, PermitInv
  <1>2. UNCHANGED files
    BY DEF TestPasses, TestFails
  <1>3. OwnCodeInv'
    <2> SUFFICES ASSUME NEW i \in Job, job'[i].pc = "test", CwdOf[i] # Nothing
                 PROVE  Acceptable(i, files[CwdOf[i]])'
      BY DEF OwnCodeInv
    <2>1. i # j /\ job'[i] = job[i]
      BY <1>1 DEF Others
    <2>2. Acceptable(i, files[CwdOf[i]])
      BY <2>1 DEF VerdictInv, OwnCodeInv
    <2> QED
      BY <1>2, <2>1, <2>2 DEF Acceptable, OwnProcess
  <1>4. ASSUME job'[j].pc \in {"passed", "not_passed"}, CwdOf[j] # Nothing
        PROVE  Acceptable(j, job[j].tested)'
    <2>1. job'[j].tested = files[CwdOf[j]] /\ job'[j].attempt = job[j].attempt
      BY <1>1, <1>4, OwnDirectory
    <2>2. Acceptable(j, files[CwdOf[j]])
      BY <1>1, <1>4 DEF VerdictInv, OwnCodeInv
    <2> QED
      BY <1>1, <2>1, <2>2 DEF Acceptable, OwnProcess
  <1>5. VerdictIsOnOwnCode'
    <2> SUFFICES ASSUME NEW i \in Job, job'[i].pc \in {"passed", "not_passed"}, CwdOf[i] # Nothing
                 PROVE  Acceptable(i, job[i].tested)'
      BY DEF VerdictIsOnOwnCode, Acceptable
    <2>1. CASE i = j
      BY <1>4, <2>1
    <2>2. CASE i # j
      BY <1>1, <2>2 DEF VerdictInv, VerdictIsOnOwnCode, Acceptable, OwnProcess, Others
    <2> QED
      BY <2>1, <2>2
  <1> QED
    BY <1>3, <1>5

\* The process of a task ends, and its tests come next.
LEMMA VerdictOfProcess ==
  ASSUME AgentConstants, VerdictInv, NEW j \in Job, NEW ok \in BOOLEAN, ProcessEnds(j, ok)
  PROVE  OwnCodeInv' /\ VerdictIsOnOwnCode'
  <1>1. /\ Others(j) /\ job'[j].pc \in {"backoff", "dead", "done", "test"}
        /\ job'[j].pc = "test" => job'[j].life = job[j].life /\ job'[j].attempt = job[j].attempt
        /\ OwnProcess(j) \in Process
    BY ProcessEndsStep DEF VerdictInv, PermitInv
  <1>2. TypeInv /\ files' = Written(OwnProcess(j)) /\ OwnProcess(j).job = j
    BY DEF VerdictInv, PermitInv, ProcessEnds, OwnProcess
  <1>3. /\ OwnProcess(j) # Nothing
        /\ files'[RunnerCwd(j)] = OwnProcess(j)
        /\ \A d \in Dirs : d # RunnerCwd(j) => files'[d] = files[d]
    BY <1>1, <1>2, WritesOwn
  <1>4. ASSUME NEW i \in Job, job'[i].pc = "test", CwdOf[i] # Nothing
        PROVE  Acceptable(i, files[CwdOf[i]])'
    <2>1. RunnerCwd(i) = CwdOf[i] /\ CwdOf[i] \in Dirs
      BY <1>4, OwnDirectory
    <2>2. CASE i = j
      <3>1. OwnProcess(j)' = OwnProcess(j)
        BY <1>1, <1>4, <2>2 DEF OwnProcess
      <3> QED
        BY <1>3, <2>1, <2>2, <3>1 DEF Acceptable
    <2>3. CASE i # j /\ RunnerCwd(j) = CwdOf[i]
      BY <1>2, <1>3, <2>3 DEF Acceptable, RunnerCwd
    <2>4. CASE i # j /\ RunnerCwd(j) # CwdOf[i]
      <3>1. files'[CwdOf[i]] = files[CwdOf[i]] /\ job'[i] = job[i]
        BY <1>1, <1>3, <2>1, <2>4 DEF Others
      <3>2. Acceptable(i, files[CwdOf[i]])
        BY <1>4, <3>1 DEF VerdictInv, OwnCodeInv
      <3> QED
        BY <3>1, <3>2 DEF Acceptable, OwnProcess
    <2> QED
      BY <2>2, <2>3, <2>4
  <1>5. VerdictIsOnOwnCode'
    <2>1. \A i \in Job : job'[i].pc \in {"passed", "not_passed"} => job'[i] = job[i]
      BY <1>1 DEF Others
    <2> QED
      BY <2>1, VerdictsStay DEF VerdictInv
  <1> QED
    BY <1>4, <1>5 DEF OwnCodeInv

\* A process that survived its worker ends: it is of an earlier life than any test.
LEMMA VerdictOfOrphan ==
  ASSUME AgentConstants, VerdictInv, NEW p \in processes, OrphanEnds(p)
  PROVE  OwnCodeInv' /\ VerdictIsOnOwnCode'
  <1>1. TypeInv /\ OwnersInv /\ p \in Process /\ p.life \in Nat /\ restarts \in Nat
    BY DEF VerdictInv, PermitInv, TypeInv, Process
  <1>2. UNCHANGED <<job, restarts>> /\ files' = Written(p) /\ p.life < restarts
    BY <1>1 DEF OrphanEnds, Orphans, OwnersInv
  <1>3. /\ p # Nothing /\ p.job \in Job
        /\ files'[RunnerCwd(p.job)] = p
        /\ \A d \in Dirs : d # RunnerCwd(p.job) => files'[d] = files[d]
    BY <1>1, <1>2, WritesOwn
  <1>4. ASSUME NEW i \in Job, job'[i].pc = "test", CwdOf[i] # Nothing
        PROVE  Acceptable(i, files[CwdOf[i]])'
    <2>1. CwdOf[i] \in Dirs /\ job'[i].life = restarts
      BY <1>1, <1>2, <1>4, OwnDirectory DEF OwnersInv
    <2>2. CASE RunnerCwd(p.job) = CwdOf[i]
      BY <1>2, <1>3, <2>1, <2>2 DEF Acceptable, RunnerCwd
    <2>3. CASE RunnerCwd(p.job) # CwdOf[i]
      <3>1. files'[CwdOf[i]] = files[CwdOf[i]]
        BY <1>3, <2>1, <2>3
      <3>2. Acceptable(i, files[CwdOf[i]])
        BY <1>2, <1>4 DEF VerdictInv, OwnCodeInv
      <3> QED
        BY <1>2, <3>1, <3>2 DEF Acceptable, OwnProcess
    <2> QED
      BY <2>2, <2>3
  <1>5. VerdictIsOnOwnCode'
    <2>1. \A i \in Job : job'[i].pc \in {"passed", "not_passed"} => job'[i] = job[i]
      BY <1>2
    <2> QED
      BY <2>1, VerdictsStay DEF VerdictInv
  <1> QED
    BY <1>4, <1>5 DEF OwnCodeInv

\* The steps that write nothing and end no test.
LEMMA VerdictElsewhere ==
  ASSUME AgentConstants, VerdictInv, NEW j \in Job,
         Run(j) \/ Requeue(j) \/ Spawn(j) \/ SpawnFails(j) \/ TestErrs(j)
  PROVE  OwnCodeInv' /\ VerdictIsOnOwnCode'
  <1>1. Others(j) /\ job'[j].pc \in {"acquire", "backoff", "queued", "dead", "process"}
    BY RunStep, RequeueStep, SpawnStep, FailStep DEF VerdictInv, PermitInv
  <1>2. UNCHANGED files
    BY DEF Run, Requeue, Spawn, SpawnFails, TestErrs
  <1>3. ASSUME NEW i \in Job, job'[i].pc = "test", CwdOf[i] # Nothing
        PROVE  Acceptable(i, files[CwdOf[i]])'
    <2>1. job'[i] = job[i]
      BY <1>1, <1>3 DEF Others
    <2>2. Acceptable(i, files[CwdOf[i]])
      BY <1>3, <2>1 DEF VerdictInv, OwnCodeInv
    <2> QED
      BY <1>2, <2>1, <2>2 DEF Acceptable, OwnProcess
  <1>4. VerdictIsOnOwnCode'
    <2>1. \A i \in Job : job'[i].pc \in {"passed", "not_passed"} => job'[i] = job[i]
      BY <1>1 DEF Others
    <2> QED
      BY <2>1, VerdictsStay DEF VerdictInv
  <1> QED
    BY <1>3, <1>4 DEF OwnCodeInv

\* The verdict of an SddTask with a cwd is on what its own last process wrote,
\* whatever fails and however often the worker is restarted, save for two cases:
\* another task works in that directory too, or a process of an earlier execution
\* outlived its worker and wrote last.
THEOREM VerdictsAreOwn ==
  ASSUME AgentConstants
  PROVE  AgentSpec => []VerdictIsOnOwnCode
  <1>1. AgentInit => VerdictInv
    <2> SUFFICES ASSUME AgentInit PROVE VerdictInv
      OBVIOUS
    <2>1. \A j \in Job : job[j].pc = "queued"
      BY DEF AgentInit, Fresh
    <2> QED
      BY <2>1, PermitInit DEF VerdictInv, OwnCodeInv, VerdictIsOnOwnCode
  <1>2. VerdictInv /\ [AgentNext]_agentVars => VerdictInv'
    <2> SUFFICES ASSUME VerdictInv, [AgentNext]_agentVars
                 PROVE  OwnCodeInv' /\ VerdictIsOnOwnCode'
      BY PermitStep DEF VerdictInv
    <2>1. CASE UNCHANGED agentVars
      BY <2>1 DEF agentVars, VerdictInv, OwnCodeInv, Acceptable, VerdictIsOnOwnCode, OwnProcess
    <2>2. ASSUME NEW j \in Job, Advance(j)
          PROVE  OwnCodeInv' /\ VerdictIsOnOwnCode'
      BY <2>2, VerdictOfTest, VerdictOfProcess, VerdictElsewhere DEF Advance
    <2>3. CASE Restart
      <3>1. \A j \in Job : /\ job'[j].pc # "test"
                           /\ job'[j].pc \in {"passed", "not_passed"} => job'[j] = job[j]
        BY <2>3, RestartStep DEF VerdictInv, PermitInv
      <3> QED
        BY <3>1, VerdictsStay DEF VerdictInv, OwnCodeInv
    <2> QED
      BY <2>1, <2>2, <2>3, VerdictOfOrphan DEF AgentNext, AgentStep
  <1>3. VerdictInv => VerdictIsOnOwnCode
    BY DEF VerdictInv
  <1> QED
    BY <1>1, <1>2, <1>3, PTL DEF AgentSpec
=============================================================================
