--------------------------- MODULE SqsBrokerProofs ---------------------------
(***************************************************************************)
(* Proofs about SqsBroker, for any number of tasks, queues and workers and *)
(* for any number of timeouts, failed calls and crashes.                   *)
(***************************************************************************)
EXTENDS SqsBroker, FiniteSetTheorems, TLAPS

-----------------------------------------------------------------------------
(* Types *)

TypeInv ==
    /\ TypeOK
    /\ scan \in [Worker -> Nat]
    /\ jobs \in [Worker -> SUBSET Job]
    /\ \A w \in Worker : IsFiniteSet(jobs[w])

\* A slot, a receipt and an execution belong to one task.
SlotInv ==
    /\ \A w \in Worker : \A j \in jobs[w] : j.slot[1] = j.task
    /\ \A w \in Worker : \A t \in Task : receipts[w][t] # None => receipts[w][t][1][1] = t

\* A set with a finite number of elements leaves one of the first numbers free.
LEMMA FreeNumber ==
  ASSUME NEW S, IsFiniteSet(S)
  PROVE  \E n \in 1..(Cardinality(S) + 1) : n \notin S
  <1> SUFFICES ASSUME 1..(Cardinality(S) + 1) \subseteq S PROVE FALSE
    OBVIOUS
  <1>1. Cardinality(S) \in Nat
    BY FS_CardinalityType
  <1>2. Cardinality(1..(Cardinality(S) + 1)) = Cardinality(S) + 1
    BY <1>1, FS_Interval
  <1>3. Cardinality(1..(Cardinality(S) + 1)) <= Cardinality(S)
    BY FS_Subset
  <1> QED
    BY <1>1, <1>2, <1>3

\* The image of a finite set under a function is finite.
LEMMA FiniteImage ==
  ASSUME NEW S, IsFiniteSet(S), NEW f, DOMAIN f = S
  PROVE  IsFiniteSet({f[x] : x \in S})
  <1> DEFINE T == {f[x] : x \in S}
  <1>1. [x \in S |-> f[x]] \in Surjection(S, T)
    BY DEF Surjection
  <1> QED
    BY <1>1, FS_Surjection

LEMMA ReceiptIsNumber ==
  ASSUME TypeInv, NEW s \in Slot
  PROVE  NewReceipt(s) \in Nat
  <1> DEFINE mine == {k \in Executing(s[1]) : k.slot = s}
             holders == {v \in Worker : receipts[v][s[1]] # None}
             ofJobs == {j.receipt : j \in mine}
             ofWorkers == {receipts[w][s[1]][2] : w \in holders}
             used == ofJobs \cup ofWorkers
  <1>1. IsFiniteSet(mine)
    <2>1. IsFiniteSet({jobs[w] : w \in Worker})
      BY FiniteImage, SqsAssumption DEF TypeInv
    <2>2. IsFiniteSet(UNION {jobs[w] : w \in Worker})
      BY <2>1, FS_UNION DEF TypeInv
    <2>3. mine \subseteq UNION {jobs[w] : w \in Worker}
      BY DEF Executing
    <2> QED
      BY <2>2, <2>3, FS_Subset
  <1>2. IsFiniteSet(ofJobs)
    <2> DEFINE f == [j \in mine |-> j.receipt]
    <2>1. ofJobs = {f[j] : j \in mine} /\ DOMAIN f = mine
      OBVIOUS
    <2> HIDE DEF f, mine, ofJobs
    <2> QED
      BY <1>1, <2>1, FiniteImage
  <1>3. IsFiniteSet(ofWorkers)
    <2> DEFINE f == [w \in holders |-> receipts[w][s[1]][2]]
    <2>1. ofWorkers = {f[w] : w \in holders} /\ DOMAIN f = holders
      OBVIOUS
    <2>2. IsFiniteSet(holders)
      BY FS_Subset, SqsAssumption
    <2> HIDE DEF f, holders, ofWorkers
    <2> QED
      BY <2>1, <2>2, FiniteImage
  <1>4. IsFiniteSet(used)
    BY <1>2, <1>3, FS_Union
  <1>5. \E n \in 1..(Cardinality(used) + 1) : n \notin used
    BY <1>4, FreeNumber
  <1>6. NewReceipt(s) = CHOOSE n \in 1..(Cardinality(used) + 1) : n \notin used
    BY DEF NewReceipt
  <1>7. NewReceipt(s) \in 1..(Cardinality(used) + 1)
    BY <1>5, <1>6
  <1> QED
    BY <1>7, <1>4, FS_CardinalityType

JobsOK ==
    /\ jobs \in [Worker -> SUBSET Job]
    /\ \A w \in Worker : IsFiniteSet(jobs[w]) /\ Cardinality(jobs[w]) <= concurrency[w]

Fates == {"new", "sent", "refused", "done", "buried", "deleted", "dropped"}

\* What SQS holds, and the fate of the tasks.
StoreOK ==
    /\ msgs \in [Slot -> Message \cup {None}]
    /\ sentIds \subseteq Fifo \X {DedupId[t] : t \in Task}
    /\ fate \in [Task -> Fates]

LEMMA TypeParts ==
  TypeInv <=> /\ route \in [Worker \cup {Client} -> [Name -> Url \cup {None}]]
              /\ dlqUrl \in BOOLEAN /\ concurrency \in [Worker -> Nat] /\ maxRetries \in MaxRetries
              /\ StoreOK
              /\ receipts \in [Worker -> [Task -> (Slot \X Nat) \cup {None}]]
              /\ scan \in [Worker -> Nat]
              /\ JobsOK
              /\ due \cup doubled \subseteq Task
              /\ failures \in [Task -> 0..MaxFailures]
              /\ faults \in 0..MaxFaults
  BY DEF TypeInv, TypeOK, StoreOK, JobsOK, Fates

\* An execution ends, or is replaced by what it becomes.
LEMMA JobsKept ==
  ASSUME JobsOK, concurrency \in [Worker -> Nat], UNCHANGED concurrency,
         NEW w \in Worker, NEW j \in jobs[w],
         Ends(w, j) \/ \E k \in Job : Becomes(w, j, k)
  PROVE  JobsOK'
  <1>1. IsFiniteSet(jobs[w]) /\ Cardinality(jobs[w]) <= concurrency[w] /\ Cardinality(jobs[w]) \in Nat
    BY FS_CardinalityType DEF JobsOK
  <1>2. IsFiniteSet(jobs[w] \ {j}) /\ Cardinality(jobs[w] \ {j}) = Cardinality(jobs[w]) - 1
    BY <1>1, FS_RemoveElement
  <1>3. CASE Ends(w, j)
    <2>1. jobs' = [jobs EXCEPT ![w] = jobs[w] \ {j}]
      BY <1>3 DEF Ends
    <2>2. Cardinality(jobs[w] \ {j}) <= concurrency[w]
      BY <1>1, <1>2
    <2> QED
      BY <1>2, <2>1, <2>2 DEF JobsOK
  <1>4. ASSUME NEW k \in Job, Becomes(w, j, k)
        PROVE  JobsOK'
    <2>1. jobs' = [jobs EXCEPT ![w] = (jobs[w] \ {j}) \cup {k}]
      BY <1>4 DEF Becomes
    <2> DEFINE rest == jobs[w] \ {j}
    <2>2. IsFiniteSet(rest) /\ Cardinality(rest) = Cardinality(jobs[w]) - 1
      BY <1>2
    <2> HIDE DEF rest
    <2>3. /\ IsFiniteSet(rest \cup {k})
          /\ Cardinality(rest \cup {k}) = Cardinality(rest) \/ Cardinality(rest \cup {k}) = Cardinality(rest) + 1
      BY <2>2, FS_AddElement
    <2>4. Cardinality(rest \cup {k}) <= concurrency[w]
      <3>1. concurrency[w] \in Nat
        OBVIOUS
      <3> QED
        BY <1>1, <2>2, <2>3, <3>1
    <2> QED
      BY <2>1, <2>3, <2>4 DEF JobsOK, rest
  <1> QED
    BY <1>3, <1>4

\* Send puts the message into a slot of its task that is free, or drops it.
LEMMA SendEffect ==
  ASSUME TypeInv, NEW t \in Task, NEW u \in Url \cup {None}, NEW r \in Nat,
         NEW place \in {"delayed", "visible", "invisible", "dlq"}, NEW f \in Fates,
         Send(t, u, r, place, f)
  PROVE  /\ StoreOK'
         /\ \/ Fated(t, "dropped") /\ UNCHANGED msgs
            \/ \E s \in Slot \ Held :
                  /\ s[1] = t
                  /\ msgs' = [msgs EXCEPT ![s] = [retries |-> r, url |-> u, receipt |-> 0, place |-> place]]
                  /\ Fated(t, f)
  <1>1. CASE u \in Fifo /\ <<u, DedupId[t]>> \in sentIds
    <2>1. Fated(t, "dropped") /\ UNCHANGED <<msgs, sentIds>>
      BY <1>1 DEF Send
    <2> QED
      BY <2>1, TypeParts DEF StoreOK, Fated, Fates
  <1>2. CASE ~(u \in Fifo /\ <<u, DedupId[t]>> \in sentIds)
    <2> DEFINE m == [retries |-> r, url |-> u, receipt |-> 0, place |-> place]
    <2>1. PICK k \in 1..MaxCopies :
              /\ <<t, k>> \notin Held
              /\ msgs' = [msgs EXCEPT ![<<t, k>>] = m]
              /\ sentIds' = IF u \in Fifo THEN sentIds \cup {<<u, DedupId[t]>>} ELSE sentIds
              /\ Fated(t, f)
      BY <1>2 DEF Send
    <2>2. <<t, k>> \in Slot \ Held /\ <<t, k>>[1] = t
      BY <2>1 DEF Slot
    <2>3. m \in Message
      BY DEF Message
    <2>4. fate' \in [Task -> Fates]
      BY <2>1, TypeParts DEF StoreOK, Fated
    <2>5. sentIds' \subseteq Fifo \X {DedupId[v] : v \in Task}
      BY <2>1, TypeParts DEF StoreOK
    <2>6. msgs' \in [Slot -> Message \cup {None}]
      BY <2>1, <2>2, <2>3, TypeParts DEF StoreOK
    <2> QED
      BY <2>1, <2>2, <2>4, <2>5, <2>6 DEF StoreOK
  <1> QED
    BY <1>1, <1>2

\* ack, nack and dead_letter remove the receipt of the task and change the slot
\* that it names, if they change anything; with the last receipt they do, unless
\* the call fails.
LEMMA ResolveEffect ==
  ASSUME TypeInv, SlotInv, NEW w \in Worker, NEW t \in Task, NEW becomes, Resolve(w, t, becomes)
  PROVE  /\ receipts' = [receipts EXCEPT ![w][t] = None]
         /\ faults' \in 0..MaxFaults
         /\ \/ UNCHANGED msgs
            \/ \E s \in Held : s[1] = t /\ msgs' = [msgs EXCEPT ![s] = becomes[s]]
         /\ faults' # faults => UNCHANGED msgs
         /\ \A s \in Held, n \in Nat :
                receipts[w][t] = <<s, n>> /\ msgs[s].receipt = n /\ faults' = faults
                    => msgs' = [msgs EXCEPT ![s] = becomes[s]]
  <1> DEFINE r == receipts[w][t]
  <1>1. r = None \/ (r \in Slot \X Nat /\ r[1][1] = t)
    BY TypeParts DEF SlotInv
  <1>2. faults \in 0..MaxFaults /\ MaxFaults \in Nat
    BY TypeParts, SqsAssumption
  <1>3. Fault => faults' # faults /\ faults' \in 0..MaxFaults
    BY <1>2 DEF Fault
  <1>4. CASE r # None /\ Fault /\ UNCHANGED msgs
    BY <1>3, <1>4 DEF Resolve
  <1>5. CASE /\ IF r = None \/ r[1] \notin Held
                THEN msgs' = msgs
                ELSE IF msgs[r[1]].receipt = r[2] THEN msgs' = [msgs EXCEPT ![r[1]] = becomes[r[1]]]
                     ELSE msgs' \in {msgs, [msgs EXCEPT ![r[1]] = becomes[r[1]]]}
             /\ UNCHANGED faults
    <2>1. UNCHANGED msgs \/ (r # None /\ r[1] \in Held /\ msgs' = [msgs EXCEPT ![r[1]] = becomes[r[1]]])
      BY <1>5
    <2>2. ASSUME NEW s \in Held, NEW n \in Nat, r = <<s, n>>, msgs[s].receipt = n
          PROVE  msgs' = [msgs EXCEPT ![s] = becomes[s]]
      <3>1. r[1] = s /\ r[2] = n /\ r # None
        BY <2>2, NoneAssumption DEF Held
      <3> QED
        BY <1>5, <2>2, <3>1
    <2> QED
      BY <1>1, <1>2, <1>5, <2>1, <2>2 DEF Resolve
  <1> QED
    BY <1>4, <1>5 DEF Resolve

BaseInv == TypeInv /\ SlotInv

\* The executions of worker w lose j, and gain k of the same task and slot.
Steps1(w, j, k) == Becomes(w, j, k) /\ k.task = j.task /\ k.slot = j.slot /\ k.receipt = j.receipt

LEMMA StepType ==
  ASSUME NEW j \in Job, NEW step \in Steps
  PROVE  /\ [j EXCEPT !.step = step] \in Job
         /\ [j EXCEPT !.step = step].task = j.task
         /\ [j EXCEPT !.step = step].slot = j.slot
         /\ [j EXCEPT !.step = step].receipt = j.receipt
         /\ [j EXCEPT !.step = step].retries = j.retries
         /\ [j EXCEPT !.step = step].step = step
  BY DEF Job

LEMMA RetryType ==
  ASSUME NEW j \in Job, NEW k, k = [j EXCEPT !.step = "backoff", !.retries = @ + 1]
  PROVE  /\ k \in Job
         /\ k.task = j.task /\ k.slot = j.slot /\ k.receipt = j.receipt /\ k.step = "backoff"
  <1>1. k = [task |-> j.task, retries |-> j.retries + 1, step |-> "backoff", slot |-> j.slot, receipt |-> j.receipt]
    BY DEF Job
  <1> QED
    BY <1>1 DEF Job, Steps

\* Executions that end or move on keep their slot.
LEMMA SlotsKept ==
  ASSUME BaseInv, NEW w \in Worker, NEW j \in jobs[w],
         Ends(w, j) \/ \E k \in Job : Steps1(w, j, k),
         \/ UNCHANGED receipts
         \/ \E v \in Worker, t \in Task : receipts' = [receipts EXCEPT ![v][t] = None]
  PROVE  SlotInv'
  <1>1. \A v \in Worker : \A k \in jobs'[v] : k.slot[1] = k.task
    <2>1. j.slot[1] = j.task
      BY DEF BaseInv, SlotInv
    <2>2. jobs \in [Worker -> SUBSET Job]
      BY DEF BaseInv, TypeInv
    <2>3. CASE Ends(w, j)
      BY <2>2, <2>3 DEF Ends, BaseInv, SlotInv
    <2>4. ASSUME NEW k \in Job, Steps1(w, j, k)
          PROVE  \A v \in Worker : \A i \in jobs'[v] : i.slot[1] = i.task
      BY <2>1, <2>2, <2>4 DEF Steps1, Becomes, BaseInv, SlotInv
    <2> QED
      BY <2>3, <2>4
  <1>2. \A v \in Worker : \A t \in Task : receipts'[v][t] # None => receipts'[v][t][1][1] = t
    <2>1. receipts \in [Worker -> [Task -> (Slot \X Nat) \cup {None}]]
      BY TypeParts DEF BaseInv
    <2> QED
      BY <2>1 DEF BaseInv, SlotInv
  <1> QED
    BY <1>1, <1>2 DEF SlotInv

LEMMA JobType ==
  ASSUME TypeInv, NEW w \in Worker, NEW j \in jobs[w]
  PROVE  /\ j \in Job /\ j.task \in Task /\ j.retries \in Nat /\ j.slot \in Slot /\ j.receipt \in Nat
         /\ j.step \in Steps
  BY DEF TypeInv, Job

\* Faults stay within their bound.
LEMMA FaultType ==
  ASSUME TypeInv, UNCHANGED faults \/ Fault
  PROVE  faults' \in 0..MaxFaults
  BY SqsAssumption DEF TypeInv, TypeOK, Fault

LEMMA FatedType ==
  ASSUME TypeInv, NEW t \in Task, NEW f \in Fates, Fated(t, f)
  PROVE  fate' \in [Task -> Fates]
  BY DEF TypeInv, TypeOK, Fated, Fates

LEMMA EnqueueBase ==
  ASSUME BaseInv, NEW t \in Task, Enqueue(t)
  PROVE  BaseInv'
  <1> DEFINE u == route[Client][QueueOf[t]]
  <1>1. u \in Url \cup {None}
    BY TypeParts, SqsAssumption DEF BaseInv
  <1>2. StoreOK'
    <2>1. CASE u = None
      BY <2>1, TypeParts DEF Enqueue, BaseInv, StoreOK, Fates
    <2>2. CASE u # None
      <3> DEFINE place == IF t \in Delayed \ due THEN "delayed" ELSE "visible"
      <3>1. Send(t, u, 0, place, "sent")
        BY <2>2 DEF Enqueue
      <3>2. place \in {"delayed", "visible", "invisible", "dlq"} /\ "sent" \in Fates
        BY DEF Fates
      <3> HIDE DEF place, u
      <3> QED
        BY <1>1, <3>1, <3>2, SendEffect DEF BaseInv
    <2> QED
      BY <2>1, <2>2
  <1>3. UNCHANGED <<setting, receipts, scan, jobs, due, failures, faults, doubled>>
    BY DEF Enqueue
  <1> QED
    BY <1>2, <1>3, TypeParts DEF BaseInv, SlotInv, setting, JobsOK, TypeInv, TypeOK, StoreOK, Fates

LEMMA EtaPassesBase ==
  ASSUME BaseInv, NEW t \in Task, EtaPasses(t)
  PROVE  BaseInv'
  BY TypeParts DEF EtaPasses, BaseInv, SlotInv, setting, TypeInv, TypeOK

\* A message that SQS holds, with another receipt or in another place.
LEMMA HeldType ==
  ASSUME TypeInv, NEW s \in Held
  PROVE  s \in Slot /\ s[1] \in Task /\ msgs[s] \in Message /\ msgs[s] # None
  BY TypeParts DEF Held, StoreOK, Slot

LEMMA PlaceType ==
  ASSUME NEW m \in Message, NEW place \in {"delayed", "visible", "invisible", "dlq"}, NEW n \in Nat
  PROVE  /\ [m EXCEPT !.place = place] \in Message
         /\ [m EXCEPT !.place = place].place = place
         /\ [m EXCEPT !.place = place].receipt = m.receipt
         /\ [m EXCEPT !.place = place].retries = m.retries
         /\ [m EXCEPT !.receipt = n, !.place = place] \in Message
         /\ [m EXCEPT !.receipt = n, !.place = place].place = place
         /\ [m EXCEPT !.receipt = n, !.place = place].receipt = n
         /\ [m EXCEPT !.receipt = n, !.place = place].retries = m.retries
  BY DEF Message

\* A message that becomes visible changes its place and nothing else.
LEMMA VisibleStore ==
  ASSUME TypeInv, NEW s \in Held, msgs' = [msgs EXCEPT ![s].place = "visible"],
         UNCHANGED <<sentIds, fate>>
  PROVE  StoreOK'
  <1>1. msgs' = [msgs EXCEPT ![s] = [msgs[s] EXCEPT !.place = "visible"]]
    OBVIOUS
  <1>2. [msgs[s] EXCEPT !.place = "visible"] \in Message
    BY HeldType, PlaceType
  <1> QED
    BY <1>1, <1>2, TypeParts DEF StoreOK

LEMMA DelayEndsBase ==
  ASSUME BaseInv, NEW s \in Held, DelayEnds(s)
  PROVE  BaseInv'
  <1>1. StoreOK'
    BY VisibleStore DEF DelayEnds, BaseInv
  <1> QED
    BY <1>1, TypeParts DEF DelayEnds, BaseInv, SlotInv, setting, TypeInv, TypeOK, StoreOK, Fates

LEMMA TimesOutBase ==
  ASSUME BaseInv, NEW s \in Held, TimesOut(s)
  PROVE  BaseInv'
  <1>1. StoreOK'
    BY VisibleStore DEF TimesOut, BaseInv
  <1>2. faults' \in 0..MaxFaults
    BY FaultType DEF TimesOut, BaseInv
  <1>3. due' \cup doubled' \subseteq Task
    <2>1. s[1] \in Task /\ due \subseteq Task /\ doubled \subseteq Task
      BY HeldType DEF BaseInv, TypeInv, TypeOK
    <2>2. due' = due /\ (doubled' = doubled \/ doubled' = doubled \cup {s[1]})
      BY DEF TimesOut
    <2> QED
      BY <2>1, <2>2
  <1> QED
    BY <1>1, <1>2, <1>3, TypeParts DEF TimesOut, BaseInv, SlotInv, setting, TypeInv, TypeOK, StoreOK, Fates

LEMMA ReceiveNothingBase ==
  ASSUME BaseInv, NEW w \in Worker, ReceiveNothing(w)
  PROVE  BaseInv'
  <1>1. scan' \in [Worker -> Nat]
    BY TypeParts DEF ReceiveNothing, BaseInv
  <1> QED
    BY <1>1, TypeParts DEF ReceiveNothing, BaseInv, SlotInv, setting, TypeInv, TypeOK

\* The delivery of a message: it becomes invisible, with a receipt of its own.
LEMMA HiddenType ==
  ASSUME TypeInv, NEW s \in Held
  PROVE  /\ Hidden(s) \in Message
         /\ Hidden(s).receipt \in Nat /\ Hidden(s).place = "invisible"
         /\ Hidden(s).retries = msgs[s].retries
  <1>1. s \in Slot /\ msgs[s] \in Message
    BY HeldType
  <1>2. NewReceipt(s) \in Nat
    BY <1>1, ReceiptIsNumber
  <1> QED
    BY <1>1, <1>2 DEF Hidden, Message

Delivered(s) == [task |-> s[1], retries |-> msgs[s].retries, step |-> "run", slot |-> s, receipt |-> Hidden(s).receipt]

\* The delivery is executed, except that of a body that does not parse.
LEMMA ReceiveEffect ==
  ASSUME TypeInv, NEW w \in Worker, NEW s \in Held, Receive(w, s)
  PROVE  /\ msgs' = [msgs EXCEPT ![s] = Hidden(s)] /\ msgs[s].place = "visible"
         /\ Delivered(s) \in Job
         /\ \/ UNCHANGED <<receipts, jobs>>
            \/ /\ receipts' = [receipts EXCEPT ![w][s[1]] = <<s, Hidden(s).receipt>>]
               /\ jobs' = [jobs EXCEPT ![w] = @ \cup {Delivered(s)}]
         /\ UNCHANGED <<fate, doubled, maxRetries>>
  <1>1. Delivered(s) \in Job
    BY HeldType, HiddenType DEF Delivered, Job, Steps, Message
  <1>2. msgs[s].place = "visible"
    BY DEF Receive, Receivable
  <1> QED
    BY <1>1, <1>2 DEF Receive, Registered, Delivered, setting

LEMMA ReceiveBase ==
  ASSUME BaseInv, NEW w \in Worker, NEW s \in Held, Receive(w, s)
  PROVE  BaseInv'
  <1>1. TypeInv /\ s \in Slot /\ s[1] \in Task /\ Hidden(s) \in Message /\ Hidden(s).receipt \in Nat
    BY HeldType, HiddenType DEF BaseInv
  <1>2. StoreOK'
    BY <1>1, ReceiveEffect, TypeParts DEF StoreOK, Receive
  <1>3. receipts' \in [Worker -> [Task -> (Slot \X Nat) \cup {None}]]
    <2>1. receipts \in [Worker -> [Task -> (Slot \X Nat) \cup {None}]]
      BY <1>1, TypeParts
    <2>2. <<s, Hidden(s).receipt>> \in (Slot \X Nat) \cup {None}
      BY <1>1
    <2>3. CASE UNCHANGED receipts
      BY <2>1, <2>3
    <2>4. CASE receipts' = [receipts EXCEPT ![w][s[1]] = <<s, Hidden(s).receipt>>]
      BY <1>1, <2>1, <2>2, <2>4
    <2> QED
      BY <1>1, <2>3, <2>4, ReceiveEffect
  <1>4. scan' \in [Worker -> Nat]
    BY <1>1, TypeParts DEF Receive
  <1>5. JobsOK'
    <2>1. UNCHANGED concurrency
      BY DEF Receive, setting
    <2>2. JobsOK /\ concurrency \in [Worker -> Nat]
      BY <1>1, TypeParts
    <2>3. CASE UNCHANGED jobs
      BY <2>1, <2>2, <2>3 DEF JobsOK
    <2>4. CASE jobs' = [jobs EXCEPT ![w] = @ \cup {Delivered(s)}]
      <3>1. Delivered(s) \in Job
        BY <1>1, ReceiveEffect
      <3> DEFINE all == jobs[w] \cup {Delivered(s)}
      <3>2. /\ IsFiniteSet(all) 
            /\ Cardinality(all) = Cardinality(jobs[w]) \/ Cardinality(all) = Cardinality(jobs[w]) + 1
        BY <2>2, FS_AddElement DEF JobsOK
      <3>3. Cardinality(jobs[w]) < concurrency[w] /\ Cardinality(jobs[w]) \in Nat /\ concurrency[w] \in Nat
        BY <2>2, FS_CardinalityType DEF Receive, HasPermit, JobsOK
      <3>4. jobs' = [jobs EXCEPT ![w] = all] /\ all \subseteq Job
        BY <2>2, <2>4, <3>1 DEF JobsOK
      <3> HIDE DEF all
      <3>5. Cardinality(all) <= concurrency[w]
        BY <3>2, <3>3
      <3> QED
        BY <2>1, <2>2, <3>2, <3>4, <3>5 DEF JobsOK
    <2> QED
      BY <1>1, <2>3, <2>4, ReceiveEffect
  <1>6. SlotInv'
    <2>1. jobs \in [Worker -> SUBSET Job] /\ receipts \in [Worker -> [Task -> (Slot \X Nat) \cup {None}]]
      BY <1>1, TypeParts DEF JobsOK
    <2>2. Delivered(s).slot[1] = Delivered(s).task
      BY DEF Delivered
    <2>3. \A v \in Worker : \A k \in jobs'[v] : k.slot[1] = k.task
      <3>1. jobs' = jobs \/ jobs' = [jobs EXCEPT ![w] = @ \cup {Delivered(s)}]
        BY <1>1, ReceiveEffect
      <3> QED
        BY <2>1, <2>2, <3>1 DEF BaseInv, SlotInv
    <2>4. \A v \in Worker : \A t \in Task : receipts'[v][t] # None => receipts'[v][t][1][1] = t
      <3>1. receipts' = receipts \/ receipts' = [receipts EXCEPT ![w][s[1]] = <<s, Hidden(s).receipt>>]
        BY <1>1, ReceiveEffect
      <3> QED
        BY <1>1, <2>1, <3>1 DEF BaseInv, SlotInv
    <2> QED
      BY <2>3, <2>4 DEF SlotInv
  <1>7. UNCHANGED <<setting, due, failures, faults, doubled>>
    BY DEF Receive
  <1>8. TypeInv'
    BY <1>1, <1>2, <1>3, <1>4, <1>5, <1>7, TypeParts DEF setting, TypeInv, TypeOK, StoreOK, Fates, JobsOK
  <1> QED
    BY <1>6, <1>8 DEF BaseInv

\* A run ends before the eta, in success, in a backoff or in a burial.
LEMMA RunEffect ==
  ASSUME TypeInv, NEW w \in Worker, NEW j \in jobs[w], Run(w, j)
  PROVE  \E k \in Job :
            /\ Steps1(w, j, k)
            /\ k.step \in {"etaAck", "ack", "backoff", "bury"}
            /\ IF k.step = "ack" THEN fate' = [fate EXCEPT ![j.task] = "done"] ELSE UNCHANGED fate
            /\ k.step # "backoff" => k.retries = j.retries
            /\ k.step = "bury" => ~ (j.retries < maxRetries) /\ Fail(w, j)
            /\ failures' \in [Task -> 0..MaxFailures]
  <1>1. j \in Job /\ j.task \in Task /\ failures \in [Task -> 0..MaxFailures] /\ MaxFailures \in Nat
    BY JobType, SqsAssumption DEF TypeInv, TypeOK
  <1>2. "etaAck" \in Steps /\ "ack" \in Steps /\ "bury" \in Steps
    BY DEF Steps
  <1>3. CASE NotDue(w, j)
    <2> DEFINE k == [j EXCEPT !.step = "etaAck"]
    <2>1. failures' \in [Task -> 0..MaxFailures] /\ Becomes(w, j, k) /\ UNCHANGED fate
      BY <1>1, <1>3 DEF NotDue, Goto
    <2>2. /\ k \in Job /\ k.task = j.task /\ k.slot = j.slot /\ k.receipt = j.receipt
          /\ k.step = "etaAck" /\ k.retries = j.retries
      BY <1>1, <1>2, StepType
    <2> HIDE DEF k
    <2> QED
      BY <2>1, <2>2 DEF Steps1
  <1>4. CASE Succeed(w, j)
    <2> DEFINE k == [j EXCEPT !.step = "ack"]
    <2>1. failures' \in [Task -> 0..MaxFailures] /\ Becomes(w, j, k) /\ fate' = [fate EXCEPT ![j.task] = "done"]
      BY <1>1, <1>4 DEF Succeed, Goto
    <2>2. /\ k \in Job /\ k.task = j.task /\ k.slot = j.slot /\ k.receipt = j.receipt
          /\ k.step = "ack" /\ k.retries = j.retries
      BY <1>1, <1>2, StepType
    <2> HIDE DEF k
    <2> QED
      BY <2>1, <2>2 DEF Steps1
  <1>5. CASE Fail(w, j)
    <2>0. /\ IF j.retries < maxRetries
             THEN Becomes(w, j, [j EXCEPT !.step = "backoff", !.retries = @ + 1])
             ELSE Goto(w, j, "bury")
          /\ UNCHANGED fate
      BY <1>5 DEF Fail, MayRetry
    <2>1. failures' \in [Task -> 0..MaxFailures]
      BY <1>1, <1>5 DEF Fail, OneMoreFailure
    <2>2. CASE j.retries < maxRetries
      <3> DEFINE k == [j EXCEPT !.step = "backoff", !.retries = @ + 1]
      <3>1. Becomes(w, j, k)
        BY <2>0, <2>2
      <3>2. k \in Job /\ k.task = j.task /\ k.slot = j.slot /\ k.receipt = j.receipt /\ k.step = "backoff"
        BY <1>1, RetryType
      <3> HIDE DEF k
      <3> QED
        BY <2>0, <2>1, <3>1, <3>2 DEF Steps1
    <2>3. CASE ~ (j.retries < maxRetries)
      BY <1>1, <1>2, <1>5, <2>0, <2>1, <2>3, StepType DEF Goto, Steps1
    <2> QED
      BY <2>2, <2>3
  <1> QED
    BY <1>3, <1>4, <1>5 DEF Run

LEMMA RunBase ==
  ASSUME BaseInv, NEW w \in Worker, NEW j \in jobs[w], Run(w, j)
  PROVE  BaseInv'
  <1>1. TypeInv /\ j.task \in Task
    BY JobType DEF BaseInv
  <1>2. PICK k \in Job :
            /\ Steps1(w, j, k)
            /\ fate' = [fate EXCEPT ![j.task] = "done"] \/ UNCHANGED fate
            /\ failures' \in [Task -> 0..MaxFailures]
    BY <1>1, RunEffect
  <1>3. UNCHANGED <<setting, msgs, sentIds, receipts, scan, due, faults, doubled>>
    BY DEF Run, NotDue, Succeed, Fail
  <1>4. JobsOK'
    BY <1>1, <1>2, <1>3, JobsKept, TypeParts DEF Steps1, setting
  <1>5. StoreOK'
    BY <1>1, <1>2, <1>3, TypeParts DEF StoreOK, Fates
  <1>6. SlotInv'
    BY <1>2, <1>3, SlotsKept
  <1>7. TypeInv'
    BY <1>1, <1>2, <1>3, <1>4, <1>5, TypeParts DEF setting, TypeInv, TypeOK, StoreOK, Fates, JobsOK
  <1> QED
    BY <1>6, <1>7 DEF BaseInv

\* ack, nack and dead_letter: what SQS holds changes in a slot of the task, and
\* the execution ends or goes on.
LEMMA ResolveBase ==
  ASSUME BaseInv, NEW w \in Worker, NEW j \in jobs[w], NEW becomes,
         \A s \in Held : becomes[s] \in Message \cup {None},
         Resolve(w, j.task, becomes),
         Ends(w, j) \/ \E step \in Steps : Goto(w, j, step),
         doubled' \in {doubled, doubled \cup {j.task}},
         UNCHANGED <<setting, sentIds, scan, due, failures, fate>>
  PROVE  BaseInv'
  <1>1. TypeInv /\ j \in Job /\ j.task \in Task
    BY JobType DEF BaseInv
  <1>2. /\ receipts' = [receipts EXCEPT ![w][j.task] = None]
        /\ faults' \in 0..MaxFaults
        /\ \/ UNCHANGED msgs
           \/ \E s \in Held : s[1] = j.task /\ msgs' = [msgs EXCEPT ![s] = becomes[s]]
    BY <1>1, ResolveEffect DEF BaseInv
  <1>3. Ends(w, j) \/ \E k \in Job : Steps1(w, j, k)
    BY <1>1, StepType DEF Goto, Steps1
  <1>4. JobsOK'
    BY <1>1, <1>3, JobsKept, TypeParts DEF Steps1, setting
  <1>5. StoreOK'
    <2>1. msgs' \in [Slot -> Message \cup {None}]
      BY <1>1, <1>2, TypeParts DEF StoreOK
    <2> QED
      BY <1>1, <2>1, TypeParts DEF StoreOK
  <1>6. SlotInv'
    BY <1>1, <1>2, <1>3, SlotsKept
  <1>7. due' \cup doubled' \subseteq Task
    <2>1. due \subseteq Task /\ doubled \subseteq Task
      BY <1>1 DEF TypeInv, TypeOK
    <2> QED
      BY <1>1, <2>1
  <1>8. receipts' \in [Worker -> [Task -> (Slot \X Nat) \cup {None}]]
    BY <1>1, <1>2, TypeParts
  <1>9. TypeInv'
    BY <1>1, <1>2, <1>4, <1>5, <1>7, <1>8, TypeParts DEF setting, TypeInv, TypeOK, StoreOK, Fates, JobsOK
  <1> QED
    BY <1>6, <1>9 DEF BaseInv

LEMMA AckBase ==
  ASSUME BaseInv, NEW w \in Worker, NEW j \in jobs[w], Ack(w, j)
  PROVE  BaseInv'
  <1> DEFINE becomes == [s \in Held |-> None]
  <1>1. \A s \in Held : becomes[s] \in Message \cup {None}
    OBVIOUS
  <1>2. Resolve(w, j.task, becomes)
    BY DEF Ack
  <1>3. Ends(w, j) \/ Goto(w, j, "schedule")
    BY DEF Ack
  <1>4. "schedule" \in Steps /\ doubled' \in {doubled, doubled \cup {j.task}}
    BY DEF Ack, Steps
  <1>5. UNCHANGED <<setting, sentIds, scan, due, failures, fate>>
    BY DEF Ack
  <1> HIDE DEF becomes
  <1> QED
    BY <1>1, <1>2, <1>3, <1>4, <1>5, ResolveBase

LEMMA NackBase ==
  ASSUME BaseInv, NEW w \in Worker, NEW j \in jobs[w], Nack(w, j)
  PROVE  BaseInv'
  <1> DEFINE becomes == [s \in Held |-> [msgs[s] EXCEPT !.place = "visible"]]
  <1>1. \A s \in Held : becomes[s] \in Message \cup {None}
    BY HeldType, PlaceType DEF BaseInv
  <1>2. Resolve(w, j.task, becomes)
    BY DEF Nack
  <1>3. Ends(w, j) /\ doubled' = doubled
    BY DEF Nack
  <1>4. UNCHANGED <<setting, sentIds, scan, due, failures, fate>>
    BY DEF Nack
  <1> HIDE DEF becomes
  <1> QED
    BY <1>1, <1>2, <1>3, <1>4, ResolveBase

LEMMA DeadLetterBase ==
  ASSUME BaseInv, NEW w \in Worker, NEW j \in jobs[w], DeadLetter(w, j)
  PROVE  BaseInv'
  <1> DEFINE becomes == [s \in Held |-> None]
  <1>1. \A s \in Held : becomes[s] \in Message \cup {None}
    OBVIOUS
  <1>2. Resolve(w, j.task, becomes)
    BY DEF DeadLetter
  <1>3. Ends(w, j) \/ Goto(w, j, "toDlq")
    BY DEF DeadLetter
  <1>4. "toDlq" \in Steps /\ doubled' = doubled
    BY DEF DeadLetter, Steps
  <1>5. UNCHANGED <<setting, sentIds, scan, due, failures, fate>>
    BY DEF DeadLetter
  <1> HIDE DEF becomes
  <1> QED
    BY <1>1, <1>2, <1>3, <1>4, <1>5, ResolveBase

\* What the two handlers that delete first do then: they send the message to
\* url u, and its fate is f, or the message is gone.
LEMMA SecondHalf ==
  ASSUME TypeInv, NEW w \in Worker, NEW j \in jobs[w], ToDlq(w, j) \/ Schedule(w, j)
  PROVE  /\ StoreOK' /\ faults' \in 0..MaxFaults /\ j.step \in Moving
         /\ UNCHANGED <<setting, receipts, scan, due, failures, doubled>> /\ Ends(w, j)
         /\ \/ UNCHANGED msgs /\ \E f \in {"dropped", "deleted"} : Fated(j.task, f)
            \/ \E s \in Slot \ Held, m \in Message :
                  /\ s[1] = j.task
                  /\ msgs' = [msgs EXCEPT ![s] = m]
                  /\ m.retries = j.retries
                  /\ m.place = IF j.step = "toDlq" THEN "dlq" ELSE "delayed"
                  /\ \E f \in {"sent", "buried"} : Fated(j.task, f)
  <1>1. /\ j.task \in Task /\ j.retries \in Nat
        /\ faults \in 0..MaxFaults /\ "dropped" \in Fates /\ "deleted" \in Fates
        /\ "sent" \in Fates /\ "buried" \in Fates
    BY JobType DEF TypeInv, TypeOK, Fates
  <1>2. ASSUME NEW f \in Fates, Fated(j.task, f), UNCHANGED <<msgs, sentIds>>
        PROVE  StoreOK'
    BY <1>1, <1>2, FatedType, TypeParts DEF StoreOK
  <1>3. ASSUME NEW u \in Url \cup {None}, NEW place \in {"delayed", "dlq"}, NEW f \in {"sent", "buried"},
               Send(j.task, u, j.retries, place, f)
        PROVE  /\ StoreOK'
               /\ \/ UNCHANGED msgs /\ Fated(j.task, "dropped")
                  \/ \E s \in Slot \ Held, m \in Message :
                        /\ s[1] = j.task
                        /\ msgs' = [msgs EXCEPT ![s] = m]
                        /\ m.retries = j.retries
                        /\ m.place = place
                        /\ Fated(j.task, f)
    <2> DEFINE m == [retries |-> j.retries, url |-> u, receipt |-> 0, place |-> place]
    <2>1. m \in Message /\ m.retries = j.retries /\ m.place = place
      BY <1>1 DEF Message
    <2>2. /\ StoreOK'
          /\ \/ UNCHANGED msgs /\ Fated(j.task, "dropped")
             \/ \E s \in Slot \ Held : s[1] = j.task /\ msgs' = [msgs EXCEPT ![s] = m] /\ Fated(j.task, f)
      BY <1>1, <1>3, SendEffect
    <2> HIDE DEF m
    <2> QED
      BY <2>1, <2>2
  <1>4. CASE ToDlq(w, j)
    <2>1. /\ j.step = "toDlq" /\ Ends(w, j)
          /\ UNCHANGED <<setting, receipts, scan, due, failures, doubled>>
          /\ UNCHANGED faults \/ Fault
          /\ \/ Send(j.task, None, j.retries, "dlq", "buried")
             \/ Fated(j.task, "deleted") /\ UNCHANGED <<msgs, sentIds>>
             \/ Fated(j.task, "dropped") /\ UNCHANGED <<msgs, sentIds>>
      BY <1>4 DEF ToDlq
    <2>2. faults' \in 0..MaxFaults /\ j.step \in Moving
      BY <2>1, FaultType DEF Moving
    <2> QED
      BY <1>1, <1>2, <1>3, <2>1, <2>2
  <1>5. CASE Schedule(w, j)
    <2> DEFINE u == route[w][QueueOf[j.task]]
    <2>1. /\ j.step = "schedule" /\ Ends(w, j)
          /\ UNCHANGED <<setting, receipts, scan, due, failures, doubled>>
          /\ UNCHANGED faults \/ Fault
          /\ \/ Send(j.task, u, j.retries, "delayed", "sent")
             \/ Fated(j.task, "dropped") /\ UNCHANGED <<msgs, sentIds>>
      BY <1>5 DEF Schedule
    <2>2. faults' \in 0..MaxFaults /\ j.step \in Moving
      BY <2>1, FaultType DEF Moving
    <2>3. u \in Url \cup {None}
      BY <1>1, TypeParts, SqsAssumption
    <2> HIDE DEF u
    <2> QED
      BY <1>1, <1>2, <1>3, <2>1, <2>2, <2>3
  <1> QED
    BY <1>4, <1>5

LEMMA SecondHalfBase ==
  ASSUME BaseInv, NEW w \in Worker, NEW j \in jobs[w], ToDlq(w, j) \/ Schedule(w, j)
  PROVE  BaseInv'
  <1>1. TypeInv
    BY DEF BaseInv
  <1>2. /\ StoreOK' /\ faults' \in 0..MaxFaults /\ Ends(w, j)
        /\ UNCHANGED <<setting, receipts, scan, due, failures, doubled>>
    BY <1>1, SecondHalf
  <1>3. JobsOK'
    BY <1>1, <1>2, JobsKept, TypeParts DEF setting
  <1>4. SlotInv'
    BY <1>2, SlotsKept
  <1>5. TypeInv'
    BY <1>1, <1>2, <1>3, TypeParts DEF setting, TypeInv, TypeOK, StoreOK, Fates, JobsOK
  <1> QED
    BY <1>4, <1>5 DEF BaseInv

LEMMA CrashBase ==
  ASSUME BaseInv, NEW w \in Worker, Crash(w)
  PROVE  BaseInv'
  <1>1. TypeInv
    BY DEF BaseInv
  <1>2. faults' \in 0..MaxFaults
    BY <1>1, FaultType DEF Crash
  <1>3. JobsOK'
    <2>1. jobs' = [jobs EXCEPT ![w] = {}] /\ UNCHANGED concurrency
      BY DEF Crash, setting
    <2>2. IsFiniteSet({}) /\ Cardinality({}) = 0
      BY FS_EmptySet
    <2>3. JobsOK /\ concurrency \in [Worker -> Nat]
      BY <1>1, TypeParts
    <2> QED
      BY <2>1, <2>2, <2>3 DEF JobsOK
  <1>4. StoreOK'
    BY <1>1, TypeParts DEF StoreOK, Crash, Fates
  <1>5. /\ receipts' \in [Worker -> [Task -> (Slot \X Nat) \cup {None}]]
        /\ scan' \in [Worker -> Nat]
    BY <1>1, TypeParts DEF Crash
  <1>6. SlotInv'
    <2>1. jobs \in [Worker -> SUBSET Job] /\ receipts \in [Worker -> [Task -> (Slot \X Nat) \cup {None}]]
      BY <1>1, TypeParts DEF JobsOK
    <2> QED
      BY <2>1 DEF Crash, BaseInv, SlotInv
  <1>7. UNCHANGED <<setting, due, failures, doubled>>
    BY DEF Crash
  <1>8. TypeInv'
    BY <1>1, <1>2, <1>3, <1>4, <1>5, <1>7, TypeParts DEF setting, TypeInv, TypeOK, StoreOK, Fates, JobsOK
  <1> QED
    BY <1>6, <1>8 DEF BaseInv

LEMMA BaseInit == Init => BaseInv
  <1> SUFFICES ASSUME Init PROVE BaseInv
    OBVIOUS
  <1>1. IsFiniteSet({}) /\ Cardinality({}) = 0
    BY FS_EmptySet
  <1>2. JobsOK
    BY <1>1, SqsAssumption DEF Init, JobsOK
  <1>3. TypeInv
    BY <1>2, TypeParts, SqsAssumption DEF Init, StoreOK, Fates
  <1>4. SlotInv
    BY DEF Init, SlotInv
  <1> QED
    BY <1>3, <1>4 DEF BaseInv

\* Every step is one of these.
LEMMA NextParts ==
  ASSUME [Next]_vars
  PROVE  \/ UNCHANGED vars
         \/ \E t \in Task : Enqueue(t)
         \/ \E t \in Task : EtaPasses(t)
         \/ \E s \in Held : DelayEnds(s)
         \/ \E s \in Held : TimesOut(s)
         \/ \E w \in Worker : ReceiveNothing(w)
         \/ \E w \in Worker : \E s \in Held : Receive(w, s)
         \/ \E w \in Worker : \E j \in jobs[w] : Run(w, j)
         \/ \E w \in Worker : \E j \in jobs[w] : Ack(w, j)
         \/ \E w \in Worker : \E j \in jobs[w] : Nack(w, j)
         \/ \E w \in Worker : \E j \in jobs[w] : DeadLetter(w, j)
         \/ \E w \in Worker : \E j \in jobs[w] : ToDlq(w, j) \/ Schedule(w, j)
         \/ \E w \in Worker : Crash(w)
  BY DEF Next, Dequeue, Execute, Settle

LEMMA BaseStep == BaseInv /\ [Next]_vars => BaseInv'
  <1> SUFFICES ASSUME BaseInv, [Next]_vars PROVE BaseInv'
    OBVIOUS
  <1>1. CASE UNCHANGED vars
    BY <1>1 DEF vars, setting, BaseInv, TypeInv, TypeOK, SlotInv
  <1> QED
    BY <1>1, NextParts, EnqueueBase, EtaPassesBase, DelayEndsBase, TimesOutBase, ReceiveNothingBase, ReceiveBase,
       RunBase, AckBase, NackBase, DeadLetterBase, SecondHalfBase, CrashBase

-----------------------------------------------------------------------------
(* What a step changes, in the terms of the invariants below *)



\* ack and dead_letter: the slots of other tasks stay, and if the call did not
\* fail and the receipt was the last one the message is gone.
LEMMA DeleteEffect ==
  ASSUME BaseInv, NEW w \in Worker, NEW j \in jobs[w], Ack(w, j) \/ DeadLetter(w, j)
  PROVE  /\ receipts' = [receipts EXCEPT ![w][j.task] = None]
         /\ UNCHANGED <<fate, maxRetries>>
         /\ UNCHANGED msgs \/ \E s \in Held : s[1] = j.task /\ msgs' = [msgs EXCEPT ![s] = None]
         /\ faults' # faults => UNCHANGED msgs
         /\ j.slot \in Held /\ receipts[w][j.task] = <<j.slot, j.receipt>> /\ msgs[j.slot].receipt = j.receipt
              /\ faults' = faults => msgs' = [msgs EXCEPT ![j.slot] = None]
         /\ j.step \in {"ack", "etaAck", "bury"}
         /\ \/ Ends(w, j) /\ j.step \in {"ack", "bury"} /\ UNCHANGED doubled /\ (j.step = "bury" => UNCHANGED msgs)
            \/ /\ \E k \in Job : Steps1(w, j, k) /\ k.retries = j.retries
                                 /\ k.step = IF j.step = "bury" THEN "toDlq" ELSE "schedule"
               /\ j.step \in {"etaAck", "bury"}
               /\ doubled' = IF faults' = faults THEN doubled ELSE doubled \cup {j.task}
  <1> DEFINE becomes == [s \in Held |-> None]
  <1>1. TypeInv /\ SlotInv /\ j \in Job /\ j.task \in Task /\ j.receipt \in Nat /\ "schedule" \in Steps /\ "toDlq" \in Steps
    BY JobType DEF BaseInv, Steps
  <1>2. Resolve(w, j.task, becomes) /\ UNCHANGED <<fate, maxRetries>>
    BY DEF Ack, DeadLetter, setting
  <1>3. \A s \in Held : becomes[s] = None
    OBVIOUS
  <1> HIDE DEF becomes
  <1>4. /\ receipts' = [receipts EXCEPT ![w][j.task] = None]
        /\ \/ UNCHANGED msgs
           \/ \E s \in Held : s[1] = j.task /\ msgs' = [msgs EXCEPT ![s] = becomes[s]]
        /\ faults' # faults => UNCHANGED msgs
        /\ \A s \in Held, n \in Nat :
               receipts[w][j.task] = <<s, n>> /\ msgs[s].receipt = n /\ faults' = faults
                   => msgs' = [msgs EXCEPT ![s] = becomes[s]]
    BY <1>1, <1>2, ResolveEffect
  <1>5. j.step \in {"ack", "etaAck", "bury"}
    BY DEF Ack, DeadLetter
  <1>6. \/ Ends(w, j) /\ j.step = "ack" /\ UNCHANGED doubled
        \/ Ends(w, j) /\ j.step = "bury" /\ UNCHANGED doubled /\ faults' # faults
        \/ /\ Goto(w, j, "schedule") /\ j.step = "etaAck"
           /\ doubled' = IF faults' = faults THEN doubled ELSE doubled \cup {j.task}
        \/ /\ Goto(w, j, "toDlq") /\ j.step = "bury" /\ UNCHANGED doubled /\ faults' = faults
    BY DEF Ack, DeadLetter
  <1>7. \A step \in {"schedule", "toDlq"} :
          Goto(w, j, step) => \E k \in Job : Steps1(w, j, k) /\ k.retries = j.retries /\ k.step = step
    BY <1>1, StepType DEF Goto, Steps1
  <1>8. \/ Ends(w, j) /\ j.step \in {"ack", "bury"} /\ UNCHANGED doubled /\ (j.step = "bury" => UNCHANGED msgs)
        \/ /\ \E k \in Job : Steps1(w, j, k) /\ k.retries = j.retries
                             /\ k.step = IF j.step = "bury" THEN "toDlq" ELSE "schedule"
           /\ j.step \in {"etaAck", "bury"}
           /\ doubled' = IF faults' = faults THEN doubled ELSE doubled \cup {j.task}
    BY <1>4, <1>6, <1>7
  <1>9. j.slot \in Held /\ receipts[w][j.task] = <<j.slot, j.receipt>> /\ msgs[j.slot].receipt = j.receipt
              /\ faults' = faults => msgs' = [msgs EXCEPT ![j.slot] = None]
    BY <1>1, <1>3, <1>4
  <1> QED
    BY <1>2, <1>3, <1>4, <1>5, <1>8, <1>9

LEMMA NackEffect ==
  ASSUME BaseInv, NEW w \in Worker, NEW j \in jobs[w], Nack(w, j)
  PROVE  /\ receipts' = [receipts EXCEPT ![w][j.task] = None]
         /\ UNCHANGED <<fate, maxRetries, doubled>> /\ Ends(w, j) /\ j.step = "backoff"
         /\ \/ UNCHANGED msgs
            \/ \E s \in Held, m \in Message :
                  /\ s[1] = j.task /\ msgs' = [msgs EXCEPT ![s] = m]
                  /\ m.place = "visible" /\ m.retries = msgs[s].retries
  <1> DEFINE becomes == [s \in Held |-> [msgs[s] EXCEPT !.place = "visible"]]
  <1>1. TypeInv /\ SlotInv /\ j.task \in Task
    BY JobType DEF BaseInv
  <1>2. Resolve(w, j.task, becomes) /\ UNCHANGED <<fate, maxRetries, doubled>> /\ Ends(w, j) /\ j.step = "backoff"
    BY DEF Nack, setting
  <1>3. \A s \in Held : becomes[s] \in Message /\ becomes[s].place = "visible" /\ becomes[s].retries = msgs[s].retries
    BY <1>1, HeldType, PlaceType
  <1> HIDE DEF becomes
  <1>4. /\ receipts' = [receipts EXCEPT ![w][j.task] = None]
        /\ \/ UNCHANGED msgs
           \/ \E s \in Held : s[1] = j.task /\ msgs' = [msgs EXCEPT ![s] = becomes[s]]
    BY <1>1, <1>2, ResolveEffect
  <1> QED
    BY <1>2, <1>3, <1>4

\* The slots that hold a message after one of them changed.
LEMMA HeldAfter ==
  ASSUME TypeInv, NEW s \in Slot, NEW m, msgs' = [msgs EXCEPT ![s] = m]
  PROVE  /\ m = None => Held' = Held \ {s}
         /\ m # None => Held' = Held \cup {s}
         /\ \A r \in Slot : r # s => msgs'[r] = msgs[r]
         /\ msgs'[s] = m
  BY TypeParts DEF StoreOK, Held

LEMMA MessageIsSome ==
  ASSUME NEW m \in Message
  PROVE  m # None
  BY NoneAssumption

\* No slot is freed and none is taken.
LEMMA HeldStays ==
  ASSUME TypeInv, NEW s \in Held, NEW m \in Message, msgs' = [msgs EXCEPT ![s] = m]
  PROVE  Held' = Held
  <1>1. s \in Slot /\ m # None
    BY HeldType, MessageIsSome
  <1>2. Held' = Held \cup {s}
    BY <1>1, HeldAfter
  <1> QED
    BY <1>2

\* The executions after one of them ended or went on.
LEMMA JobsAfter ==
  ASSUME TypeInv, NEW w \in Worker, NEW j \in jobs[w]
  PROVE  /\ Ends(w, j) => \A v \in Worker : jobs'[v] = IF v = w THEN jobs[v] \ {j} ELSE jobs[v]
         /\ \A k \in Job : Becomes(w, j, k) =>
              \A v \in Worker : jobs'[v] = IF v = w THEN (jobs[v] \ {j}) \cup {k} ELSE jobs[v]
  BY DEF TypeInv, Ends, Becomes

LEMMA VisibleEffect ==
  ASSUME TypeInv, NEW s \in Held, DelayEnds(s) \/ TimesOut(s)
  PROVE  /\ \E m \in Message : /\ msgs' = [msgs EXCEPT ![s] = m]
                               /\ m.place = "visible" /\ m.retries = msgs[s].retries
         /\ msgs[s].place \in {"delayed", "invisible"}
         /\ UNCHANGED <<receipts, jobs, fate, maxRetries>>
         /\ \/ UNCHANGED doubled /\ msgs[s].place = "delayed"
            \/ UNCHANGED doubled /\ \A w \in Worker : \A j \in jobs[w] : j.slot # s
            \/ doubled' = doubled \cup {s[1]}
  <1>1. msgs[s] \in Message
    BY HeldType
  <1>2. msgs' = [msgs EXCEPT ![s] = [msgs[s] EXCEPT !.place = "visible"]]
    BY DEF DelayEnds, TimesOut
  <1>3. /\ [msgs[s] EXCEPT !.place = "visible"] \in Message
        /\ [msgs[s] EXCEPT !.place = "visible"].place = "visible"
        /\ [msgs[s] EXCEPT !.place = "visible"].retries = msgs[s].retries
    BY <1>1, PlaceType
  <1> QED
    BY <1>2, <1>3 DEF DelayEnds, TimesOut, setting

\* What a client sends is a new message.
LEMMA EnqueueEffect ==
  ASSUME TypeInv, NEW t \in Task, Enqueue(t)
  PROVE  /\ fate[t] = "new"
         /\ UNCHANGED <<receipts, jobs, doubled, maxRetries>>
         /\ \/ UNCHANGED msgs /\ \E f \in {"refused", "dropped"} : fate' = [fate EXCEPT ![t] = f]
            \/ \E s \in Slot \ Held, m \in Message :
                  /\ s[1] = t /\ msgs' = [msgs EXCEPT ![s] = m]
                  /\ m.retries = 0 /\ m.place \in {"delayed", "visible"}
                  /\ fate' = [fate EXCEPT ![t] = "sent"]
  <1> DEFINE u == route[Client][QueueOf[t]]
             place == IF t \in Delayed \ due THEN "delayed" ELSE "visible"
             m == [retries |-> 0, url |-> u, receipt |-> 0, place |-> place]
  <1>1. fate[t] = "new" /\ UNCHANGED <<receipts, jobs, doubled, maxRetries>>
    BY DEF Enqueue, setting
  <1>2. CASE u = None
    BY <1>1, <1>2 DEF Enqueue
  <1>3. CASE u # None
    <2>1. Send(t, u, 0, place, "sent")
      BY <1>3 DEF Enqueue
    <2>2. u \in Url \cup {None} /\ place \in {"delayed", "visible"} /\ "sent" \in Fates
      BY TypeParts, SqsAssumption DEF Fates
    <2>3. m \in Message /\ m.retries = 0 /\ m.place = place
      BY <2>2 DEF Message
    <2>4. \A f : Fated(t, f) => fate' = [fate EXCEPT ![t] = f]
      BY <1>1 DEF Fated
    <2> HIDE DEF u, place
    <2>5. \/ Fated(t, "dropped") /\ UNCHANGED msgs
          \/ \E s \in Slot \ Held : s[1] = t /\ msgs' = [msgs EXCEPT ![s] = m] /\ Fated(t, "sent")
      BY <2>1, <2>2, SendEffect
    <2> HIDE DEF m
    <2> QED
      BY <1>1, <2>2, <2>3, <2>4, <2>5
  <1> QED
    BY <1>2, <1>3

-----------------------------------------------------------------------------
(* The count of the retries *)

\* The handler has failed in the first run and in all retries.
Exhausted(t) == failures[t] > maxRetries

\* nack leaves the body as it is: what SQS holds has been retried 0 times, and
\* what is buried has failed often enough.
CountInv ==
    /\ \A s \in Held : msgs[s].retries = 0 /\ (msgs[s].place = "dlq" => Exhausted(s[1]))
    /\ \A w \in Worker : \A j \in jobs[w] :
          /\ j.step # "backoff" => j.retries = 0
          /\ j.step \in {"bury", "toDlq"} => Exhausted(j.task)

\* No step takes a failure back, and a run that fails is counted.
LEMMA FailuresGrow ==
  ASSUME TypeInv, [Next]_vars
  PROVE  /\ \A t \in Task : Exhausted(t) => Exhausted(t)'
         /\ \A w \in Worker : \A j \in jobs[w] : Fail(w, j) /\ maxRetries = 0 => Exhausted(j.task)'
  <1>0. failures \in [Task -> 0..MaxFailures] /\ MaxFailures \in Nat /\ maxRetries \in Nat /\ maxRetries < MaxFailures
    BY SqsAssumption DEF TypeInv, TypeOK
  <1>1. ASSUME NEW t \in Task, OneMoreFailure(t), UNCHANGED maxRetries
        PROVE  failures'[t] > 0 /\ \A u \in Task : Exhausted(u) => Exhausted(u)'
    <2>1. CASE failures[t] < MaxFailures
      BY <1>0, <1>1, <2>1 DEF OneMoreFailure, Exhausted
    <2>2. CASE ~ (failures[t] < MaxFailures)
      BY <1>0, <1>1, <2>2 DEF OneMoreFailure, Exhausted
    <2> QED
      BY <2>1, <2>2
  <1>2. ASSUME NEW w \in Worker, NEW j \in jobs[w], Fail(w, j)
        PROVE  OneMoreFailure(j.task) /\ j.task \in Task
    BY <1>2, JobType DEF Fail
  <1>3. UNCHANGED maxRetries /\ (UNCHANGED failures \/ \E w \in Worker : \E j \in jobs[w] : Fail(w, j))
    <2>1. CASE \/ UNCHANGED vars
               \/ \E t \in Task : Enqueue(t) \/ EtaPasses(t)
               \/ \E s \in Held : DelayEnds(s) \/ TimesOut(s)
               \/ \E w \in Worker : ReceiveNothing(w) \/ Crash(w) \/ \E s \in Held : Receive(w, s)
      BY <2>1 DEF vars, setting, Enqueue, EtaPasses, DelayEnds, TimesOut, ReceiveNothing, Crash, Receive
    <2>2. CASE \E w \in Worker : \E j \in jobs[w] : Run(w, j)
      BY <2>2 DEF Run, NotDue, Succeed, Fail, setting
    <2>3. CASE \E w \in Worker : \E j \in jobs[w] :
                  Ack(w, j) \/ Nack(w, j) \/ DeadLetter(w, j) \/ ToDlq(w, j) \/ Schedule(w, j)
      BY <2>3 DEF Ack, Nack, DeadLetter, ToDlq, Schedule, setting
    <2> QED
      BY <2>1, <2>2, <2>3, NextParts
  <1>4. \A t \in Task : Exhausted(t) => Exhausted(t)'
    BY <1>1, <1>2, <1>3 DEF Exhausted
  <1>5. ASSUME NEW w \in Worker, NEW j \in jobs[w], Fail(w, j), maxRetries = 0
        PROVE  Exhausted(j.task)'
    BY <1>1, <1>2, <1>3, <1>5 DEF Exhausted
  <1> QED
    BY <1>4, <1>5

\* A step that puts m into a slot, and no execution that was not there.
LEMMA CountSlot ==
  ASSUME TypeInv, CountInv, [Next]_vars, NEW s \in Slot, NEW m, msgs' = [msgs EXCEPT ![s] = m],
         m # None => m.retries = 0 /\ (m.place = "dlq" => Exhausted(s[1]))
  PROVE  \A r \in Held' : msgs'[r].retries = 0 /\ (msgs'[r].place = "dlq" => Exhausted(r[1])')
  <1>1. /\ \A r \in Held' : r # s => r \in Held /\ msgs'[r] = msgs[r]
        /\ s \in Held' => m # None /\ msgs'[s] = m
    BY HeldAfter DEF Held
  <1>2. \A r \in Held \cup {s} : r[1] \in Task
    BY DEF Held, Slot
  <1>3. \A r \in Held \cup {s} : Exhausted(r[1]) => Exhausted(r[1])'
    BY <1>2, FailuresGrow
  <1> QED
    BY <1>1, <1>3 DEF CountInv

LEMMA CountStep == BaseInv /\ CountInv /\ [Next]_vars => CountInv'
  <1> SUFFICES ASSUME BaseInv, CountInv, [Next]_vars PROVE CountInv'
    OBVIOUS
  <1> USE DEF BaseInv
  <1> DEFINE S == \A r \in Held : msgs[r].retries = 0 /\ (msgs[r].place = "dlq" => Exhausted(r[1]))
             J == \A w \in Worker : \A j \in jobs[w] :
                     (j.step # "backoff" => j.retries = 0) /\ (j.step \in {"bury", "toDlq"} => Exhausted(j.task))
  <1>0. (S /\ J) /\ (S' /\ J' => CountInv')
    BY DEF CountInv
  <1>grow. /\ \A r \in Held : Exhausted(r[1]) => Exhausted(r[1])'
           /\ \A w \in Worker : \A j \in jobs[w] : Exhausted(j.task) => Exhausted(j.task)'
    BY JobType, HeldType, FailuresGrow DEF Slot
  <1>same. UNCHANGED msgs => S'
    BY <1>0, <1>grow DEF Held
  <1>less. (\A v \in Worker : jobs'[v] \subseteq jobs[v]) => J'
    BY <1>0, <1>grow
  <1>1. ASSUME UNCHANGED <<msgs, jobs>>
        PROVE  CountInv'
    <2>1. J'
      BY <1>0, <1>1, <1>grow
    <2> QED
      BY <1>0, <1>1, <1>same, <2>1
  <1>2. ASSUME NEW t \in Task, Enqueue(t)
        PROVE  CountInv'
    <2>1. CASE UNCHANGED msgs
      BY <1>1, <1>2, <2>1, EnqueueEffect
    <2>2. ASSUME NEW s \in Slot, NEW m \in Message, msgs' = [msgs EXCEPT ![s] = m],
                 m.retries = 0, m.place \in {"delayed", "visible"}
          PROVE  CountInv'
      <3>1. UNCHANGED jobs
        BY <1>2, EnqueueEffect
      <3>2. S'
        BY <2>2, CountSlot
      <3>3. J'
        BY <1>0, <1>grow, <3>1
      <3> QED
        BY <1>0, <3>2, <3>3
    <2> QED
      BY <1>2, <2>1, <2>2, EnqueueEffect
  <1>3. ASSUME NEW s \in Held, DelayEnds(s) \/ TimesOut(s)
        PROVE  CountInv'
    <2>1. PICK m \in Message : /\ msgs' = [msgs EXCEPT ![s] = m]
                               /\ m.place = "visible" /\ m.retries = msgs[s].retries
      BY <1>3, VisibleEffect
    <2>2. UNCHANGED jobs
      BY <1>3, VisibleEffect
    <2>3. s \in Slot /\ msgs[s].retries = 0
      BY HeldType DEF CountInv
    <2>4. S'
      BY <2>1, <2>3, CountSlot
    <2>5. J'
      BY <1>0, <1>grow, <2>2
    <2> QED
      BY <1>0, <2>4, <2>5
  <1>4. ASSUME NEW w \in Worker, NEW s \in Held, Receive(w, s)
        PROVE  CountInv'
    <2>1. /\ msgs' = [msgs EXCEPT ![s] = Hidden(s)]
          /\ UNCHANGED jobs \/ jobs' = [jobs EXCEPT ![w] = @ \cup {Delivered(s)}]
      BY <1>4, ReceiveEffect
    <2>2. s \in Slot /\ msgs[s].retries = 0 /\ Hidden(s).retries = 0 /\ Hidden(s).place = "invisible"
      BY HeldType, HiddenType DEF CountInv
    <2>3. S'
      BY <2>1, <2>2, CountSlot
    <2>4. Delivered(s).step = "run" /\ Delivered(s).retries = 0
      BY <2>2 DEF Delivered
    <2>5. J'
      BY <1>0, <1>grow, <2>1, <2>4 DEF TypeInv
    <2> QED
      BY <1>0, <2>3, <2>5
  <1>5. ASSUME NEW w \in Worker, NEW j \in jobs[w], Run(w, j)
        PROVE  CountInv'
    <2>1. UNCHANGED msgs /\ j.step = "run" /\ maxRetries \in Nat
      BY <1>5, SqsAssumption DEF Run, NotDue, Succeed, Fail, TypeInv, TypeOK
    <2>2. PICK k \in Job :
            /\ Becomes(w, j, k) /\ k.task = j.task
            /\ k.step \in {"etaAck", "ack", "backoff", "bury"}
            /\ k.step # "backoff" => k.retries = j.retries
            /\ k.step = "bury" => ~ (j.retries < maxRetries) /\ Fail(w, j)
      BY <1>5, RunEffect DEF Steps1
    <2>3. j.retries = 0
      BY <1>0, <2>1
    <2>4. k.step # "backoff" => k.retries = 0
      BY <2>2, <2>3
    <2>5. k.step \in {"bury", "toDlq"} => Exhausted(k.task)'
      <3>1. k.step \in {"bury", "toDlq"} => maxRetries = 0 /\ Fail(w, j)
        BY <2>1, <2>2, <2>3
      <3> QED
        BY <2>2, <3>1, FailuresGrow
    <2>6. \A v \in Worker : jobs'[v] = IF v = w THEN (jobs[v] \ {j}) \cup {k} ELSE jobs[v]
      BY <2>2, JobsAfter
    <2>7. J'
      BY <1>0, <1>grow, <2>4, <2>5, <2>6
    <2> QED
      BY <1>0, <1>same, <2>1, <2>7
  <1>6. ASSUME NEW w \in Worker, NEW j \in jobs[w], Ack(w, j) \/ DeadLetter(w, j)
        PROVE  CountInv'
    <2>1. /\ UNCHANGED msgs \/ \E s \in Held : msgs' = [msgs EXCEPT ![s] = None]
          /\ j.step \in {"ack", "etaAck", "bury"}
          /\ \/ Ends(w, j)
             \/ \E k \in Job : /\ Becomes(w, j, k) /\ k.retries = j.retries /\ k.task = j.task
                               /\ k.step = IF j.step = "bury" THEN "toDlq" ELSE "schedule"
      BY <1>6, DeleteEffect DEF Steps1
    <2>2. S'
      BY <1>same, <2>1, CountSlot, HeldType
    <2>3. j.retries = 0 /\ (j.step = "bury" => Exhausted(j.task)')
      BY <1>0, <1>grow, <2>1
    <2>4. \/ \A v \in Worker : jobs'[v] = IF v = w THEN jobs[v] \ {j} ELSE jobs[v]
          \/ \E k \in Job : /\ k.retries = j.retries /\ k.step = IF j.step = "bury" THEN "toDlq" ELSE "schedule"
                            /\ k.task = j.task
                            /\ \A v \in Worker : jobs'[v] = IF v = w THEN (jobs[v] \ {j}) \cup {k} ELSE jobs[v]
      BY <2>1, JobsAfter
    <2>5. CASE \A v \in Worker : jobs'[v] = IF v = w THEN jobs[v] \ {j} ELSE jobs[v]
      <3>1. \A v \in Worker : jobs'[v] \subseteq jobs[v]
        BY <2>5
      <3> QED
        BY <1>0, <1>less, <2>2, <3>1
    <2>6. ASSUME NEW k \in Job, k.retries = j.retries, k.step = IF j.step = "bury" THEN "toDlq" ELSE "schedule",
                 k.task = j.task, \A v \in Worker : jobs'[v] = IF v = w THEN (jobs[v] \ {j}) \cup {k} ELSE jobs[v]
          PROVE  CountInv'
      <3>1. k.retries = 0 /\ (k.step \in {"bury", "toDlq"} => Exhausted(k.task)')
        BY <2>3, <2>6
      <3>2. J'
        BY <1>0, <1>grow, <2>6, <3>1
      <3> QED
        BY <1>0, <2>2, <3>2
    <2> QED
      BY <2>4, <2>5, <2>6
  <1>7. ASSUME NEW w \in Worker, NEW j \in jobs[w], Nack(w, j)
        PROVE  CountInv'
    <2>1. /\ Ends(w, j)
          /\ \/ UNCHANGED msgs
             \/ \E s \in Held, m \in Message :
                  /\ msgs' = [msgs EXCEPT ![s] = m] /\ m.place = "visible" /\ m.retries = msgs[s].retries
      BY <1>7, NackEffect
    <2>2. S'
      BY <1>0, <1>same, <2>1, CountSlot, HeldType
    <2>3. \A v \in Worker : jobs'[v] \subseteq jobs[v]
      BY <2>1, JobsAfter
    <2> QED
      BY <1>0, <1>less, <2>2, <2>3
  <1>8. ASSUME NEW w \in Worker, NEW j \in jobs[w], ToDlq(w, j) \/ Schedule(w, j)
        PROVE  CountInv'
    <2>1. /\ Ends(w, j) /\ j.step \in Moving
          /\ \/ UNCHANGED msgs
             \/ \E s \in Slot \ Held, m \in Message :
                  /\ msgs' = [msgs EXCEPT ![s] = m] /\ s[1] = j.task
                  /\ m.retries = j.retries
                  /\ m.place = IF j.step = "toDlq" THEN "dlq" ELSE "delayed"
      BY <1>8, SecondHalf
    <2>2. j.retries = 0 /\ (j.step = "toDlq" => Exhausted(j.task))
      BY <1>0, <2>1 DEF Moving
    <2>3. S'
      BY <1>same, <2>1, <2>2, CountSlot
    <2>4. \A v \in Worker : jobs'[v] \subseteq jobs[v]
      BY <2>1, JobsAfter
    <2> QED
      BY <1>0, <1>less, <2>3, <2>4
  <1>9. ASSUME NEW w \in Worker, Crash(w)
        PROVE  CountInv'
    <2>1. UNCHANGED msgs /\ jobs' = [jobs EXCEPT ![w] = {}]
      BY <1>9 DEF Crash
    <2>2. J'
      BY <1>0, <1>grow, <2>1 DEF TypeInv
    <2> QED
      BY <1>0, <1>same, <2>1, <2>2
  <1>10. ASSUME UNCHANGED vars \/ (\E t \in Task : EtaPasses(t)) \/ \E w \in Worker : ReceiveNothing(w)
         PROVE  CountInv'
    BY <1>1, <1>10 DEF vars, EtaPasses, ReceiveNothing
  <1> QED
    BY <1>2, <1>3, <1>4, <1>5, <1>6, <1>7, <1>8, <1>9, <1>10, NextParts

-----------------------------------------------------------------------------
(* What becomes of a task *)

\* Of a task that is not sent there is nothing.
NewInv ==
    \A t \in Task : fate[t] = "new" => /\ \A s \in Held : s[1] # t
                                       /\ \A w \in Worker : \A j \in jobs[w] : j.task # t

\* An execution acknowledges what has succeeded.
AckInv == \A w \in Worker : \A j \in jobs[w] : j.step = "ack" => fate[j.task] = "done"

\* What is sent is in SQS, or about to be sent again.
SentInv ==
    \A t \in Task : fate[t] = "sent" =>
        \/ \E s \in Held : s[1] = t
        \/ \E w \in Worker : \E j \in jobs[w] : j.task = t /\ j.step \in Moving

FateInv == NewInv /\ AckInv /\ SentInv

\* These parts are kept if the slots and executions that are new are not those
\* of a task that is new, if no execution that is new acknowledges without
\* success, and if what shows that a task is there stays.
LEMMA NewKept ==
  ASSUME TypeInv, NewInv,
         \A t \in Task : fate'[t] = "new" => fate[t] = "new",
         \A s \in Held' : s \in Held \/ fate'[s[1]] # "new",
         \A w \in Worker : \A j \in jobs'[w] : j \in jobs[w] \/ fate'[j.task] # "new"
  PROVE  NewInv'
  BY DEF NewInv

LEMMA AckKept ==
  ASSUME TypeInv, AckInv,
         \A t \in Task : fate[t] = "done" => fate'[t] = "done",
         \A w \in Worker : \A j \in jobs'[w] : j \in jobs[w] \/ j.step # "ack" \/ fate'[j.task] = "done"
  PROVE  AckInv'
  <1>1. \A w \in Worker : \A j \in jobs[w] : j.task \in Task
    BY JobType
  <1> QED
    BY <1>1 DEF AckInv

LEMMA SentKept ==
  ASSUME SentInv,
         \A t \in Task : fate'[t] = "sent" =>
            \/ /\ fate[t] = "sent"
               /\ \A s \in Held : s[1] = t => s \in Held'
               /\ \A w \in Worker : \A j \in jobs[w] : j.task = t /\ j.step \in Moving => j \in jobs'[w]
            \/ \E s \in Held' : s[1] = t
            \/ \E w \in Worker : \E j \in jobs'[w] : j.task = t /\ j.step \in Moving
  PROVE  SentInv'
  <1> SUFFICES ASSUME NEW t \in Task, fate'[t] = "sent"
               PROVE  \/ \E s \in Held' : s[1] = t
                      \/ \E w \in Worker : \E j \in jobs'[w] : j.task = t /\ j.step \in Moving
    BY DEF SentInv
  <1>1. CASE /\ fate[t] = "sent"
             /\ \A s \in Held : s[1] = t => s \in Held'
             /\ \A w \in Worker : \A j \in jobs[w] : j.task = t /\ j.step \in Moving => j \in jobs'[w]
    <2>1. \/ \E s \in Held : s[1] = t
          \/ \E w \in Worker : \E j \in jobs[w] : j.task = t /\ j.step \in Moving
      BY <1>1 DEF SentInv
    <2> QED
      BY <1>1, <2>1
  <1> QED
    BY <1>1

LEMMA FateStep == BaseInv /\ FateInv /\ [Next]_vars => FateInv'
  <1> SUFFICES ASSUME BaseInv, FateInv, [Next]_vars PROVE FateInv'
    OBVIOUS
  <1>0. NewInv /\ AckInv /\ SentInv /\ (NewInv' /\ AckInv' /\ SentInv' => FateInv')
    BY DEF FateInv
  <1>1. TypeInv /\ fate \in [Task -> Fates] /\ jobs \in [Worker -> SUBSET Job]
    BY TypeParts DEF BaseInv, StoreOK, JobsOK
  <1>2. ASSUME NEW t \in Task, Enqueue(t)
        PROVE  FateInv'
    <2>1. fate[t] = "new" /\ UNCHANGED jobs
      BY <1>1, <1>2, EnqueueEffect
    <2>2. CASE UNCHANGED msgs /\ \E f \in {"refused", "dropped"} : fate' = [fate EXCEPT ![t] = f]
      <3>1. Held' = Held
        BY <2>2 DEF Held
      <3> QED
        BY <1>0, <1>1, <2>1, <2>2, <3>1, NewKept, AckKept, SentKept
    <2>3. ASSUME NEW s \in Slot \ Held, NEW m \in Message, s[1] = t, msgs' = [msgs EXCEPT ![s] = m],
                 fate' = [fate EXCEPT ![t] = "sent"]
          PROVE  FateInv'
      <3>1. Held' = Held \cup {s}
        BY <1>1, <2>3, HeldAfter, MessageIsSome
      <3> QED
        BY <1>0, <1>1, <2>1, <2>3, <3>1, NewKept, AckKept, SentKept
    <2> QED
      BY <1>1, <1>2, <2>2, <2>3, EnqueueEffect
  <1>3. ASSUME UNCHANGED <<jobs, fate>>, Held' = Held
        PROVE  FateInv'
    BY <1>0, <1>1, <1>3, NewKept, AckKept, SentKept
  <1>4. ASSUME NEW s \in Held, DelayEnds(s) \/ TimesOut(s)
        PROVE  FateInv'
    <2>1. UNCHANGED <<jobs, fate>> /\ \E m \in Message : msgs' = [msgs EXCEPT ![s] = m]
      BY <1>1, <1>4, VisibleEffect
    <2>2. Held' = Held
      BY <1>1, <2>1, HeldStays
    <2> QED
      BY <1>3, <2>1, <2>2
  <1>5. ASSUME NEW w \in Worker, NEW s \in Held, Receive(w, s)
        PROVE  FateInv'
    <2>1. /\ msgs' = [msgs EXCEPT ![s] = Hidden(s)] /\ UNCHANGED fate
          /\ UNCHANGED jobs \/ jobs' = [jobs EXCEPT ![w] = @ \cup {Delivered(s)}]
      BY <1>1, <1>5, ReceiveEffect
    <2>2. Held' = Held
      BY <1>1, <2>1, HeldStays, HiddenType
    <2>3. Delivered(s).step = "run" /\ Delivered(s).task = s[1] /\ fate[s[1]] # "new"
      BY <1>0, <1>1, HeldType DEF Delivered, NewInv
    <2>4. CASE UNCHANGED jobs
      BY <1>3, <2>1, <2>2, <2>4
    <2>5. CASE jobs' = [jobs EXCEPT ![w] = @ \cup {Delivered(s)}]
      <3>1. \A v \in Worker : jobs'[v] = IF v = w THEN jobs[v] \cup {Delivered(s)} ELSE jobs[v]
        BY <1>1, <2>5
      <3>2. \A v \in Worker : \A i \in jobs'[v] : i \in jobs[v] \/ i = Delivered(s)
        BY <3>1
      <3>3. NewInv' /\ AckInv'
        BY <1>0, <1>1, <2>1, <2>2, <2>3, <3>2, NewKept, AckKept
      <3>4. \A v \in Worker : \A i \in jobs[v] : i \in jobs'[v]
        BY <3>1
      <3>5. SentInv'
        BY <1>0, <1>1, <2>1, <2>2, <3>4, SentKept
      <3> QED
        BY <1>0, <3>3, <3>5
    <2> QED
      BY <2>1, <2>4, <2>5
  <1>6. ASSUME NEW w \in Worker, NEW j \in jobs[w]
        PROVE  /\ j.task \in Task /\ fate[j.task] # "new"
               /\ Ends(w, j) => /\ \A v \in Worker : \A i \in jobs'[v] : i \in jobs[v]
                                /\ \A v \in Worker : \A i \in jobs[v] : i = j \/ i \in jobs'[v]
               /\ \A k \in Job : Becomes(w, j, k) =>
                                /\ \A v \in Worker : \A i \in jobs'[v] : i \in jobs[v] \/ i = k
                                /\ \A v \in Worker : \A i \in jobs[v] : i = j \/ i \in jobs'[v]
                                /\ k \in jobs'[w]
    <2>1. j.task \in Task /\ fate[j.task] # "new"
      BY <1>0, <1>1, JobType DEF NewInv
    <2>2. Ends(w, j) => \A v \in Worker : jobs'[v] = IF v = w THEN jobs[v] \ {j} ELSE jobs[v]
      BY <1>1, JobsAfter
    <2>3. \A k \in Job : Becomes(w, j, k) =>
              \A v \in Worker : jobs'[v] = IF v = w THEN (jobs[v] \ {j}) \cup {k} ELSE jobs[v]
      BY <1>1, JobsAfter
    <2>4. Ends(w, j) => /\ \A v \in Worker : \A i \in jobs'[v] : i \in jobs[v]
                        /\ \A v \in Worker : \A i \in jobs[v] : i = j \/ i \in jobs'[v]
      BY <2>2
    <2>5. ASSUME NEW k \in Job, Becomes(w, j, k)
          PROVE  /\ \A v \in Worker : \A i \in jobs'[v] : i \in jobs[v] \/ i = k
                 /\ \A v \in Worker : \A i \in jobs[v] : i = j \/ i \in jobs'[v]
                 /\ k \in jobs'[w]
      BY <2>3, <2>5
    <2> QED
      BY <2>1, <2>4, <2>5
  <1>7. ASSUME NEW w \in Worker, NEW j \in jobs[w], Run(w, j)
        PROVE  FateInv'
    <2>1. Held' = Held /\ j.step = "run"
      BY <1>7 DEF Run, NotDue, Succeed, Fail, Held
    <2>2. PICK k \in Job :
            /\ Becomes(w, j, k) /\ k.task = j.task
            /\ IF k.step = "ack" THEN fate' = [fate EXCEPT ![j.task] = "done"] ELSE UNCHANGED fate
      BY <1>1, <1>7, RunEffect DEF Steps1
    <2>3. /\ \A t \in Task : t # j.task => fate'[t] = fate[t]
          /\ fate'[j.task] = "done" \/ fate'[j.task] = fate[j.task]
          /\ k.step = "ack" => fate'[j.task] = "done"
      BY <1>1, <1>6, <2>2
    <2>4. NewInv' /\ AckInv'
      BY <1>0, <1>1, <1>6, <2>1, <2>2, <2>3, NewKept, AckKept
    <2>5. SentInv'
      BY <1>0, <1>1, <1>6, <2>1, <2>2, <2>3, SentKept DEF Moving
    <2> QED
      BY <1>0, <2>4, <2>5
  <1>8. ASSUME NEW w \in Worker, NEW j \in jobs[w], Ack(w, j) \/ DeadLetter(w, j)
        PROVE  FateInv'
    <2>1. /\ UNCHANGED fate /\ j.step \in {"ack", "etaAck", "bury"}
          /\ UNCHANGED msgs \/ \E s \in Held : s[1] = j.task /\ msgs' = [msgs EXCEPT ![s] = None]
          /\ \/ Ends(w, j) /\ j.step \in {"ack", "bury"} /\ (j.step = "bury" => UNCHANGED msgs)
             \/ \E k \in Job : /\ Becomes(w, j, k) /\ k.task = j.task
                               /\ k.step = IF j.step = "bury" THEN "toDlq" ELSE "schedule"
      BY <1>1, <1>8, DeleteEffect DEF Steps1
    <2>2. /\ UNCHANGED msgs => Held' = Held
          /\ Held' \subseteq Held
          /\ \A s \in Held : s[1] # j.task => s \in Held'
      <3>1. UNCHANGED msgs => Held' = Held
        BY DEF Held
      <3>2. ASSUME NEW s \in Held, msgs' = [msgs EXCEPT ![s] = None]
            PROVE  Held' = Held \ {s}
        BY <1>1, <3>2, HeldAfter, HeldType
      <3> QED
        BY <2>1, <3>1, <3>2
    <2>3. CASE Ends(w, j) /\ j.step \in {"ack", "bury"} /\ (j.step = "bury" => UNCHANGED msgs)
      <3>1. NewInv' /\ AckInv'
        BY <1>0, <1>1, <1>6, <2>1, <2>2, <2>3, NewKept, AckKept
      <3>2. fate[j.task] = "sent" => Held' = Held
        BY <1>0, <2>2, <2>3 DEF AckInv
      <3>3. SentInv'
        BY <1>0, <1>6, <2>1, <2>2, <2>3, <3>2, SentKept DEF Moving
      <3> QED
        BY <1>0, <3>1, <3>3
    <2>4. ASSUME NEW k \in Job, Becomes(w, j, k), k.task = j.task,
                 k.step = IF j.step = "bury" THEN "toDlq" ELSE "schedule"
          PROVE  FateInv'
      <3>1. NewInv' /\ AckInv'
        BY <1>0, <1>1, <1>6, <2>1, <2>2, <2>4, NewKept, AckKept
      <3>2. k.step \in Moving /\ k \in jobs'[w]
        BY <1>6, <2>4 DEF Moving
      <3>3. SentInv'
        BY <1>0, <1>6, <2>1, <2>2, <2>4, <3>2, SentKept
      <3> QED
        BY <1>0, <3>1, <3>3
    <2> QED
      BY <2>1, <2>3, <2>4
  <1>9. ASSUME NEW w \in Worker, NEW j \in jobs[w], Nack(w, j)
        PROVE  FateInv'
    <2>1. /\ UNCHANGED fate /\ Ends(w, j) /\ j.step = "backoff"
          /\ UNCHANGED msgs \/ \E s \in Held, m \in Message : msgs' = [msgs EXCEPT ![s] = m]
      BY <1>9, NackEffect
    <2>2. Held' = Held
      <3>1. UNCHANGED msgs => Held' = Held
        BY DEF Held
      <3> QED
        BY <1>1, <2>1, <3>1, HeldStays
    <2>3. NewInv' /\ AckInv'
      BY <1>0, <1>1, <1>6, <2>1, <2>2, NewKept, AckKept
    <2>4. SentInv'
      BY <1>0, <1>1, <1>6, <2>1, <2>2, SentKept DEF Moving
    <2> QED
      BY <1>0, <2>3, <2>4
  <1>10. ASSUME NEW w \in Worker, NEW j \in jobs[w], ToDlq(w, j) \/ Schedule(w, j)
         PROVE  FateInv'
    <2>1. /\ Ends(w, j)
          /\ \/ UNCHANGED msgs /\ \E f \in {"dropped", "deleted"} : Fated(j.task, f)
             \/ \E s \in Slot \ Held, m \in Message :
                   /\ s[1] = j.task /\ msgs' = [msgs EXCEPT ![s] = m]
                   /\ \E f \in {"sent", "buried"} : Fated(j.task, f)
      BY <1>1, <1>10, SecondHalf
    <2>2. \/ Held' = Held /\ \E f \in {"dropped", "deleted"} : Fated(j.task, f)
          \/ /\ \E s \in Slot : s[1] = j.task /\ Held' = Held \cup {s}
             /\ \E f \in {"sent", "buried"} : Fated(j.task, f)
      <3>1. UNCHANGED msgs => Held' = Held
        BY DEF Held
      <3>2. ASSUME NEW s \in Slot, NEW m \in Message, msgs' = [msgs EXCEPT ![s] = m]
            PROVE  Held' = Held \cup {s}
        BY <1>1, <3>2, HeldAfter, MessageIsSome
      <3> QED
        BY <2>1, <3>1, <3>2
    <2>3. /\ \A t \in Task : t # j.task => fate'[t] = fate[t]
          /\ fate[j.task] = "done" => fate'[j.task] = "done"
          /\ fate'[j.task] # "new"
          /\ fate'[j.task] = "sent" => \E s \in Held' : s[1] = j.task
      <3>1. \A f \in {"dropped", "deleted", "sent", "buried"} : Fated(j.task, f) =>
               /\ \A t \in Task : t # j.task => fate'[t] = fate[t]
               /\ fate[j.task] = "done" => fate'[j.task] = "done"
               /\ fate'[j.task] = IF fate[j.task] = "done" THEN "done" ELSE f
        BY <1>1, <1>6 DEF Fated
      <3> QED
        BY <2>2, <3>1
    <2>4. /\ \A s \in Held' : s \in Held \/ s[1] = j.task
          /\ Held \subseteq Held'
      BY <2>2
    <2>5. NewInv' /\ AckInv'
      BY <1>0, <1>1, <1>6, <2>1, <2>3, <2>4, NewKept, AckKept
    <2>6. SentInv'
      BY <1>0, <1>6, <2>1, <2>3, <2>4, SentKept
    <2> QED
      BY <1>0, <2>5, <2>6
  <1>11. ASSUME NEW w \in Worker, Crash(w)
         PROVE  FateInv'
    <2>1. /\ Held' = Held
          /\ \A v \in Worker : jobs'[v] = IF v = w THEN {} ELSE jobs[v]
          /\ \A t \in Task : fate'[t] = IF fate[t] # "done" /\ \E j \in jobs[w] : j.task = t /\ j.step \in Moving
                                        THEN "dropped" ELSE fate[t]
      BY <1>1, <1>11 DEF Crash, Held
    <2>2. NewInv' /\ AckInv'
      BY <1>0, <1>1, <2>1, NewKept, AckKept
    <2>3. SentInv'
      BY <1>0, <2>1, SentKept
    <2> QED
      BY <1>0, <2>2, <2>3
  <1>12. ASSUME UNCHANGED vars \/ (\E t \in Task : EtaPasses(t)) \/ \E w \in Worker : ReceiveNothing(w)
         PROVE  FateInv'
    <2>1. UNCHANGED <<msgs, jobs, fate>>
      BY <1>12 DEF vars, setting, EtaPasses, ReceiveNothing
    <2> QED
      BY <1>3, <2>1 DEF Held
  <1> QED
    BY <1>2, <1>4, <1>5, <1>7, <1>8, <1>9, <1>10, <1>11, <1>12, NextParts

-----------------------------------------------------------------------------
(* One message, one execution *)

OneSlot ==
    \A s, r \in Held : s[1] = r[1] /\ s[1] \notin doubled => s = r

OneJob ==
    \A v, w \in Worker : \A i \in jobs[v], j \in jobs[w] :
        i.task = j.task /\ i.task \notin doubled => v = w /\ i = j

\* The message of an execution is invisible, and the worker has its receipt;
\* between the delete and the send there is none.
Bound(w, j) ==
    IF j.step \in Moving
    THEN \A s \in Held : s[1] # j.task
    ELSE /\ j.slot \in Held /\ msgs[j.slot].place = "invisible" /\ msgs[j.slot].receipt = j.receipt
         /\ receipts[w][j.task] = <<j.slot, j.receipt>>

BoundInv == \A w \in Worker : \A j \in jobs[w] : j.task \notin doubled => Bound(w, j)

SingleInv == OneSlot /\ OneJob /\ BoundInv

LEMMA OneSlotKept ==
  ASSUME OneSlot, doubled \subseteq doubled',
         \A s \in Held' : s[1] \notin doubled' => s \in Held \/ \A r \in Held' : r[1] = s[1] => r = s
  PROVE  OneSlot'
  BY DEF OneSlot

LEMMA OneJobKept ==
  ASSUME OneJob, doubled \subseteq doubled',
         \A w \in Worker : \A j \in jobs'[w] : j.task \notin doubled' =>
            j \in jobs[w] \/ \A v \in Worker : \A i \in jobs'[v] : i.task = j.task => v = w /\ i = j
  PROVE  OneJob'
  BY DEF OneJob

\* What happens to other tasks does not touch an execution.
LEMMA BoundElsewhere ==
  ASSUME BaseInv, NEW w \in Worker, NEW j \in jobs[w], Bound(w, j),
         \A s \in Slot : s[1] = j.task => msgs'[s] = msgs[s],
         receipts'[w][j.task] = receipts[w][j.task]
  PROVE  Bound(w, j)'
  <1>1. j.slot \in Slot /\ j.slot[1] = j.task
    BY JobType DEF BaseInv, SlotInv
  <1>2. \A s \in Slot : s[1] = j.task => (s \in Held' <=> s \in Held)
    BY DEF Held
  <1>3. CASE j.step \in Moving
    BY <1>2, <1>3 DEF Bound, Held
  <1>4. CASE j.step \notin Moving
    BY <1>1, <1>2, <1>4 DEF Bound
  <1> QED
    BY <1>3, <1>4

\* The one execution of a task stems from the one message of the task.
LEMMA Alone ==
  ASSUME BaseInv, SingleInv, NEW s \in Held, NEW w \in Worker, NEW j \in jobs[w],
         j.task = s[1], s[1] \notin doubled
  PROVE  j.slot = s /\ msgs[s].place = "invisible" /\ j.step \notin Moving
  <1>1. Bound(w, j) /\ j.slot[1] = j.task
    BY DEF SingleInv, BoundInv, BaseInv, SlotInv
  <1>2. j.step \notin Moving /\ j.slot \in Held /\ msgs[j.slot].place = "invisible"
    BY <1>1 DEF Bound
  <1>3. j.slot = s
    BY <1>1, <1>2 DEF SingleInv, OneSlot
  <1> QED
    BY <1>2, <1>3

LEMMA SingleStep == BaseInv /\ FateInv /\ SingleInv /\ [Next]_vars => SingleInv'
  <1> SUFFICES ASSUME BaseInv, FateInv, SingleInv, [Next]_vars PROVE SingleInv'
    OBVIOUS
  <1>0. OneSlot /\ OneJob /\ BoundInv /\ (OneSlot' /\ OneJob' /\ BoundInv' => SingleInv')
    BY DEF SingleInv
  <1>1. /\ TypeInv /\ SlotInv /\ jobs \in [Worker -> SUBSET Job]
        /\ receipts \in [Worker -> [Task -> (Slot \X Nat) \cup {None}]]
    BY TypeParts DEF BaseInv, JobsOK
  <1>2. ASSUME NEW t \in Task, Enqueue(t)
        PROVE  SingleInv'
    <2>1. fate[t] = "new" /\ UNCHANGED <<receipts, jobs, doubled>>
      BY <1>1, <1>2, EnqueueEffect
    <2>2. /\ \A s \in Held : s[1] # t
          /\ \A w \in Worker : \A j \in jobs[w] : j.task # t
      BY <2>1 DEF FateInv, NewInv
    <2>3. CASE UNCHANGED msgs
      BY <1>0, <2>1, <2>3 DEF OneSlot, OneJob, BoundInv, Bound, Held
    <2>4. ASSUME NEW s \in Slot \ Held, NEW m \in Message, s[1] = t, msgs' = [msgs EXCEPT ![s] = m]
          PROVE  SingleInv'
      <3>1. Held' = Held \cup {s} /\ \A r \in Slot : r # s => msgs'[r] = msgs[r]
        BY <1>1, <2>4, HeldAfter, MessageIsSome
      <3>2. OneSlot'
        BY <1>0, <2>1, <2>2, <2>4, <3>1, OneSlotKept
      <3>3. OneJob'
        BY <1>0, <2>1, OneJobKept
      <3>4. BoundInv'
        BY <1>0, <2>1, <2>2, <2>4, <3>1, BoundElsewhere DEF BoundInv
      <3> QED
        BY <1>0, <3>2, <3>3, <3>4
    <2> QED
      BY <1>1, <1>2, <2>3, <2>4, EnqueueEffect
  <1>3. ASSUME NEW s \in Held, DelayEnds(s) \/ TimesOut(s)
        PROVE  SingleInv'
    <2>1. /\ UNCHANGED <<receipts, jobs>> /\ doubled \subseteq doubled'
          /\ s \in Slot
      BY <1>1, <1>3, VisibleEffect, HeldType
    <2>2. PICK m \in Message : msgs' = [msgs EXCEPT ![s] = m]
      BY <1>1, <1>3, VisibleEffect
    <2>3. Held' = Held /\ \A r \in Slot : r # s => msgs'[r] = msgs[r]
      BY <1>1, <2>1, <2>2, HeldStays, HeldAfter
    <2>4. OneSlot'
      BY <1>0, <2>1, <2>3, OneSlotKept
    <2>5. OneJob'
      BY <1>0, <2>1, OneJobKept
    <2>6. ASSUME NEW w \in Worker, NEW j \in jobs[w], j.task \notin doubled'
          PROVE  Bound(w, j)'
      <3>1. Bound(w, j) /\ j.slot[1] = j.task /\ j.slot \in Slot
        BY <1>0, <1>1, <2>1, <2>6, JobType DEF BoundInv, SlotInv
      <3>2. j.step \notin Moving => j.slot # s
        BY <1>1, <1>3, <2>6, <3>1, VisibleEffect DEF Bound
      <3> QED
        BY <2>1, <2>3, <3>1, <3>2 DEF Bound
    <2>7. BoundInv'
      BY <2>1, <2>6 DEF BoundInv
    <2> QED
      BY <1>0, <2>4, <2>5, <2>7
  <1>4. ASSUME NEW w \in Worker, NEW s \in Held, Receive(w, s)
        PROVE  SingleInv'
    <2>1. /\ msgs' = [msgs EXCEPT ![s] = Hidden(s)] /\ msgs[s].place = "visible" /\ UNCHANGED doubled
          /\ Hidden(s) \in Message /\ Hidden(s).place = "invisible" /\ s \in Slot /\ s[1] \in Task
          /\ \/ UNCHANGED <<receipts, jobs>>
             \/ /\ receipts' = [receipts EXCEPT ![w][s[1]] = <<s, Hidden(s).receipt>>]
                /\ jobs' = [jobs EXCEPT ![w] = @ \cup {Delivered(s)}]
      BY <1>1, <1>4, ReceiveEffect, HiddenType, HeldType
    <2>2. Held' = Held /\ msgs'[s] = Hidden(s) /\ \A r \in Slot : r # s => msgs'[r] = msgs[r]
      BY <1>1, <2>1, HeldStays, HeldAfter
    <2>3. \A v \in Worker : \A i \in jobs[v] : i.task = s[1] => s[1] \in doubled
      BY <2>1, Alone
    <2>4. OneSlot'
      BY <1>0, <2>1, <2>2, OneSlotKept
    <2>5. /\ Delivered(s).task = s[1] /\ Delivered(s).slot = s /\ Delivered(s).step = "run"
          /\ Delivered(s).receipt = Hidden(s).receipt
      BY DEF Delivered
    <2>6. ASSUME NEW v \in Worker, NEW i \in jobs[v], i.task \notin doubled
          PROVE  Bound(v, i)'
      <3>1. i.task # s[1] /\ Bound(v, i) /\ i.task \in Task
        BY <1>0, <1>1, <2>3, <2>6, JobType DEF BoundInv
      <3>2. receipts'[v][i.task] = receipts[v][i.task]
        BY <1>1, <2>1, <3>1
      <3>3. \A r \in Slot : r[1] = i.task => msgs'[r] = msgs[r]
        BY <2>2, <3>1
      <3> QED
        BY <3>1, <3>2, <3>3, BoundElsewhere
    <2>7. CASE UNCHANGED jobs
      <3>1. OneJob'
        BY <1>0, <2>1, <2>7, OneJobKept
      <3>2. BoundInv'
        BY <2>1, <2>6, <2>7 DEF BoundInv
      <3> QED
        BY <1>0, <2>4, <3>1, <3>2
    <2>8. CASE /\ receipts' = [receipts EXCEPT ![w][s[1]] = <<s, Hidden(s).receipt>>]
               /\ jobs' = [jobs EXCEPT ![w] = @ \cup {Delivered(s)}]
      <3>1. \A v \in Worker : \A i \in jobs'[v] : i \in jobs[v] \/ (v = w /\ i = Delivered(s))
        BY <1>1, <2>8
      <3>2. OneJob'
        BY <1>0, <2>1, <2>3, <2>5, <3>1, OneJobKept
      <3>3. receipts'[w][s[1]] = <<s, Hidden(s).receipt>>
        BY <1>1, <2>1, <2>8
      <3>4. ASSUME NEW d, d = Delivered(s)
            PROVE  Bound(w, d)'
        <4>1. d.task = s[1] /\ d.slot = s /\ d.step = "run" /\ d.receipt = Hidden(s).receipt
          BY <2>5, <3>4
        <4>2. d.step \notin Moving
          BY <4>1 DEF Moving
        <4>3. d.slot \in Held' /\ msgs'[d.slot].place = "invisible" /\ msgs'[d.slot].receipt = d.receipt
          BY <2>1, <2>2, <4>1
        <4>4. receipts'[w][d.task] = <<d.slot, d.receipt>>
          BY <3>3, <4>1
        <4> QED
          BY <4>2, <4>3, <4>4 DEF Bound
      <3>5. BoundInv'
        <4> SUFFICES ASSUME NEW v \in Worker, NEW i \in jobs'[v], i.task \notin doubled'
                     PROVE  Bound(v, i)'
          BY DEF BoundInv
        <4> QED
          BY <2>1, <2>6, <3>1, <3>4
      <3> QED
        BY <1>0, <2>4, <3>2, <3>5
    <2> QED
      BY <2>1, <2>7, <2>8
  <1>5. ASSUME NEW w \in Worker, NEW j \in jobs[w], Run(w, j)
        PROVE  SingleInv'
    <2>1. UNCHANGED <<msgs, receipts, doubled>> /\ j.step = "run" /\ Held' = Held
      BY <1>5 DEF Run, NotDue, Succeed, Fail, Held
    <2>2. PICK k \in Job : /\ Becomes(w, j, k) /\ k.task = j.task /\ k.slot = j.slot /\ k.receipt = j.receipt
                           /\ k.step \in {"etaAck", "ack", "backoff", "bury"}
      BY <1>1, <1>5, RunEffect DEF Steps1
    <2>3. \A v \in Worker : jobs'[v] = IF v = w THEN (jobs[v] \ {j}) \cup {k} ELSE jobs[v]
      BY <1>1, <2>2, JobsAfter
    <2>4. \A v \in Worker : \A i \in jobs'[v] : (v = w /\ i = k) \/ (i \in jobs[v] /\ ~ (v = w /\ i = j))
      BY <2>3
    <2>5. \A v \in Worker : \A i \in jobs'[v] : i.task = j.task /\ j.task \notin doubled => v = w /\ i = k
      BY <1>0, <2>4 DEF OneJob
    <2>6. OneSlot'
      BY <1>0, <2>1, OneSlotKept
    <2>7. OneJob'
      BY <1>0, <2>1, <2>2, <2>4, <2>5, OneJobKept
    <2>8. j.task \notin doubled => Bound(w, k)'
      BY <1>0, <2>1, <2>2 DEF BoundInv, Bound, Moving
    <2>9. BoundInv'
      <3> SUFFICES ASSUME NEW v \in Worker, NEW i \in jobs'[v], i.task \notin doubled'
                   PROVE  Bound(v, i)'
        BY DEF BoundInv
      <3>1. CASE v = w /\ i = k
        BY <2>1, <2>2, <2>8, <3>1
      <3>2. CASE i \in jobs[v]
        BY <1>0, <2>1, <3>2 DEF BoundInv, Bound
      <3> QED
        BY <2>4, <3>1, <3>2
    <2> QED
      BY <1>0, <2>6, <2>7, <2>9
  <1>6. ASSUME NEW w \in Worker, NEW j \in jobs[w], Ends(w, j)
        PROVE  /\ \A v \in Worker : \A i \in jobs'[v] : i \in jobs[v]
               /\ j.task \notin doubled => \A v \in Worker : \A i \in jobs'[v] : i.task # j.task
    <2>1. \A v \in Worker : jobs'[v] = IF v = w THEN jobs[v] \ {j} ELSE jobs[v]
      BY <1>1, <1>6, JobsAfter
    <2> QED
      BY <1>0, <2>1 DEF OneJob
  \* An execution changes the slots and the receipts of its own task.
  <1>7. ASSUME NEW w \in Worker, NEW j \in jobs[w], doubled \subseteq doubled',
               UNCHANGED receipts \/ receipts' = [receipts EXCEPT ![w][j.task] = None],
               \/ UNCHANGED msgs
               \/ \E s \in Slot, m \in Message \cup {None} : s[1] = j.task /\ msgs' = [msgs EXCEPT ![s] = m]
        PROVE  /\ \A v \in Worker : \A i \in jobs[v] : i.task # j.task /\ i.task \notin doubled' => Bound(v, i)'
               /\ \A s \in Slot : s[1] # j.task => (s \in Held' <=> s \in Held)
    <2>1. j.task \in Task
      BY <1>1, JobType
    <2>2. \A s \in Slot : s[1] # j.task => msgs'[s] = msgs[s]
      BY <1>1, <1>7, HeldAfter
    <2>3. ASSUME NEW v \in Worker, NEW i \in jobs[v], i.task # j.task, i.task \notin doubled'
          PROVE  Bound(v, i)'
      <3>1. i.task \in Task /\ Bound(v, i)
        BY <1>0, <1>1, <1>7, <2>3, JobType DEF BoundInv
      <3>2. receipts'[v][i.task] = receipts[v][i.task]
        BY <1>1, <1>7, <2>1, <2>3, <3>1
      <3> QED
        BY <2>2, <2>3, <3>1, <3>2, BoundElsewhere
    <2> QED
      BY <2>2, <2>3 DEF Held
  <1>8. ASSUME NEW w \in Worker, NEW j \in jobs[w], Ack(w, j) \/ DeadLetter(w, j)
        PROVE  SingleInv'
    <2>1. /\ receipts' = [receipts EXCEPT ![w][j.task] = None]
          /\ UNCHANGED msgs \/ \E s \in Held : s[1] = j.task /\ msgs' = [msgs EXCEPT ![s] = None]
          /\ faults' # faults => UNCHANGED msgs
          /\ j.slot \in Held /\ receipts[w][j.task] = <<j.slot, j.receipt>> /\ msgs[j.slot].receipt = j.receipt
               /\ faults' = faults => msgs' = [msgs EXCEPT ![j.slot] = None]
          /\ j.step \in {"ack", "etaAck", "bury"}
          /\ \/ Ends(w, j) /\ UNCHANGED doubled
             \/ /\ \E k \in Job : /\ Becomes(w, j, k) /\ k.task = j.task
                                  /\ k.step = IF j.step = "bury" THEN "toDlq" ELSE "schedule"
                /\ doubled' = IF faults' = faults THEN doubled ELSE doubled \cup {j.task}
      BY <1>8, DeleteEffect DEF Steps1
    <2>2. doubled \subseteq doubled'
      BY <2>1
    <2>3. Held' \subseteq Held
      <3>1. UNCHANGED msgs => Held' = Held
        BY DEF Held
      <3>2. ASSUME NEW s \in Held, msgs' = [msgs EXCEPT ![s] = None]
            PROVE  Held' = Held \ {s}
        BY <1>1, <3>2, HeldAfter, HeldType
      <3> QED
        BY <2>1, <3>1, <3>2
    <2>4. OneSlot'
      BY <1>0, <2>2, <2>3, OneSlotKept
    <2>5. \A v \in Worker : \A i \in jobs[v] : i.task # j.task /\ i.task \notin doubled' => Bound(v, i)'
      <3>1. \/ UNCHANGED msgs
            \/ \E s \in Slot, m \in Message \cup {None} : s[1] = j.task /\ msgs' = [msgs EXCEPT ![s] = m]
        BY <1>1, <2>1, HeldType
      <3> QED
        BY <1>7, <2>1, <2>2, <3>1
    <2>6. CASE Ends(w, j) /\ UNCHANGED doubled
      <3>1. /\ \A v \in Worker : \A i \in jobs'[v] : i \in jobs[v]
            /\ j.task \notin doubled => \A v \in Worker : \A i \in jobs'[v] : i.task # j.task
        BY <1>6, <2>6
      <3>2. OneJob'
        BY <1>0, <2>2, <3>1, OneJobKept
      <3>3. BoundInv'
        BY <2>5, <2>6, <3>1 DEF BoundInv
      <3> QED
        BY <1>0, <2>4, <3>2, <3>3
    <2>7. ASSUME NEW k \in Job, Becomes(w, j, k), k.task = j.task,
                 k.step = IF j.step = "bury" THEN "toDlq" ELSE "schedule",
                 doubled' = IF faults' = faults THEN doubled ELSE doubled \cup {j.task}
          PROVE  SingleInv'
      <3>1. \A v \in Worker : jobs'[v] = IF v = w THEN (jobs[v] \ {j}) \cup {k} ELSE jobs[v]
        BY <1>1, <2>7, JobsAfter
      <3>2. \A v \in Worker : \A i \in jobs'[v] : (v = w /\ i = k) \/ (i \in jobs[v] /\ ~ (v = w /\ i = j))
        BY <3>1
      <3>3. \A v \in Worker : \A i \in jobs'[v] : i.task = j.task /\ j.task \notin doubled => v = w /\ i = k
        BY <1>0, <3>2 DEF OneJob
      <3>4. OneJob'
        BY <1>0, <2>2, <2>7, <3>2, <3>3, OneJobKept
      <3>5. j.task \notin doubled' => \A s \in Held' : s[1] # j.task
        <4> SUFFICES ASSUME j.task \notin doubled' PROVE \A s \in Held' : s[1] # j.task
          OBVIOUS
        <4>1. faults' = faults /\ j.task \notin doubled
          BY <2>7
        <4>2. Bound(w, j) /\ j.step \notin Moving /\ j.slot[1] = j.task
          BY <1>0, <1>1, <2>1, <4>1 DEF BoundInv, Moving, SlotInv
        <4>3. j.slot \in Held /\ msgs' = [msgs EXCEPT ![j.slot] = None]
          BY <2>1, <4>1, <4>2 DEF Bound
        <4>4. Held' = Held \ {j.slot}
          BY <1>1, <4>3, HeldAfter, HeldType
        <4> QED
          BY <1>0, <4>1, <4>2, <4>3, <4>4 DEF OneSlot
      <3>6. j.task \notin doubled' => Bound(w, k)'
        BY <2>7, <3>5 DEF Bound, Moving
      <3>7. BoundInv'
        <4> SUFFICES ASSUME NEW v \in Worker, NEW i \in jobs'[v], i.task \notin doubled'
                     PROVE  Bound(v, i)'
          BY DEF BoundInv
        <4> QED
          BY <2>2, <2>5, <2>7, <3>2, <3>3, <3>6
      <3> QED
        BY <1>0, <2>4, <3>4, <3>7
    <2> QED
      BY <2>1, <2>6, <2>7
  <1>9. ASSUME NEW w \in Worker, NEW j \in jobs[w], Nack(w, j)
        PROVE  SingleInv'
    <2>1. /\ receipts' = [receipts EXCEPT ![w][j.task] = None] /\ UNCHANGED doubled /\ Ends(w, j)
          /\ UNCHANGED msgs \/ \E s \in Held, m \in Message : s[1] = j.task /\ msgs' = [msgs EXCEPT ![s] = m]
      BY <1>9, NackEffect
    <2>2. Held' = Held
      <3>1. UNCHANGED msgs => Held' = Held
        BY DEF Held
      <3> QED
        BY <1>1, <2>1, <3>1, HeldStays
    <2>3. \/ UNCHANGED msgs
          \/ \E s \in Slot, m \in Message \cup {None} : s[1] = j.task /\ msgs' = [msgs EXCEPT ![s] = m]
      BY <1>1, <2>1, HeldType
    <2>4. \A v \in Worker : \A i \in jobs[v] : i.task # j.task /\ i.task \notin doubled' => Bound(v, i)'
      BY <1>7, <2>1, <2>3
    <2>5. /\ \A v \in Worker : \A i \in jobs'[v] : i \in jobs[v]
          /\ j.task \notin doubled => \A v \in Worker : \A i \in jobs'[v] : i.task # j.task
      BY <1>6, <2>1
    <2>6. OneSlot' /\ OneJob'
      BY <1>0, <2>1, <2>2, <2>5, OneSlotKept, OneJobKept
    <2>7. BoundInv'
      BY <2>1, <2>4, <2>5 DEF BoundInv
    <2> QED
      BY <1>0, <2>6, <2>7
  <1>10. ASSUME NEW w \in Worker, NEW j \in jobs[w], ToDlq(w, j) \/ Schedule(w, j)
         PROVE  SingleInv'
    <2>1. /\ Ends(w, j) /\ j.step \in Moving /\ UNCHANGED <<receipts, doubled>>
          /\ \/ UNCHANGED msgs
             \/ \E s \in Slot \ Held, m \in Message : s[1] = j.task /\ msgs' = [msgs EXCEPT ![s] = m]
      BY <1>1, <1>10, SecondHalf
    <2>2. Held' = Held \/ \E s \in Slot : s[1] = j.task /\ Held' = Held \cup {s}
      <3>1. UNCHANGED msgs => Held' = Held
        BY DEF Held
      <3>2. ASSUME NEW s \in Slot, NEW m \in Message, msgs' = [msgs EXCEPT ![s] = m]
            PROVE  Held' = Held \cup {s}
        BY <1>1, <3>2, HeldAfter, MessageIsSome
      <3> QED
        BY <2>1, <3>1, <3>2
    <2>3. j.task \notin doubled => \A s \in Held : s[1] # j.task
      BY <1>0, <2>1 DEF BoundInv, Bound
    <2>4. \A v \in Worker : \A i \in jobs[v] : i.task # j.task /\ i.task \notin doubled' => Bound(v, i)'
      BY <1>7, <2>1
    <2>5. /\ \A v \in Worker : \A i \in jobs'[v] : i \in jobs[v]
          /\ j.task \notin doubled => \A v \in Worker : \A i \in jobs'[v] : i.task # j.task
      BY <1>6, <2>1
    <2>6. OneSlot'
      BY <1>0, <2>1, <2>2, <2>3, OneSlotKept
    <2>7. OneJob'
      BY <1>0, <2>1, <2>5, OneJobKept
    <2>8. BoundInv'
      BY <2>1, <2>4, <2>5 DEF BoundInv
    <2> QED
      BY <1>0, <2>6, <2>7, <2>8
  <1>11. ASSUME NEW w \in Worker, Crash(w)
         PROVE  SingleInv'
    <2>1. /\ UNCHANGED <<msgs, doubled>> /\ Held' = Held
          /\ \A v \in Worker : jobs'[v] = IF v = w THEN {} ELSE jobs[v]
          /\ \A v \in Worker : v # w => receipts'[v] = receipts[v]
      BY <1>1, <1>11 DEF Crash, Held
    <2>2. OneSlot' /\ OneJob'
      BY <1>0, <2>1, OneSlotKept, OneJobKept
    <2>3. BoundInv'
      <3> SUFFICES ASSUME NEW v \in Worker, NEW i \in jobs'[v], i.task \notin doubled'
                   PROVE  Bound(v, i)'
        BY DEF BoundInv
      <3>1. i \in jobs[v] /\ v # w
        BY <2>1
      <3>2. Bound(v, i)
        BY <1>0, <2>1, <3>1 DEF BoundInv
      <3>3. receipts'[v][i.task] = receipts[v][i.task]
        BY <2>1, <3>1
      <3> QED
        BY <2>1, <3>1, <3>2, <3>3, BoundElsewhere
    <2> QED
      BY <1>0, <2>2, <2>3
  <1>12. ASSUME UNCHANGED vars \/ (\E t \in Task : EtaPasses(t)) \/ \E w \in Worker : ReceiveNothing(w)
         PROVE  SingleInv'
    <2>1. UNCHANGED <<msgs, receipts, jobs, doubled>>
      BY <1>12 DEF vars, setting, EtaPasses, ReceiveNothing
    <2> QED
      BY <1>0, <2>1 DEF OneSlot, OneJob, BoundInv, Bound, Held
  <1> QED
    BY <1>2, <1>3, <1>4, <1>5, <1>8, <1>9, <1>10, <1>11, <1>12, NextParts

-----------------------------------------------------------------------------
(* The theorems *)

IInv == BaseInv /\ CountInv /\ FateInv /\ SingleInv

LEMMA InvInit == Init => IInv
  <1> SUFFICES ASSUME Init PROVE IInv
    OBVIOUS
  <1>1. Held = {} /\ (\A w \in Worker : jobs[w] = {}) /\ (\A t \in Task : fate[t] = "new")
    BY DEF Init, Held
  <1>2. CountInv
    BY <1>1 DEF CountInv
  <1>3. FateInv
    BY <1>1 DEF FateInv, NewInv, AckInv, SentInv
  <1>4. SingleInv
    BY <1>1 DEF SingleInv, OneSlot, OneJob, BoundInv
  <1> QED
    BY <1>2, <1>3, <1>4, BaseInit DEF IInv

LEMMA InvStep == IInv /\ [Next]_vars => IInv'
  BY BaseStep, CountStep, FateStep, SingleStep DEF IInv

LEMMA Invariance == Spec => []IInv
  BY InvInit, InvStep, PTL DEF Spec

\* A set all of whose elements are the same.
LEMMA AtMostOne ==
  ASSUME NEW S, \A x, y \in S : x = y
  PROVE  IsFiniteSet(S) /\ Cardinality(S) <= 1 /\ (S # {} => Cardinality(S) = 1)
  <1>1. CASE S = {}
    BY <1>1, FS_EmptySet
  <1>2. ASSUME NEW x \in S
        PROVE  IsFiniteSet(S) /\ Cardinality(S) = 1
    <2>1. S = {x}
      BY <1>2
    <2> QED
      BY <2>1, FS_Singleton
  <1> QED
    BY <1>1, <1>2

\* Whatever times out, fails or crashes: a message that SQS took is not lost
\* but by the two handlers that delete before they send, it is executed once at a
\* time unless its visibility timeout ended under an execution, and a dead
\* letter is nowhere else (ack, nack, dead_letter and dequeue of SqsBroker).
THEOREM SqsSafe == Spec => []NeitherLostNorDoubled
  <1>1. IInv => NeitherLostNorDoubled
    <2> SUFFICES ASSUME IInv PROVE NeitherLostNorDoubled
      OBVIOUS
    <2>1. TypeOK
      BY DEF IInv, BaseInv, TypeInv
    <2>2. NoTaskVanishes
      <3> SUFFICES ASSUME NEW t \in Task, fate[t] = "sent"
                   PROVE  (\E s \in Held : s[1] = t) \/ \E j \in Executing(t) : j.step \in Moving
        BY DEF NoTaskVanishes
      <3>1. \/ \E s \in Held : s[1] = t
            \/ \E w \in Worker : \E j \in jobs[w] : j.task = t /\ j.step \in Moving
        BY DEF IInv, FateInv, SentInv
      <3> QED
        BY <3>1 DEF Executing
    <2>3. ExclusiveExecution
      <3> SUFFICES ASSUME NEW t \in Task \ doubled PROVE Cardinality(Executing(t)) <= 1
        BY DEF ExclusiveExecution
      <3>1. \A i, j \in Executing(t) : i = j
        BY DEF IInv, SingleInv, OneJob, Executing
      <3> QED
        BY <3>1, AtMostOne
    <2>4. DeadLetterIsFinal
      <3> SUFFICES ASSUME NEW t \in Task \ doubled, NEW s \in Held, s[1] = t, msgs[s].place = "dlq"
                   PROVE  Cardinality({r \in Held : r[1] = t}) = 1 /\ Executing(t) = {}
        BY DEF DeadLetterIsFinal
      <3> DEFINE S == {r \in Held : r[1] = t}
      <3>1. S # {} /\ \A q, r \in S : q = r
        BY DEF IInv, SingleInv, OneSlot
      <3>2. Cardinality(S) = 1
        <4> HIDE DEF S
        <4> QED
          BY <3>1, AtMostOne
      <3>3. ASSUME NEW w \in Worker, NEW j \in jobs[w], j.task = t
            PROVE  FALSE
        BY <3>3, Alone DEF IInv
      <3> QED
        BY <3>2, <3>3 DEF Executing
    <2> QED
      BY <2>1, <2>2, <2>3, <2>4 DEF NeitherLostNorDoubled
  <1> QED
    BY <1>1, Invariance, PTL

\* The receipt that ack, nack and dead_letter take from the map of the broker is
\* that of the delivery the worker executes, and the last one that SQS gave out.
THEOREM SqsReceipts == Spec => []ReceiptIsLast
  <1>1. IInv => ReceiptIsLast
    BY DEF IInv, SingleInv, BoundInv, Bound, ReceiptIsLast
  <1> QED
    BY <1>1, Invariance, PTL

\* For all limits, timeouts, crashes and redeliveries: what dead_letter has sent to
\* the dlq_url failed in its first run and in every retry it may have.
THEOREM SqsRetries == Spec => []BuriedOnlyWhenExhausted
  <1>1. IInv => BuriedOnlyWhenExhausted
    BY DEF IInv, CountInv, BuriedOnlyWhenExhausted, Exhausted
  <1> QED
    BY <1>1, Invariance, PTL
=============================================================================
