-------------------------- MODULE AmqpBrokerProofs --------------------------
(***************************************************************************)
(* Proofs about AmqpBroker, for any number of tasks, queues, workers and   *)
(* permits, any prefetch count and any channels that close.                *)
(***************************************************************************)
EXTENDS AmqpBroker, FiniteSetTheorems, TLAPS

-----------------------------------------------------------------------------
(* Sequences and finite sets *)

\* The same delivery.
Same(m, d) == m.chan = d.chan /\ m.tag = d.tag

Distinct(q) == \A i, k \in DOMAIN q : Same(q[i], q[k]) => i = k

LEMMA AppendItems ==
  ASSUME NEW S, NEW q \in Seq(S), NEW e \in S
  PROVE  /\ Append(q, e) \in Seq(S)
         /\ Range(Append(q, e)) = Range(q) \cup {e}
         /\ Distinct(q) /\ (\A m \in Range(q) : ~ Same(m, e)) => Distinct(Append(q, e))
  <1>1. /\ Append(q, e) \in Seq(S) /\ Len(q) \in Nat
        /\ DOMAIN q = 1..Len(q) /\ DOMAIN Append(q, e) = 1..(Len(q) + 1)
        /\ \A i \in 1..Len(q) : Append(q, e)[i] = q[i]
        /\ Append(q, e)[Len(q) + 1] = e
    OBVIOUS
  <1>2. \A i \in DOMAIN Append(q, e) : i \in DOMAIN q \/ i = Len(q) + 1
    BY <1>1
  <1>3. Range(Append(q, e)) = Range(q) \cup {e}
    BY <1>1, <1>2 DEF Range
  <1>4. ASSUME Distinct(q), \A m \in Range(q) : ~ Same(m, e)
        PROVE  Distinct(Append(q, e))
    BY <1>1, <1>2, <1>4 DEF Distinct, Range, Same
  <1> QED
    BY <1>1, <1>3, <1>4

LEMMA TailItems ==
  ASSUME NEW S, NEW q \in Seq(S), q # <<>>
  PROVE  /\ Tail(q) \in Seq(S) /\ Head(q) \in S
         /\ Range(q) = Range(Tail(q)) \cup {Head(q)}
         /\ Distinct(q) => Distinct(Tail(q)) /\ \A m \in Range(Tail(q)) : ~ Same(m, Head(q))
  <1>1. /\ Tail(q) \in Seq(S) /\ Head(q) \in S /\ Len(q) \in Nat /\ Len(q) > 0
        /\ DOMAIN q = 1..Len(q) /\ DOMAIN Tail(q) = 1..(Len(q) - 1)
        /\ \A i \in 1..(Len(q) - 1) : Tail(q)[i] = q[i + 1]
        /\ Head(q) = q[1]
    OBVIOUS
  <1>2. \A i \in DOMAIN q : i = 1 \/ (i - 1 \in DOMAIN Tail(q) /\ q[i] = Tail(q)[i - 1])
    BY <1>1
  <1>3. \A i \in DOMAIN Tail(q) : i + 1 \in DOMAIN q /\ Tail(q)[i] = q[i + 1] /\ i + 1 # 1
    BY <1>1
  <1>4. 1 \in DOMAIN q
    BY <1>1
  <1>5. Range(q) = Range(Tail(q)) \cup {Head(q)}
    BY <1>1, <1>2, <1>3, <1>4 DEF Range
  <1>6. ASSUME Distinct(q)
        PROVE  Distinct(Tail(q)) /\ \A m \in Range(Tail(q)) : ~ Same(m, Head(q))
    <2>1. Distinct(Tail(q))
      <3> SUFFICES ASSUME NEW i \in DOMAIN Tail(q), NEW k \in DOMAIN Tail(q), Same(Tail(q)[i], Tail(q)[k])
                   PROVE  i = k
        BY DEF Distinct
      <3>1. i + 1 = k + 1
        BY <1>3, <1>6 DEF Distinct
      <3> QED
        BY <1>1, <3>1
    <2>2. ASSUME NEW i \in DOMAIN Tail(q)
          PROVE  ~ Same(Tail(q)[i], Head(q))
      BY <1>1, <1>3, <1>4, <1>6 DEF Distinct
    <2> QED
      BY <2>1, <2>2 DEF Range
  <1> QED
    BY <1>1, <1>5, <1>6

\* A set with a finite number of elements leaves one of the first numbers free.
LEMMA FreeNumber ==
  ASSUME NEW S, IsFiniteSet(S)
  PROVE  \E n \in 1..(Cardinality(S) + 1) : n \notin S
  <1> SUFFICES ASSUME 1..(Cardinality(S) + 1) \subseteq S PROVE FALSE
    OBVIOUS
  <1>1. Cardinality(S) \in Nat
    BY FS_CardinalityType
  <1>2. Cardinality(1..(Cardinality(S) + 1)) = Cardinality(S) + 1
    BY <1>1, FS_Interval
  <1>3. Cardinality(1..(Cardinality(S) + 1)) <= Cardinality(S)
    BY FS_Subset
  <1> QED
    BY <1>1, <1>2, <1>3

LEMMA FiniteImage ==
  ASSUME NEW S, IsFiniteSet(S), NEW f, DOMAIN f = S
  PROVE  IsFiniteSet({f[x] : x \in S})
  <1> DEFINE T == {f[x] : x \in S}
  <1>1. [x \in S |-> f[x]] \in Surjection(S, T)
    BY DEF Surjection
  <1> QED
    BY <1>1, FS_Surjection

-----------------------------------------------------------------------------
(* Types *)

TypeInv ==
    /\ TypeOK
    /\ IsFiniteSet(inbox) /\ IsFiniteSet(hand)
    /\ \A w \in Worker : IsFiniteSet(jobs[w])

LEMMA SlotsFinite == IsFiniteSet(Slot)
  <1>1. IsFiniteSet(1..MaxCopies)
    BY FS_Interval, AmqpAssumption
  <1> QED
    BY <1>1, FS_Product, AmqpAssumption DEF Slot

LEMMA HeldType ==
  ASSUME TypeInv, NEW s \in Held
  PROVE  s \in Slot /\ s[1] \in Task /\ msgs[s] \in Message /\ msgs[s] # None
  BY DEF TypeInv, TypeOK, Held, Slot

\* The tag of a delivery is used by nobody else on the channel.
LEMMA NewTagIsFree ==
  ASSUME TypeInv, NEW c \in Channel
  PROVE  /\ NewTag(c) \in Nat
         /\ \A s \in Unacked(c) : msgs[s].tag # NewTag(c)
         /\ \A j \in jobs[c[1]] : j.tag # NewTag(c)
         /\ \A m \in inbox \cup hand : m.chan = c => m.tag # NewTag(c)
         /\ \A m \in Range(mpsc[c[1]]) : m.tag # NewTag(c)
         /\ \A t \in Task : deliveries[c[1]][t] # None => deliveries[c[1]][t][2] # NewTag(c)
  <1> DEFINE w == c[1]
             M == {d \in inbox \cup hand : d.chan = c}
             D == {t \in Task : deliveries[w][t] # None}
             A1 == {msgs[s].tag : s \in Unacked(c)}
             A2 == {j.tag : j \in jobs[w]}
             A3 == {m.tag : m \in M}
             A4 == {mpsc[w][i].tag : i \in DOMAIN mpsc[w]}
             A5 == {deliveries[w][t][2] : t \in D}
             used == A1 \cup A2 \cup A3 \cup A4 \cup A5
  <1>0. w \in Worker
    BY DEF Channel
  <1>1. IsFiniteSet(A1)
    <2> DEFINE S == Unacked(c)  f == [s \in S |-> msgs[s].tag]
    <2>1. IsFiniteSet(S)
      BY SlotsFinite, FS_Subset DEF Unacked, Held
    <2>2. A1 = {f[s] : s \in S} /\ DOMAIN f = S
      OBVIOUS
    <2> HIDE DEF S, f, A1
    <2> QED
      BY <2>1, <2>2, FiniteImage
  <1>2. IsFiniteSet(A2)
    <2> DEFINE S == jobs[w]  f == [j \in S |-> j.tag]
    <2>1. IsFiniteSet(S)
      BY <1>0 DEF TypeInv
    <2>2. A2 = {f[s] : s \in S} /\ DOMAIN f = S
      OBVIOUS
    <2> HIDE DEF S, f, A2
    <2> QED
      BY <2>1, <2>2, FiniteImage
  <1>3. IsFiniteSet(A3)
    <2> DEFINE f == [m \in M |-> m.tag]
    <2>0. IsFiniteSet(inbox \cup hand)
      BY FS_Union DEF TypeInv
    <2>1. IsFiniteSet(M)
      BY <2>0, FS_Subset
    <2>2. A3 = {f[s] : s \in M} /\ DOMAIN f = M
      OBVIOUS
    <2> HIDE DEF M, f, A3
    <2> QED
      BY <2>1, <2>2, FiniteImage
  <1>4. IsFiniteSet(A4)
    <2> DEFINE S == DOMAIN mpsc[w]  f == [i \in S |-> mpsc[w][i].tag]
    <2>1. IsFiniteSet(S)
      <3>1. mpsc[w] \in Seq(Delivery)
        BY <1>0 DEF TypeInv, TypeOK
      <3>2. S = 1..Len(mpsc[w]) /\ Len(mpsc[w]) \in Nat
        BY <3>1
      <3> QED
        BY <3>2, FS_Interval
    <2>2. A4 = {f[s] : s \in S} /\ DOMAIN f = S
      OBVIOUS
    <2> HIDE DEF S, f, A4
    <2> QED
      BY <2>1, <2>2, FiniteImage
  <1>5. IsFiniteSet(A5)
    <2> DEFINE f == [t \in D |-> deliveries[w][t][2]]
    <2>1. IsFiniteSet(D)
      BY FS_Subset, AmqpAssumption
    <2>2. A5 = {f[s] : s \in D} /\ DOMAIN f = D
      OBVIOUS
    <2> HIDE DEF D, f, A5
    <2> QED
      BY <2>1, <2>2, FiniteImage
  <1>6. IsFiniteSet(used)
    <2> HIDE DEF A1, A2, A3, A4, A5
    <2>1. IsFiniteSet(A1 \cup A2)
      BY <1>1, <1>2, FS_Union
    <2>2. IsFiniteSet(A1 \cup A2 \cup A3)
      BY <1>3, <2>1, FS_Union
    <2>3. IsFiniteSet(A1 \cup A2 \cup A3 \cup A4)
      BY <1>4, <2>2, FS_Union
    <2> QED
      BY <1>5, <2>3, FS_Union
  <1>7. NewTag(c) = CHOOSE n \in 1..(Cardinality(used) + 1) : n \notin used
    BY DEF NewTag
  <1> HIDE DEF used
  <1>8. NewTag(c) \in 1..(Cardinality(used) + 1) /\ NewTag(c) \notin used
    BY <1>6, <1>7, FreeNumber
  <1>9. NewTag(c) \in Nat
    BY <1>6, <1>8, FS_CardinalityType
  <1> QED
    BY <1>8, <1>9 DEF used, Range

\* What the invariants below do not speak of.
RestOK ==
    /\ plugin \in BOOLEAN /\ loop \subseteq Channel /\ publishing \subseteq Worker
    /\ due \subseteq Task /\ failures \in [Task -> 0..MaxFailures]

JobsOK ==
    /\ jobs \in [Worker -> SUBSET Job]
    /\ \A w \in Worker : IsFiniteSet(jobs[w]) /\ Cardinality(jobs[w]) <= Concurrency

FlightOK ==
    /\ inbox \subseteq Delivery /\ hand \subseteq Delivery /\ IsFiniteSet(inbox) /\ IsFiniteSet(hand)
    /\ mpsc \in [Worker -> Seq(Delivery)]

Fates == {"new", "sent", "done", "dropped"}

LEMMA TypeParts ==
  TypeInv <=> /\ RestOK /\ FlightOK /\ JobsOK
              /\ msgs \in [Slot -> Message \cup {None}]
              /\ chan \in [Channel -> {"none", "open", "closed"}]
              /\ consuming \in [Worker -> SUBSET Queue]
              /\ deliveries \in [Worker -> [Task -> (Channel \X Nat) \cup {None}]]
              /\ fate \in [Task -> Fates]
  BY DEF TypeInv, TypeOK, RestOK, FlightOK, JobsOK, Fates

LEMMA JobType ==
  ASSUME TypeInv, NEW w \in Worker, NEW j \in jobs[w]
  PROVE  /\ j \in Job /\ j.task \in Task /\ j.retries \in Nat /\ j.step \in Steps
         /\ j.chan \in Channel /\ j.tag \in Nat
  BY DEF TypeInv, TypeOK, Job

LEMMA DeliveryType ==
  ASSUME NEW m \in Delivery
  PROVE  m.task \in Task /\ m.retries \in Nat /\ m.chan \in Channel /\ m.tag \in Nat
         /\ m.chan[1] \in Worker /\ m.chan[2] \in Queue /\ m.chan = <<m.chan[1], m.chan[2]>>
  BY DEF Delivery, Channel

\* Every step is one of these.
LEMMA NextParts ==
  ASSUME [Next]_vars
  PROVE  \/ UNCHANGED vars
         \/ \E t \in Task : Enqueue(t)
         \/ \E t \in Task : EtaPasses(t)
         \/ \E s \in Held : Release(s) \/ GetDlq(s) \/ PutBackDlq(s)
         \/ \E c \in Channel : EnsureConsumer(c[1], c[2])
         \/ \E c \in Channel : \E s \in Held : Push(c, s)
         \/ \E c \in Channel : \E m \in inbox : Track(c, m)
         \/ \E c \in Channel : \E m \in inbox : Reject(c, m)
         \/ \E c \in Channel : \E m \in hand : Send(c, m)
         \/ \E c \in Channel : ConsumerError(c)
         \/ \E c \in Channel : Closes(c)
         \/ \E w \in Worker : Crash(w)
         \/ \E w \in Worker : Dequeue(w)
         \/ \E w \in Worker : \E j \in jobs[w] : NotDue(w, j) \/ Succeed(w, j) \/ Fail(w, j)
         \/ \E w \in Worker : \E j \in jobs[w] : Ack(w, j) \/ Nack(w, j) \/ DeadLetter(w, j)
         \/ \E w \in Worker : \E j \in jobs[w] : Schedule(w, j)
  BY DEF Next, Deliver, Execute, DlqMessages

LEMMA RestStep == TypeInv /\ [Next]_vars => RestOK'
  <1> SUFFICES ASSUME TypeInv, [Next]_vars PROVE RestOK'
    OBVIOUS
  <1>0. RestOK
    BY TypeParts
  <1> USE DEF RestOK, rabbit, brokerVars
  <1>1. CASE \/ UNCHANGED vars
             \/ \E t \in Task : Enqueue(t)
             \/ \E t \in Task : EtaPasses(t)
             \/ \E s \in Held : Release(s) \/ GetDlq(s) \/ PutBackDlq(s)
    BY <1>0, <1>1, AmqpAssumption DEF vars, Enqueue, EtaPasses, Release, GetDlq, PutBackDlq
  <1>2. ASSUME NEW c \in Channel, EnsureConsumer(c[1], c[2])
        PROVE  RestOK'
    <2>1. c = <<c[1], c[2]>>
      BY DEF Channel
    <2> QED
      BY <1>0, <1>2, <2>1 DEF EnsureConsumer
  <1>3. CASE \/ \E c \in Channel : \E s \in Held : Push(c, s)
             \/ \E c \in Channel : \E m \in inbox : Track(c, m) \/ Reject(c, m)
             \/ \E c \in Channel : \E m \in hand : Send(c, m)
    BY <1>0, <1>3 DEF Push, Track, Reject, Send
  <1>4. CASE \/ \E c \in Channel : ConsumerError(c) \/ Closes(c)
             \/ \E w \in Worker : Crash(w) \/ Dequeue(w)
    BY <1>0, <1>4 DEF ConsumerError, Closes, Crash, Dequeue
  <1>5. ASSUME NEW w \in Worker, NEW j \in jobs[w], NotDue(w, j) \/ Succeed(w, j) \/ Fail(w, j)
        PROVE  RestOK'
    <2>1. j.task \in Task /\ MaxFailures \in Nat
      BY JobType, AmqpAssumption
    <2>2. failures' = failures \/ (failures[j.task] < MaxFailures /\ failures' = [failures EXCEPT ![j.task] = @ + 1])
      BY <1>5 DEF NotDue, Succeed, Fail, OneMoreFailure
    <2>3. failures' \in [Task -> 0..MaxFailures]
      BY <1>0, <2>1, <2>2
    <2> QED
      BY <1>0, <1>5, <2>3 DEF NotDue, Succeed, Fail
  <1>6. CASE \E w \in Worker : \E j \in jobs[w] : Ack(w, j) \/ Nack(w, j) \/ DeadLetter(w, j) \/ Schedule(w, j)
    BY <1>0, <1>6 DEF Ack, Nack, DeadLetter, Schedule
  <1> QED
    BY <1>1, <1>2, <1>3, <1>4, <1>5, <1>6, NextParts

\* An execution ends, or is replaced by what it becomes.
LEMMA JobsKept ==
  ASSUME JobsOK, NEW w \in Worker, NEW j \in jobs[w],
         Ends(w, j) \/ \E k \in Job : Becomes(w, j, k)
  PROVE  JobsOK'
  <1>0. Concurrency \in Nat
    BY AmqpAssumption
  <1>1. IsFiniteSet(jobs[w]) /\ Cardinality(jobs[w]) <= Concurrency /\ Cardinality(jobs[w]) \in Nat
    BY FS_CardinalityType DEF JobsOK
  <1>2. IsFiniteSet(jobs[w] \ {j}) /\ Cardinality(jobs[w] \ {j}) = Cardinality(jobs[w]) - 1
    BY <1>1, FS_RemoveElement
  <1>3. CASE Ends(w, j)
    <2>1. jobs' = [jobs EXCEPT ![w] = jobs[w] \ {j}]
      BY <1>3 DEF Ends
    <2>2. Cardinality(jobs[w] \ {j}) <= Concurrency
      BY <1>0, <1>1, <1>2
    <2> QED
      BY <1>2, <2>1, <2>2 DEF JobsOK
  <1>4. ASSUME NEW k \in Job, Becomes(w, j, k)
        PROVE  JobsOK'
    <2>1. jobs' = [jobs EXCEPT ![w] = (jobs[w] \ {j}) \cup {k}]
      BY <1>4 DEF Becomes
    <2> DEFINE rest == jobs[w] \ {j}
    <2>2. IsFiniteSet(rest) /\ Cardinality(rest) = Cardinality(jobs[w]) - 1
      BY <1>2
    <2> HIDE DEF rest
    <2>3. /\ IsFiniteSet(rest \cup {k})
          /\ Cardinality(rest \cup {k}) = Cardinality(rest) \/ Cardinality(rest \cup {k}) = Cardinality(rest) + 1
      BY <2>2, FS_AddElement
    <2>4. Cardinality(rest \cup {k}) <= Concurrency
      BY <1>0, <1>1, <2>2, <2>3
    <2> QED
      BY <2>1, <2>3, <2>4 DEF JobsOK, rest
  <1> QED
    BY <1>3, <1>4

LEMMA EndsMember ==
  ASSUME TypeInv, NEW w \in Worker, NEW j \in jobs[w], Ends(w, j), NEW v \in Worker, NEW i
  PROVE  i \in jobs'[v] <=> i \in jobs[v] /\ ~ (v = w /\ i = j)
  BY DEF TypeInv, TypeOK, Ends

LEMMA BecomesMember ==
  ASSUME TypeInv, NEW w \in Worker, NEW j \in jobs[w], NEW k, Becomes(w, j, k), NEW v \in Worker, NEW i
  PROVE  i \in jobs'[v] <=> \/ i \in jobs[v] /\ ~ (v = w /\ i = j)
                            \/ v = w /\ i = k
  BY DEF TypeInv, TypeOK, Becomes

LEMMA HeldAfter ==
  ASSUME TypeInv, NEW s \in Slot, NEW m \in Message, msgs' = [msgs EXCEPT ![s] = m]
  PROVE  /\ Held' = Held \cup {s}
         /\ \A r \in Slot : r # s => msgs'[r] = msgs[r]
         /\ msgs'[s] = m
         /\ msgs' \in [Slot -> Message \cup {None}]
  BY NoneAssumption DEF TypeInv, TypeOK, Held

LEMMA StepType ==
  ASSUME NEW j \in Job, NEW step \in Steps
  PROVE  /\ [j EXCEPT !.step = step] \in Job
         /\ [j EXCEPT !.step = step].task = j.task
         /\ [j EXCEPT !.step = step].chan = j.chan
         /\ [j EXCEPT !.step = step].tag = j.tag
         /\ [j EXCEPT !.step = step].retries = j.retries
         /\ [j EXCEPT !.step = step].step = step
  BY DEF Job

LEMMA FailedType ==
  ASSUME NEW j \in Job, NEW k, k = Failed(j)
  PROVE  /\ k \in Job /\ k.task = j.task /\ k.chan = j.chan /\ k.tag = j.tag
         /\ k.step \in {"backoff", "bury"}
         /\ k.step = "bury" => k.retries = j.retries /\ ~ (j.retries < MaxRetries[j.task])
  <1>1. CASE MayRetry(j)
    <2>1. k = [task |-> j.task, retries |-> j.retries + 1, step |-> "backoff", chan |-> j.chan, tag |-> j.tag]
      BY <1>1 DEF Failed, Job
    <2> QED
      BY <2>1 DEF Job, Steps
  <1>2. CASE ~ MayRetry(j)
    BY <1>2, StepType DEF Failed, MayRetry, Steps
  <1> QED
    BY <1>1, <1>2

-----------------------------------------------------------------------------
(* Where a message, a delivery and an entry belong *)

Items(w) == Range(mpsc[w])
InFlight == inbox \cup hand \cup UNION {Items(w) : w \in Worker}

CopyOK(s) ==
    /\ msgs[s].task = s[1]
    /\ msgs[s].chan # None <=> msgs[s].place = "unacked"
    /\ msgs[s].chan # None => chan[msgs[s].chan] = "open" /\ msgs[s].chan[2] = QueueOf[s[1]]

\* The channel on which a delivery came takes from the queue of the task.
On(m) == m.chan[2] = QueueOf[m.task] /\ chan[m.chan] # "none"

CopiesInv == \A s \in Held : CopyOK(s)
FlightInv == /\ \A m \in InFlight : On(m)
             /\ \A w \in Worker : \A m \in Items(w) : m.chan[1] = w
JobInv == \A w \in Worker : \A j \in jobs[w] :
            On(j) /\ j.chan[1] = w /\ (j.step \in {"etaAck", "schedule"} => j.task \in Delayed)
EntryInv == \A w \in Worker : \A t \in Task : deliveries[w][t] # None => deliveries[w][t][1] = <<w, QueueOf[t]>>

\* The queue of a channel that was opened stays in `consuming'.
ChanInv == \A c \in Channel : chan[c] # "none" => c[2] \in consuming[c[1]]

PlaceInv == CopiesInv /\ FlightInv /\ JobInv /\ EntryInv /\ ChanInv
BaseInv == TypeInv /\ PlaceInv

LEMMA FlightType ==
  ASSUME TypeInv
  PROVE  InFlight \subseteq Delivery
  <1>1. \A w \in Worker : mpsc[w] \in Seq(Delivery)
    BY DEF TypeInv, TypeOK
  <1>2. \A w \in Worker : Items(w) \subseteq Delivery
    BY <1>1 DEF Items, Range
  <1> QED
    BY <1>2 DEF InFlight, TypeInv, TypeOK

LEMMA FreshType ==
  ASSUME NEW t \in Task, NEW r \in Nat, NEW place \in Places
  PROVE  /\ Fresh(t, r, place) \in Message
         /\ Fresh(t, r, place).task = t /\ Fresh(t, r, place).retries = r
         /\ Fresh(t, r, place).place = place /\ Fresh(t, r, place).chan = None
  BY DEF Fresh, Message

\* A message that is moved has the task and the count it had.
LEMMA MovedType ==
  ASSUME TypeInv, NEW s \in Held, NEW place \in Places
  PROVE  /\ Moved(msgs[s], place) \in Message
         /\ Moved(msgs[s], place).task = msgs[s].task /\ Moved(msgs[s], place).retries = msgs[s].retries
         /\ Moved(msgs[s], place).place = place /\ Moved(msgs[s], place).chan = None
  <1>1. msgs[s].task \in Task /\ msgs[s].retries \in Nat
    BY HeldType DEF Message
  <1> QED
    BY <1>1, FreshType DEF Moved

\* What is not about messages, deliveries, entries and executions.
core == <<msgs, chan, consuming, inbox, hand, deliveries, mpsc, jobs, fate>>

LEMMA StillEffect ==
  ASSUME UNCHANGED vars \/ \E t \in Task : EtaPasses(t)
  PROVE  UNCHANGED core
  BY DEF vars, core, rabbit, brokerVars, EtaPasses

LEMMA PublishEffect ==
  ASSUME TypeInv, NEW t \in Task, NEW r \in Nat, NEW place \in Places, Publish(t, r, place)
  PROVE  \E s \in Slot \ Held, m \in Message :
            /\ s[1] = t /\ msgs' = [msgs EXCEPT ![s] = m]
            /\ m.task = t /\ m.retries = r /\ m.place = place /\ m.chan = None
  <1>1. PICK k \in 1..MaxCopies : <<t, k>> \notin Held /\ msgs' = [msgs EXCEPT ![<<t, k>>] = Fresh(t, r, place)]
    BY DEF Publish
  <1>2. <<t, k>> \in Slot \ Held /\ <<t, k>>[1] = t
    BY <1>1 DEF Slot
  <1> DEFINE m == Fresh(t, r, place)
  <1>3. m \in Message /\ m.task = t /\ m.retries = r /\ m.place = place /\ m.chan = None
    BY FreshType
  <1> HIDE DEF m
  <1> QED
    BY <1>1, <1>2, <1>3 DEF m

LEMMA EnqueueEffect ==
  ASSUME TypeInv, NEW t \in Task, Enqueue(t)
  PROVE  /\ \E s \in Slot \ Held, m \in Message :
               /\ s[1] = t /\ msgs' = [msgs EXCEPT ![s] = m]
               /\ m.task = t /\ m.retries = 0 /\ m.place = "ready" /\ m.chan = None
         /\ fate[t] = "new" /\ fate' = [fate EXCEPT ![t] = "sent"]
         /\ UNCHANGED <<chan, consuming, inbox, hand, deliveries, mpsc, jobs>>
  BY PublishEffect DEF Enqueue, brokerVars, Places

\* The delayed exchange, and who looks at the dead letters: a message moves that
\* waits for no acknowledgement.
LEMMA MoveEffect ==
  ASSUME BaseInv, NEW s \in Held, Release(s) \/ GetDlq(s) \/ PutBackDlq(s)
  PROVE  /\ \E m \in Message :
               /\ msgs' = [msgs EXCEPT ![s] = m]
               /\ m.task = msgs[s].task /\ m.retries = msgs[s].retries /\ m.chan = None /\ m.place # "unacked"
               /\ m.place \in {"dlq", "got"} => msgs[s].place \in {"dlq", "got"}
         /\ msgs[s].chan = None
         /\ UNCHANGED <<chan, consuming, inbox, hand, deliveries, mpsc, jobs, fate>>
  <1>1. TypeInv /\ CopyOK(s) /\ msgs[s] \in Message
    BY HeldType DEF BaseInv, PlaceInv, CopiesInv
  <1>2. msgs[s].place # "unacked" /\ msgs[s].chan = None
    BY <1>1 DEF Release, GetDlq, PutBackDlq, At, CopyOK
  <1>3. CASE Release(s)
    BY <1>1, <1>2, <1>3, MovedType DEF Release, Places, brokerVars
  <1>4. CASE PutBackDlq(s)
    BY <1>1, <1>2, <1>4, MovedType DEF PutBackDlq, Places, brokerVars, At
  <1>5. CASE GetDlq(s)
    <2>1. /\ Looked(s) \in Message /\ Looked(s).task = msgs[s].task /\ Looked(s).retries = msgs[s].retries
          /\ Looked(s).chan = None /\ Looked(s).place = "got"
      BY <1>1, <1>2 DEF Looked, Message, Places
    <2> QED
      BY <1>2, <1>5, <2>1 DEF GetDlq, brokerVars, At
  <1> QED
    BY <1>3, <1>4, <1>5

LEMMA EnsureEffect ==
  ASSUME TypeInv, NEW c \in Channel, EnsureConsumer(c[1], c[2])
  PROVE  /\ chan' = [chan EXCEPT ![c] = "open"] /\ c[2] \notin consuming[c[1]]
         /\ consuming' = [consuming EXCEPT ![c[1]] = @ \cup {c[2]}] /\ c[1] \in Worker /\ c[2] \in Queue
         /\ UNCHANGED <<msgs, inbox, hand, deliveries, mpsc, jobs, fate>>
  <1>1. c = <<c[1], c[2]>> /\ c[1] \in Worker /\ c[2] \in Queue
    BY DEF Channel
  <1> QED
    BY <1>1 DEF EnsureConsumer

LEMMA PushedType ==
  ASSUME NEW m \in Message, NEW c \in Channel, NEW n \in Nat
  PROVE  /\ Delivered(m, c, n) \in Message
         /\ Delivered(m, c, n).task = m.task /\ Delivered(m, c, n).retries = m.retries
         /\ Delivered(m, c, n).place = "unacked" /\ Delivered(m, c, n).chan = c /\ Delivered(m, c, n).tag = n
  BY DEF Message, Places, Delivered

LEMMA PushEffect ==
  ASSUME BaseInv, NEW c \in Channel, NEW s \in Held, Push(c, s)
  PROVE  \E m \in Message, d \in Delivery :
            /\ msgs' = [msgs EXCEPT ![s] = m]
            /\ m.task = s[1] /\ m.retries = msgs[s].retries /\ m.place = "unacked" /\ m.chan = c /\ m.tag = NewTag(c)
            /\ inbox' = inbox \cup {d}
            /\ d.task = s[1] /\ d.retries = msgs[s].retries /\ d.chan = c /\ d.tag = NewTag(c)
            /\ msgs[s].place = "ready" /\ msgs[s].chan = None /\ QueueOf[s[1]] = c[2] /\ chan[c] = "open"
            /\ Cardinality(Unacked(c)) < Prefetch
            /\ UNCHANGED <<chan, consuming, hand, deliveries, mpsc, jobs, fate>>
  <1> DEFINE m == Delivered(msgs[s], c, NewTag(c))
             d == [task |-> msgs[s].task, retries |-> msgs[s].retries, chan |-> c, tag |-> NewTag(c)]
  <1>1. TypeInv /\ CopyOK(s) /\ msgs[s] \in Message
    BY HeldType DEF BaseInv, PlaceInv, CopiesInv
  <1>2. NewTag(c) \in Nat /\ msgs[s].task = s[1]
    BY <1>1, NewTagIsFree DEF CopyOK
  <1>4. /\ m \in Message
        /\ m.task = s[1] /\ m.retries = msgs[s].retries /\ m.place = "unacked" /\ m.chan = c /\ m.tag = NewTag(c)
    BY <1>1, <1>2, PushedType
  <1>5. d \in Delivery /\ d.task = s[1] /\ d.retries = msgs[s].retries /\ d.chan = c /\ d.tag = NewTag(c)
    BY <1>1, <1>2 DEF Message, Delivery
  <1>6. msgs' = [msgs EXCEPT ![s] = m] /\ inbox' = inbox \cup {d}
    BY DEF Push
  <1>7. /\ msgs[s].place = "ready" /\ msgs[s].chan = None /\ QueueOf[s[1]] = c[2] /\ chan[c] = "open"
        /\ Cardinality(Unacked(c)) < Prefetch
    BY <1>1, <1>2 DEF Push, At, CopyOK
  <1>8. UNCHANGED <<chan, consuming, hand, deliveries, mpsc, jobs, fate>>
    BY DEF Push
  <1> HIDE DEF m, d
  <1> QED
    BY <1>4, <1>5, <1>6, <1>7, <1>8

-----------------------------------------------------------------------------
(* Tags *)

\* A tag names one copy on its channel; the entry of a task and a delivery
\* that is not read yet name no copy of another task.
OneTag == \A s, r \in Held : msgs[s].chan # None /\ Same(msgs[s], msgs[r]) => s = r
EntryTag == \A w \in Worker : \A t \in Task : deliveries[w][t] # None =>
                \A s \in Tagged(deliveries[w][t][1], deliveries[w][t][2]) : s[1] = t
InboxTag == \A m \in inbox : \A s \in Tagged(m.chan, m.tag) : s[1] = m.task

TagInv == OneTag /\ EntryTag /\ InboxTag

LEMMA NotHeldAfter ==
  ASSUME TypeInv, NEW s \in Slot, msgs' = [msgs EXCEPT ![s] = None]
  PROVE  /\ Held' = Held \ {s}
         /\ \A r \in Slot : r # s => msgs'[r] = msgs[r]
         /\ msgs' \in [Slot -> Message \cup {None}]
  BY DEF TypeInv, TypeOK, Held

LEMMA EntryType ==
  ASSUME TypeInv, NEW w \in Worker, NEW t \in Task
  PROVE  deliveries[w][t] = None \/ deliveries[w][t] \in Channel \X Nat
  BY DEF TypeInv, TypeOK

Settled(c, n, f) == [s \in Slot |-> IF s \in Tagged(c, n) THEN f[s] ELSE msgs[s]]

\* Resolving a tag changes one slot at most.
LEMMA TaggedOne ==
  ASSUME BaseInv, OneTag, NEW c \in Channel, NEW n, NEW f,
         msgs' = Settled(c, n, f)
  PROVE  \/ UNCHANGED msgs /\ Tagged(c, n) = {}
         \/ \E s \in Held : msgs[s].chan = c /\ msgs[s].tag = n /\ msgs' = [msgs EXCEPT ![s] = f[s]]
  <1>1. msgs \in [Slot -> Message \cup {None}] /\ c # None
    BY NoneAssumption DEF BaseInv, TypeInv, TypeOK
  <1>2. CASE Tagged(c, n) = {}
    BY <1>1, <1>2 DEF Settled
  <1>3. ASSUME NEW s \in Tagged(c, n)
        PROVE  \E r \in Held : msgs[r].chan = c /\ msgs[r].tag = n /\ msgs' = [msgs EXCEPT ![r] = f[r]]
    <2>1. s \in Held /\ s \in Slot /\ msgs[s].chan = c /\ msgs[s].tag = n
      BY DEF Tagged, Unacked, Held
    <2>2. \A r \in Tagged(c, n) : r = s
      BY <1>1, <2>1 DEF OneTag, Same, Tagged, Unacked
    <2>3. msgs' = [msgs EXCEPT ![s] = f[s]]
      BY <1>1, <2>1, <2>2 DEF Settled
    <2> QED
      BY <2>1, <2>3
  <1> QED
    BY <1>2, <1>3

LEMMA TrackEffect ==
  ASSUME TypeInv, NEW c \in Channel, NEW m \in inbox, Track(c, m)
  PROVE  /\ inbox' = inbox \ {m} /\ hand' = hand \cup {m} /\ m.chan = c
         /\ deliveries' = [deliveries EXCEPT ![c[1]][m.task] = <<c, m.tag>>]
         /\ UNCHANGED <<msgs, chan, consuming, mpsc, jobs, fate>>
  BY DEF Track, Reads, Tracked, rabbit

LEMMA RejectEffect ==
  ASSUME BaseInv, TagInv, NEW c \in Channel, NEW m \in inbox, Reject(c, m)
  PROVE  /\ inbox' = inbox \ {m} /\ m.chan = c /\ m.task \in Garbage
         /\ UNCHANGED <<chan, consuming, hand, deliveries, mpsc, jobs, fate>>
         /\ \/ UNCHANGED msgs /\ Tagged(c, m.tag) = {}
            \/ \E s \in Held, b \in Message :
                  /\ msgs[s].chan = c /\ msgs[s].tag = m.tag /\ s[1] = m.task
                  /\ msgs' = [msgs EXCEPT ![s] = b]
                  /\ b.task = s[1] /\ b.retries = msgs[s].retries /\ b.chan = None /\ b.place = "dlq"
  <1> DEFINE f == [s \in Held |-> Moved(msgs[s], "dlq")]
  <1>1. /\ inbox' = inbox \ {m} /\ m.chan = c /\ m.task \in Garbage
        /\ UNCHANGED <<chan, consuming, hand, deliveries, mpsc, jobs, fate>>
    BY DEF Reject, Reads
  <1>2. msgs' = Settled(c, m.tag, f)
    <2>1. \A s \in Tagged(c, m.tag) : f[s] = Moved(msgs[s], "dlq")
      BY DEF Tagged, Unacked
    <2>2. msgs' = [s \in Slot |-> IF s \in Tagged(c, m.tag) THEN Moved(msgs[s], "dlq") ELSE msgs[s]]
      BY DEF Reject
    <2> HIDE DEF f
    <2> QED
      BY <2>1, <2>2 DEF Settled
  <1>3. ASSUME NEW s \in Held, msgs[s].chan = c, msgs[s].tag = m.tag
        PROVE  /\ s[1] = m.task /\ f[s] \in Message
               /\ f[s].task = s[1] /\ f[s].retries = msgs[s].retries /\ f[s].chan = None /\ f[s].place = "dlq"
    <2>1. s[1] = m.task
      BY <1>1, <1>3 DEF TagInv, InboxTag, Tagged, Unacked
    <2>2. f[s] = Moved(msgs[s], "dlq") /\ msgs[s].task = s[1]
      BY DEF BaseInv, PlaceInv, CopiesInv, CopyOK
    <2> HIDE DEF f
    <2> QED
      BY <2>1, <2>2, MovedType DEF BaseInv, Places
  <1> HIDE DEF f
  <1>4. \/ UNCHANGED msgs /\ Tagged(c, m.tag) = {}
        \/ \E s \in Held : msgs[s].chan = c /\ msgs[s].tag = m.tag /\ msgs' = [msgs EXCEPT ![s] = f[s]]
    <2>1. OneTag
      BY DEF TagInv
    <2> QED
      BY <1>2, <2>1, TaggedOne
  <1> QED
    BY <1>1, <1>3, <1>4

LEMMA SendEffect ==
  ASSUME TypeInv, NEW c \in Channel, NEW m \in hand, Send(c, m)
  PROVE  /\ hand' = hand \ {m} /\ m.chan = c
         /\ mpsc' = [mpsc EXCEPT ![c[1]] = Append(@, m)]
         /\ UNCHANGED <<msgs, chan, consuming, inbox, deliveries, jobs, fate>>
  BY DEF Send, rabbit

LEMMA ErrorEffect ==
  ASSUME TypeInv, NEW c \in Channel, ConsumerError(c)
  PROVE  /\ inbox' \subseteq inbox
         /\ UNCHANGED <<msgs, chan, consuming, hand, deliveries, mpsc, jobs, fate>>
  BY DEF ConsumerError, rabbit

\* The copies of the channels in C are ready again.
LEMMA RequeuedEffect ==
  ASSUME BaseInv, NEW C, msgs' = Requeued(C)
  PROVE  /\ msgs' \in [Slot -> Message \cup {None}] /\ Held' = Held
         /\ \A s \in Held : IF msgs[s].chan \in C
                            THEN /\ msgs'[s].task = msgs[s].task /\ msgs'[s].retries = msgs[s].retries
                                 /\ msgs'[s].chan = None /\ msgs'[s].place = "ready"
                            ELSE msgs'[s] = msgs[s]
  <1>1. msgs \in [Slot -> Message \cup {None}]
    BY DEF BaseInv, TypeInv, TypeOK
  <1>2. \A s \in Held : s \in Slot /\ LET b == Moved(msgs[s], "ready")
                        IN  b \in Message /\ b # None /\ b.task = msgs[s].task /\ b.retries = msgs[s].retries
                            /\ b.chan = None /\ b.place = "ready"
    BY MovedType, HeldType, NoneAssumption DEF BaseInv, Places
  <1>3. \A s \in Slot : msgs'[s] = IF s \in Held /\ msgs[s].chan \in C THEN Moved(msgs[s], "ready") ELSE msgs[s]
    BY DEF Requeued
  <1>4. msgs' \in [Slot -> Message \cup {None}]
    <2>1. msgs' = [s \in Slot |-> IF s \in Held /\ msgs[s].chan \in C THEN Moved(msgs[s], "ready") ELSE msgs[s]]
      BY DEF Requeued
    <2> QED
      BY <1>1, <1>2, <2>1
  <1>5. Held' = Held
    BY <1>2, <1>3 DEF Held
  <1> QED
    BY <1>2, <1>3, <1>4, <1>5

LEMMA ClosesEffect ==
  ASSUME TypeInv, NEW c \in Channel, Closes(c)
  PROVE  /\ msgs' = Requeued({c}) /\ chan[c] = "open" /\ chan' = [chan EXCEPT ![c] = "closed"]
         /\ UNCHANGED <<consuming, inbox, hand, deliveries, mpsc, jobs, fate>>
  BY DEF Closes, brokerVars

LEMMA CrashEffect ==
  ASSUME TypeInv, NEW w \in Worker, Crash(w)
  PROVE  /\ msgs' = Requeued({w} \X Queue)
         /\ chan' = [c \in Channel |-> IF c[1] = w THEN "closed" ELSE chan[c]]
         /\ consuming' = [consuming EXCEPT ![w] = Queues[w]]
         /\ inbox' = {m \in inbox : m.chan[1] # w} /\ hand' = {m \in hand : m.chan[1] # w}
         /\ deliveries' = [deliveries EXCEPT ![w] = [t \in Task |-> None]]
         /\ mpsc' = [mpsc EXCEPT ![w] = <<>>]
         /\ jobs' = [jobs EXCEPT ![w] = {}]
         /\ fate' = [t \in Task |-> IF \E j \in jobs[w] : j.task = t /\ j.step = "schedule" THEN "dropped" ELSE fate[t]]
         /\ \E c \in Channel : c[1] = w /\ chan'[c] = "closed"
  <1>1. PICK q \in Queues[w] : chan[<<w, q>>] = "open"
    BY DEF Crash
  <1>2. <<w, q>> \in Channel
    BY AmqpAssumption DEF Channel
  <1> QED
    BY <1>2 DEF Crash

FirstRun(m) == [task |-> m.task, retries |-> m.retries, step |-> "run", chan |-> m.chan, tag |-> m.tag]

LEMMA DequeueEffect ==
  ASSUME TypeInv, NEW w \in Worker, Dequeue(w)
  PROVE  /\ mpsc[w] \in Seq(Delivery) /\ mpsc[w] # <<>> /\ Head(mpsc[w]) \in Delivery
         /\ mpsc' = [mpsc EXCEPT ![w] = Tail(mpsc[w])]
         /\ FirstRun(Head(mpsc[w])) \in Job
         /\ jobs' = [jobs EXCEPT ![w] = @ \cup {FirstRun(Head(mpsc[w]))}]
         /\ Cardinality(jobs[w]) < Concurrency
         /\ UNCHANGED <<msgs, chan, consuming, inbox, hand, deliveries, fate>>
  <1>1. mpsc[w] \in Seq(Delivery) /\ mpsc[w] # <<>>
    BY DEF Dequeue, TypeInv, TypeOK
  <1>2. Head(mpsc[w]) \in Delivery
    BY <1>1
  <1>3. FirstRun(Head(mpsc[w])) \in Job
    BY <1>2 DEF FirstRun, Delivery, Job, Steps
  <1> QED
    BY <1>1, <1>2, <1>3 DEF Dequeue, HasPermit, FirstRun, rabbit

\* The eta guard, a success or a failure: the execution goes on.
LEMMA RunEffect ==
  ASSUME TypeInv, NEW w \in Worker, NEW j \in jobs[w], NotDue(w, j) \/ Succeed(w, j) \/ Fail(w, j)
  PROVE  /\ \E k \in Job :
               /\ Becomes(w, j, k) /\ k.task = j.task /\ k.chan = j.chan /\ k.tag = j.tag
               /\ k.step \in {"etaAck", "ack", "backoff", "bury"}
               /\ k.step = "etaAck" => j.task \in Delayed
               /\ k.step # "backoff" => k.retries = j.retries
               /\ k.step = "bury" => ~ (j.retries < MaxRetries[j.task]) /\ Fail(w, j)
               /\ IF k.step = "ack" THEN fate' = [fate EXCEPT ![j.task] = "done"] ELSE UNCHANGED fate
         /\ j.step = "run"
         /\ UNCHANGED <<msgs, chan, consuming, inbox, hand, deliveries, mpsc>>
  <1>1. j \in Job /\ "etaAck" \in Steps /\ "ack" \in Steps
    BY JobType DEF Steps
  <1>2. j.step = "run" /\ UNCHANGED <<msgs, chan, consuming, inbox, hand, deliveries, mpsc>>
    BY DEF NotDue, Succeed, Fail, rabbit, brokerVars
  <1>3. CASE NotDue(w, j)
    <2> DEFINE k == [j EXCEPT !.step = "etaAck"]
    <2>1. Becomes(w, j, k) /\ j.task \in Delayed /\ UNCHANGED fate
      BY <1>3 DEF NotDue
    <2>2. k \in Job /\ k.task = j.task /\ k.chan = j.chan /\ k.tag = j.tag /\ k.retries = j.retries /\ k.step = "etaAck"
      BY <1>1, StepType
    <2> HIDE DEF k
    <2> QED
      BY <1>2, <2>1, <2>2
  <1>4. CASE Succeed(w, j)
    <2> DEFINE k == [j EXCEPT !.step = "ack"]
    <2>1. Becomes(w, j, k) /\ fate' = [fate EXCEPT ![j.task] = "done"]
      BY <1>4 DEF Succeed
    <2>2. k \in Job /\ k.task = j.task /\ k.chan = j.chan /\ k.tag = j.tag /\ k.retries = j.retries /\ k.step = "ack"
      BY <1>1, StepType
    <2> HIDE DEF k
    <2> QED
      BY <1>2, <2>1, <2>2
  <1>5. CASE Fail(w, j)
    <2>1. Becomes(w, j, Failed(j)) /\ UNCHANGED fate
      BY <1>5 DEF Fail
    <2> QED
      BY <1>1, <1>2, <1>5, <2>1, FailedType
  <1> QED
    BY <1>3, <1>4, <1>5

LEMMA ScheduleEffect ==
  ASSUME TypeInv, NEW w \in Worker, NEW j \in jobs[w], Schedule(w, j)
  PROVE  /\ j.step = "schedule" /\ Ends(w, j)
         /\ UNCHANGED <<chan, consuming, inbox, hand, deliveries, mpsc>>
         /\ \/ /\ \E s \in Slot \ Held, m \in Message :
                     /\ s[1] = j.task /\ msgs' = [msgs EXCEPT ![s] = m]
                     /\ m.task = j.task /\ m.retries = j.retries /\ m.place = "delayed" /\ m.chan = None
               /\ UNCHANGED fate
            \/ UNCHANGED msgs /\ fate' = [fate EXCEPT ![j.task] = "dropped"]
  <1>1. j.task \in Task /\ j.retries \in Nat /\ "delayed" \in Places
    BY JobType DEF Places
  <1>2. j.step = "schedule" /\ Ends(w, j) /\ UNCHANGED <<chan, consuming, inbox, hand, deliveries, mpsc>>
    BY DEF Schedule
  <1>3. CASE Publish(j.task, j.retries, "delayed") /\ UNCHANGED fate
    BY <1>1, <1>2, <1>3, PublishEffect
  <1>4. CASE UNCHANGED msgs /\ fate' = [fate EXCEPT ![j.task] = "dropped"]
    BY <1>2, <1>4
  <1> QED
    BY <1>3, <1>4 DEF Schedule

\* The entry of task t at worker w names the copy in slot s.
Names(w, t, s) == msgs[s].chan # None /\ deliveries[w][t] = <<msgs[s].chan, msgs[s].tag>>

\* What ack, nack and dead_letter resolve is a copy of their task.
LEMMA ResolveEffect ==
  ASSUME BaseInv, TagInv, NEW w \in Worker, NEW t \in Task, NEW f, Resolve(w, t, f)
  PROVE  /\ deliveries' = [deliveries EXCEPT ![w][t] = None]
         /\ \/ UNCHANGED msgs /\ \A s \in Held : ~ Names(w, t, s)
            \/ \E s \in Held : Names(w, t, s) /\ s[1] = t /\ msgs' = [msgs EXCEPT ![s] = f[s]]
  <1> DEFINE d == deliveries[w][t]
  <1>0. TypeInv /\ msgs \in [Slot -> Message \cup {None}]
    BY DEF BaseInv, TypeInv, TypeOK
  <1>1. deliveries' = [deliveries EXCEPT ![w][t] = None]
    BY DEF Resolve
  <1>2. CASE d = None
    <2>1. UNCHANGED msgs
      BY <1>0, <1>2 DEF Resolve
    <2>2. \A s \in Held : msgs[s].chan # None => <<msgs[s].chan, msgs[s].tag>> # None
      BY <1>0, HeldType, NoneAssumption DEF Message
    <2> QED
      BY <1>1, <1>2, <2>1, <2>2 DEF Names
  <1>3. CASE d # None
    <2>1. d \in Channel \X Nat
      BY <1>0, <1>3, EntryType
    <2> DEFINE c == d[1]  n == d[2]
    <2>2. c \in Channel /\ d = <<c, n>> /\ c # None
      BY <2>1, NoneAssumption
    <2>3. msgs' = Settled(c, n, f)
      BY <1>3 DEF Resolve, Settled
    <2>4. \A s \in Tagged(c, n) : s[1] = t
      BY <1>3 DEF TagInv, EntryTag
    <2> HIDE DEF c, n
    <2>5. \/ UNCHANGED msgs /\ Tagged(c, n) = {}
          \/ \E s \in Held : msgs[s].chan = c /\ msgs[s].tag = n /\ msgs' = [msgs EXCEPT ![s] = f[s]]
      BY <2>2, <2>3, TaggedOne DEF TagInv
    <2>6. CASE UNCHANGED msgs /\ Tagged(c, n) = {}
      <3>1. \A s \in Held : ~ Names(w, t, s)
        BY <2>2, <2>6 DEF Names, Tagged, Unacked
      <3> QED
        BY <1>1, <2>6, <3>1
    <2>7. ASSUME NEW s \in Held, msgs[s].chan = c, msgs[s].tag = n, msgs' = [msgs EXCEPT ![s] = f[s]]
          PROVE  Names(w, t, s) /\ s[1] = t
      BY <2>2, <2>4, <2>7 DEF Names, Tagged, Unacked
    <2> QED
      BY <1>1, <2>5, <2>6, <2>7
  <1> QED
    BY <1>2, <1>3

LEMMA SettleEffect ==
  ASSUME BaseInv, TagInv, NEW w \in Worker, NEW j \in jobs[w], Ack(w, j) \/ Nack(w, j) \/ DeadLetter(w, j)
  PROVE  /\ deliveries' = [deliveries EXCEPT ![w][j.task] = None]
         /\ UNCHANGED <<chan, consuming, inbox, hand, mpsc, fate>>
         /\ j.step \in {"ack", "etaAck", "backoff", "bury"}
         /\ \/ Ends(w, j) /\ j.step # "etaAck"
            \/ /\ j.step = "etaAck"
               /\ \E k \in Job : /\ Becomes(w, j, k) /\ k.task = j.task /\ k.chan = j.chan /\ k.tag = j.tag
                                 /\ k.retries = j.retries /\ k.step = "schedule"
         /\ \/ UNCHANGED msgs /\ \A s \in Held : ~ Names(w, j.task, s)
            \/ \E s \in Held :
                  /\ Names(w, j.task, s) /\ s[1] = j.task
                  /\ \/ j.step \in {"ack", "etaAck"} /\ msgs' = [msgs EXCEPT ![s] = None]
                     \/ /\ j.step \in {"backoff", "bury"}
                        /\ \E b \in Message :
                              /\ msgs' = [msgs EXCEPT ![s] = b]
                              /\ b.task = s[1] /\ b.retries = msgs[s].retries /\ b.chan = None
                              /\ b.place = IF j.step = "bury" THEN "dlq" ELSE "ready"
  <1>0. TypeInv /\ j \in Job /\ j.task \in Task /\ "schedule" \in Steps
    BY JobType DEF BaseInv, Steps
  <1>1. \A s \in Held : msgs[s].task = s[1]
    BY DEF BaseInv, PlaceInv, CopiesInv, CopyOK
  <1>2. CASE Ack(w, j)
    <2> DEFINE f == [s \in Held |-> None]
               k == [j EXCEPT !.step = "schedule"]
    <2>1. Resolve(w, j.task, f) /\ j.step \in {"ack", "etaAck"} /\ UNCHANGED <<chan, consuming, inbox, hand, mpsc, fate>>
      BY <1>2 DEF Ack
    <2>2. \A s \in Held : f[s] = None
      OBVIOUS
    <2>3. (Ends(w, j) /\ j.step # "etaAck") \/ (Becomes(w, j, k) /\ j.step = "etaAck")
      BY <1>2 DEF Ack
    <2>4. /\ k \in Job /\ k.task = j.task /\ k.chan = j.chan /\ k.tag = j.tag
          /\ k.retries = j.retries /\ k.step = "schedule"
      BY <1>0, StepType
    <2> HIDE DEF f, k
    <2>5. /\ deliveries' = [deliveries EXCEPT ![w][j.task] = None]
          /\ \/ UNCHANGED msgs /\ \A s \in Held : ~ Names(w, j.task, s)
             \/ \E s \in Held : Names(w, j.task, s) /\ s[1] = j.task /\ msgs' = [msgs EXCEPT ![s] = f[s]]
      BY <1>0, <2>1, ResolveEffect
    <2> QED
      BY <2>1, <2>2, <2>3, <2>4, <2>5
  <1>3. CASE Nack(w, j)
    <2> DEFINE f == [s \in Held |-> Moved(msgs[s], "ready")]
    <2>1. Resolve(w, j.task, f) /\ j.step = "backoff" /\ UNCHANGED <<chan, consuming, inbox, hand, mpsc, fate>> /\ Ends(w, j)
      BY <1>3 DEF Nack
    <2>2. \A s \in Held : /\ f[s] \in Message /\ f[s].task = s[1] /\ f[s].retries = msgs[s].retries
                          /\ f[s].chan = None /\ f[s].place = "ready"
      <3>1. \A s \in Held : f[s] = Moved(msgs[s], "ready")
        OBVIOUS
      <3> HIDE DEF f
      <3> QED
        BY <1>0, <1>1, <3>1, MovedType DEF Places
    <2> HIDE DEF f
    <2>5. /\ deliveries' = [deliveries EXCEPT ![w][j.task] = None]
          /\ \/ UNCHANGED msgs /\ \A s \in Held : ~ Names(w, j.task, s)
             \/ \E s \in Held : Names(w, j.task, s) /\ s[1] = j.task /\ msgs' = [msgs EXCEPT ![s] = f[s]]
      BY <1>0, <2>1, ResolveEffect
    <2> QED
      BY <2>1, <2>2, <2>5
  <1>4. CASE DeadLetter(w, j)
    <2> DEFINE f == [s \in Held |-> Moved(msgs[s], "dlq")]
    <2>1. Resolve(w, j.task, f) /\ j.step = "bury" /\ UNCHANGED <<chan, consuming, inbox, hand, mpsc, fate>> /\ Ends(w, j)
      BY <1>4 DEF DeadLetter
    <2>2. \A s \in Held : /\ f[s] \in Message /\ f[s].task = s[1] /\ f[s].retries = msgs[s].retries
                          /\ f[s].chan = None /\ f[s].place = "dlq"
      <3>1. \A s \in Held : f[s] = Moved(msgs[s], "dlq")
        OBVIOUS
      <3> HIDE DEF f
      <3> QED
        BY <1>0, <1>1, <3>1, MovedType DEF Places
    <2> HIDE DEF f
    <2>5. /\ deliveries' = [deliveries EXCEPT ![w][j.task] = None]
          /\ \/ UNCHANGED msgs /\ \A s \in Held : ~ Names(w, j.task, s)
             \/ \E s \in Held : Names(w, j.task, s) /\ s[1] = j.task /\ msgs' = [msgs EXCEPT ![s] = f[s]]
      BY <1>0, <2>1, ResolveEffect
    <2> QED
      BY <2>1, <2>2, <2>5
  <1> QED
    BY <1>2, <1>3, <1>4

-----------------------------------------------------------------------------
(* Which steps change what *)

DoEnqueue == \E t \in Task : Enqueue(t)
DoMove == \E s \in Held : Release(s) \/ GetDlq(s) \/ PutBackDlq(s)
DoEnsure == \E c \in Channel : EnsureConsumer(c[1], c[2])
DoPush == \E c \in Channel : \E s \in Held : Push(c, s)
DoTrack == \E c \in Channel : \E m \in inbox : Track(c, m)
DoReject == \E c \in Channel : \E m \in inbox : Reject(c, m)
DoSend == \E c \in Channel : \E m \in hand : Send(c, m)
DoError == \E c \in Channel : ConsumerError(c)
DoClose == \E c \in Channel : Closes(c)
DoCrash == \E w \in Worker : Crash(w)
DoDequeue == \E w \in Worker : Dequeue(w)
DoRun == \E w \in Worker : \E j \in jobs[w] : NotDue(w, j) \/ Succeed(w, j) \/ Fail(w, j)
DoSettle == \E w \in Worker : \E j \in jobs[w] : Ack(w, j) \/ Nack(w, j) \/ DeadLetter(w, j)
DoSchedule == \E w \in Worker : \E j \in jobs[w] : Schedule(w, j)

LEMMA StepKinds ==
  ASSUME [Next]_vars
  PROVE  \/ UNCHANGED core
         \/ DoEnqueue \/ DoMove \/ DoEnsure \/ DoPush \/ DoTrack \/ DoReject \/ DoSend \/ DoError
         \/ DoClose \/ DoCrash \/ DoDequeue \/ DoRun \/ DoSettle \/ DoSchedule
  BY NextParts, StillEffect
     DEF DoEnqueue, DoMove, DoEnsure, DoPush, DoTrack, DoReject, DoSend, DoError, DoClose, DoCrash,
         DoDequeue, DoRun, DoSettle, DoSchedule

LEMMA Frames ==
  ASSUME [Next]_vars
  PROVE  /\ UNCHANGED jobs \/ DoDequeue \/ DoRun \/ DoSettle \/ DoSchedule \/ DoCrash
         /\ \/ UNCHANGED msgs
            \/ DoEnqueue \/ DoMove \/ DoPush \/ DoReject \/ DoClose \/ DoCrash \/ DoSettle \/ DoSchedule
         /\ \/ UNCHANGED <<inbox, hand, mpsc>>
            \/ DoPush \/ DoTrack \/ DoReject \/ DoSend \/ DoError \/ DoCrash \/ DoDequeue
         /\ UNCHANGED deliveries \/ DoTrack \/ DoCrash \/ DoSettle
         /\ UNCHANGED <<chan, consuming>> \/ DoEnsure \/ DoClose \/ DoCrash
         /\ UNCHANGED fate \/ DoEnqueue \/ DoRun \/ DoSchedule \/ DoCrash
  <1>1. CASE UNCHANGED core
    BY <1>1 DEF core
  <1>2. CASE DoEnqueue
    <2>1. UNCHANGED <<jobs, inbox, hand, mpsc, deliveries, chan, consuming>>
      BY <1>2 DEF DoEnqueue, Enqueue, brokerVars
    <2> QED
      BY <1>2, <2>1
  <1>3. CASE DoMove
    <2>1. UNCHANGED <<jobs, inbox, hand, mpsc, deliveries, chan, consuming, fate>>
      BY <1>3 DEF DoMove, Release, GetDlq, PutBackDlq, brokerVars
    <2> QED
      BY <1>3, <2>1
  <1>4. CASE DoEnsure
    <2>1. UNCHANGED <<jobs, msgs, inbox, hand, mpsc, deliveries, fate>>
      BY <1>4 DEF DoEnsure, EnsureConsumer
    <2> QED
      BY <1>4, <2>1
  <1>5. CASE DoPush \/ DoReject
    <2>1. UNCHANGED <<jobs, deliveries, chan, consuming, fate>>
      BY <1>5 DEF DoPush, DoReject, Push, Reject
    <2> QED
      BY <1>5, <2>1
  <1>6. CASE DoTrack
    <2>1. UNCHANGED <<jobs, msgs, chan, consuming, fate>>
      BY <1>6 DEF DoTrack, Track, rabbit
    <2> QED
      BY <1>6, <2>1
  <1>7. CASE DoSend \/ DoError
    <2>1. UNCHANGED <<jobs, msgs, deliveries, chan, consuming, fate>>
      BY <1>7 DEF DoSend, DoError, Send, ConsumerError, rabbit
    <2> QED
      BY <1>7, <2>1
  <1>8. CASE DoClose
    <2>1. UNCHANGED <<jobs, inbox, hand, mpsc, deliveries, fate>>
      BY <1>8 DEF DoClose, Closes, brokerVars
    <2> QED
      BY <1>8, <2>1
  <1>9. CASE DoDequeue
    <2>1. UNCHANGED <<msgs, deliveries, chan, consuming, fate>>
      BY <1>9 DEF DoDequeue, Dequeue, rabbit
    <2> QED
      BY <1>9, <2>1
  <1>10. CASE DoRun
    <2>1. UNCHANGED <<msgs, inbox, hand, mpsc, deliveries, chan, consuming>>
      BY <1>10 DEF DoRun, NotDue, Succeed, Fail, rabbit, brokerVars
    <2> QED
      BY <1>10, <2>1
  <1>11. CASE DoSettle
    <2>1. UNCHANGED <<inbox, hand, mpsc, chan, consuming, fate>>
      BY <1>11 DEF DoSettle, Ack, Nack, DeadLetter
    <2> QED
      BY <1>11, <2>1
  <1>12. CASE DoSchedule
    <2>1. UNCHANGED <<inbox, hand, mpsc, deliveries, chan, consuming>>
      BY <1>12 DEF DoSchedule, Schedule
    <2> QED
      BY <1>12, <2>1
  <1> QED
    BY <1>1, <1>2, <1>3, <1>4, <1>5, <1>6, <1>7, <1>8, <1>9, <1>10, <1>11, <1>12, StepKinds

-----------------------------------------------------------------------------
(* Types *)

LEMMA JobsStep ==
  ASSUME BaseInv, TagInv, [Next]_vars
  PROVE  JobsOK'
  <1>0. TypeInv /\ JobsOK /\ Concurrency \in Nat
    BY TypeParts, AmqpAssumption DEF BaseInv
  <1>1. CASE UNCHANGED jobs
    BY <1>0, <1>1 DEF JobsOK
  <1>2. ASSUME NEW w \in Worker, Dequeue(w)
        PROVE  JobsOK'
    <2> DEFINE k == FirstRun(Head(mpsc[w]))
    <2>1. k \in Job /\ jobs' = [jobs EXCEPT ![w] = @ \cup {k}] /\ Cardinality(jobs[w]) < Concurrency
      BY <1>0, <1>2, DequeueEffect
    <2> HIDE DEF k
    <2>2. IsFiniteSet(jobs[w]) /\ Cardinality(jobs[w]) \in Nat
      BY <1>0, FS_CardinalityType DEF JobsOK
    <2>3. /\ IsFiniteSet(jobs[w] \cup {k})
          /\ \/ Cardinality(jobs[w] \cup {k}) = Cardinality(jobs[w])
             \/ Cardinality(jobs[w] \cup {k}) = Cardinality(jobs[w]) + 1
      BY <2>2, FS_AddElement
    <2>4. Cardinality(jobs[w] \cup {k}) <= Concurrency
      BY <1>0, <2>1, <2>2, <2>3
    <2> QED
      BY <1>0, <2>1, <2>3, <2>4 DEF JobsOK
  <1>3. ASSUME NEW w \in Worker, NEW j \in jobs[w],
               NotDue(w, j) \/ Succeed(w, j) \/ Fail(w, j)
        PROVE  JobsOK'
    BY <1>0, <1>3, RunEffect, JobsKept
  <1>4. ASSUME NEW w \in Worker, NEW j \in jobs[w], Ack(w, j) \/ Nack(w, j) \/ DeadLetter(w, j)
        PROVE  JobsOK'
    <2>1. Ends(w, j) \/ \E k \in Job : Becomes(w, j, k)
      BY <1>4, SettleEffect
    <2> QED
      BY <1>0, <2>1, JobsKept
  <1>5. ASSUME NEW w \in Worker, NEW j \in jobs[w], Schedule(w, j)
        PROVE  JobsOK'
    BY <1>0, <1>5, ScheduleEffect, JobsKept
  <1>6. ASSUME NEW w \in Worker, Crash(w)
        PROVE  JobsOK'
    <2>1. jobs' = [jobs EXCEPT ![w] = {}]
      BY <1>0, <1>6, CrashEffect
    <2>2. IsFiniteSet({}) /\ Cardinality({}) <= Concurrency
      BY <1>0, FS_EmptySet
    <2> QED
      BY <1>0, <2>1, <2>2 DEF JobsOK
  <1> QED
    BY <1>1, <1>2, <1>3, <1>4, <1>5, <1>6, Frames DEF DoDequeue, DoRun, DoSettle, DoSchedule, DoCrash

LEMMA FlightStep ==
  ASSUME BaseInv, TagInv, [Next]_vars
  PROVE  FlightOK'
  <1>0. TypeInv /\ FlightOK
    BY TypeParts DEF BaseInv
  <1>1. CASE UNCHANGED <<inbox, hand, mpsc>>
    BY <1>0, <1>1 DEF FlightOK
  <1>2. ASSUME NEW c \in Channel, NEW s \in Held, Push(c, s)
        PROVE  FlightOK'
    <2>1. PICK d \in Delivery : inbox' = inbox \cup {d} /\ UNCHANGED <<hand, mpsc>>
      BY <1>2, PushEffect
    <2>2. IsFiniteSet(inbox \cup {d})
      BY <1>0, FS_AddElement DEF FlightOK
    <2> QED
      BY <1>0, <2>1, <2>2 DEF FlightOK
  <1>3. ASSUME NEW c \in Channel, NEW m \in inbox, Track(c, m)
        PROVE  FlightOK'
    <2>1. inbox' = inbox \ {m} /\ hand' = hand \cup {m} /\ UNCHANGED mpsc
      BY <1>0, <1>3, TrackEffect
    <2>2. IsFiniteSet(inbox \ {m}) /\ IsFiniteSet(hand \cup {m})
      BY <1>0, FS_AddElement, FS_RemoveElement DEF FlightOK
    <2> QED
      BY <1>0, <2>1, <2>2 DEF FlightOK
  <1>4. ASSUME NEW c \in Channel, NEW m \in inbox, Reject(c, m)
        PROVE  FlightOK'
    <2>1. inbox' = inbox \ {m} /\ UNCHANGED <<hand, mpsc>>
      BY <1>4, RejectEffect
    <2>2. IsFiniteSet(inbox \ {m})
      BY <1>0, FS_RemoveElement DEF FlightOK
    <2> QED
      BY <1>0, <2>1, <2>2 DEF FlightOK
  <1>5. ASSUME NEW c \in Channel, NEW m \in hand, Send(c, m)
        PROVE  FlightOK'
    <2>1. hand' = hand \ {m} /\ mpsc' = [mpsc EXCEPT ![c[1]] = Append(mpsc[c[1]], m)] /\ UNCHANGED inbox
      BY <1>0, <1>5, SendEffect
    <2>2. IsFiniteSet(hand \ {m})
      BY <1>0, FS_RemoveElement DEF FlightOK
    <2>3. c[1] \in Worker /\ m \in Delivery
      BY <1>0 DEF Channel, FlightOK
    <2>4. Append(mpsc[c[1]], m) \in Seq(Delivery)
      BY <1>0, <2>3, AppendItems DEF FlightOK
    <2> QED
      BY <1>0, <2>1, <2>2, <2>4 DEF FlightOK
  <1>6. ASSUME NEW c \in Channel, ConsumerError(c)
        PROVE  FlightOK'
    <2>1. inbox' \subseteq inbox /\ UNCHANGED <<hand, mpsc>>
      BY <1>0, <1>6, ErrorEffect
    <2>2. IsFiniteSet(inbox')
      BY <1>0, <2>1, FS_Subset DEF FlightOK
    <2> QED
      BY <1>0, <2>1, <2>2 DEF FlightOK
  <1>7. ASSUME NEW w \in Worker, Crash(w)
        PROVE  FlightOK'
    <2>1. inbox' \subseteq inbox /\ hand' \subseteq hand /\ mpsc' = [mpsc EXCEPT ![w] = <<>>]
      BY <1>0, <1>7, CrashEffect
    <2>2. IsFiniteSet(inbox') /\ IsFiniteSet(hand')
      BY <1>0, <2>1, FS_Subset DEF FlightOK
    <2>3. <<>> \in Seq(Delivery)
      OBVIOUS
    <2> QED
      BY <1>0, <2>1, <2>2, <2>3 DEF FlightOK
  <1>8. ASSUME NEW w \in Worker, Dequeue(w)
        PROVE  FlightOK'
    <2>1. /\ mpsc[w] \in Seq(Delivery) /\ mpsc[w] # <<>> /\ mpsc' = [mpsc EXCEPT ![w] = Tail(mpsc[w])]
          /\ UNCHANGED <<inbox, hand>>
      BY <1>0, <1>8, DequeueEffect
    <2>2. Tail(mpsc[w]) \in Seq(Delivery)
      BY <2>1
    <2> QED
      BY <1>0, <2>1, <2>2 DEF FlightOK
  <1> QED
    BY <1>1, <1>2, <1>3, <1>4, <1>5, <1>6, <1>7, <1>8, Frames
       DEF DoPush, DoTrack, DoReject, DoSend, DoError, DoCrash, DoDequeue

\* What a step may do to the copies: one is added, changed or removed that
\* waits for no acknowledgement afterwards, one is delivered, or some are
\* requeued.
Adds == \E s \in Slot \ Held, m \in Message :
    /\ msgs' = [msgs EXCEPT ![s] = m]
    /\ m.task = s[1] /\ m.chan = None /\ m.place # "unacked"
Replaces == \E s \in Held, m \in Message :
    /\ msgs' = [msgs EXCEPT ![s] = m]
    /\ m.task = s[1] /\ m.chan = None /\ m.place # "unacked"
Removes == \E s \in Held : msgs' = [msgs EXCEPT ![s] = None]

LEMMA CopyKinds ==
  ASSUME BaseInv, TagInv, [Next]_vars
  PROVE  UNCHANGED msgs \/ Adds \/ Replaces \/ Removes \/ DoPush \/ DoClose \/ DoCrash
  <1>0. TypeInv
    BY DEF BaseInv
  <1>1. CASE DoEnqueue
    BY <1>0, <1>1, EnqueueEffect DEF DoEnqueue, Adds
  <1>2. CASE DoMove
    BY <1>2, MoveEffect DEF DoMove, Replaces, BaseInv, PlaceInv, CopiesInv, CopyOK
  <1>3. CASE DoReject
    BY <1>3, RejectEffect DEF DoReject, Replaces
  <1>4. ASSUME NEW w \in Worker, NEW j \in jobs[w], Ack(w, j) \/ Nack(w, j) \/ DeadLetter(w, j)
        PROVE  UNCHANGED msgs \/ Replaces \/ Removes
    <2>1. CASE UNCHANGED msgs
      BY <2>1
    <2>2. ASSUME NEW s \in Held, msgs' = [msgs EXCEPT ![s] = None]
          PROVE  Removes
      BY <2>2 DEF Removes
    <2>3. ASSUME NEW s \in Held, NEW b \in Message, msgs' = [msgs EXCEPT ![s] = b],
                 b.task = s[1], b.chan = None, b.place = IF j.step = "bury" THEN "dlq" ELSE "ready"
          PROVE  Replaces
      BY <2>3 DEF Replaces
    <2> QED
      BY <1>4, <2>1, <2>2, <2>3, SettleEffect
  <1>5. CASE DoSchedule
    BY <1>0, <1>5, ScheduleEffect DEF DoSchedule, Adds
  <1> QED
    BY <1>1, <1>2, <1>3, <1>4, <1>5, Frames DEF DoSettle

\* What waits for an acknowledgement has waited before, or is delivered now.
LEMMA UnackedShrinks ==
  ASSUME BaseInv, TagInv, [Next]_vars
  PROVE  /\ msgs' \in [Slot -> Message \cup {None}]
         /\ \A s \in Held' : /\ s \in Slot /\ msgs'[s].task = s[1]
                             /\ msgs'[s].chan # None <=> msgs'[s].place = "unacked"
         /\ DoPush \/ \A s \in Held' : msgs'[s].chan # None => s \in Held /\ msgs'[s] = msgs[s]
  <1>0. TypeInv /\ \A s \in Held : CopyOK(s) /\ s \in Slot
    BY DEF BaseInv, PlaceInv, CopiesInv, Held
  <1>1. CASE UNCHANGED msgs
    BY <1>0, <1>1 DEF Held, CopyOK, TypeInv, TypeOK
  <1>2. CASE Adds \/ Replaces
    <2>1. PICK s \in Slot, m \in Message : /\ msgs' = [msgs EXCEPT ![s] = m]
                                           /\ m.task = s[1] /\ m.chan = None /\ m.place # "unacked"
      BY <1>0, <1>2 DEF Adds, Replaces
    <2>2. /\ Held' = Held \cup {s} /\ msgs'[s] = m /\ msgs' \in [Slot -> Message \cup {None}]
          /\ \A r \in Slot : r # s => msgs'[r] = msgs[r]
      BY <1>0, <2>1, HeldAfter
    <2> QED
      BY <1>0, <2>1, <2>2 DEF CopyOK
  <1>3. CASE Removes
    <2>1. PICK s \in Held : msgs' = [msgs EXCEPT ![s] = None]
      BY <1>3 DEF Removes
    <2>2. /\ Held' = Held \ {s} /\ msgs' \in [Slot -> Message \cup {None}]
          /\ \A r \in Slot : r # s => msgs'[r] = msgs[r]
      BY <1>0, <2>1, NotHeldAfter
    <2> QED
      BY <1>0, <2>2 DEF CopyOK
  <1>4. CASE DoPush
    <2>1. PICK c \in Channel, s \in Held : Push(c, s)
      BY <1>4 DEF DoPush
    <2>2. PICK m \in Message : /\ msgs' = [msgs EXCEPT ![s] = m] /\ m.task = s[1]
                               /\ m.place = "unacked" /\ m.chan = c
      BY <2>1, PushEffect
    <2>3. /\ Held' = Held \cup {s} /\ msgs'[s] = m /\ msgs' \in [Slot -> Message \cup {None}]
          /\ \A r \in Slot : r # s => msgs'[r] = msgs[r]
      BY <1>0, <2>2, HeldAfter
    <2>4. c # None
      BY NoneAssumption
    <2> QED
      BY <1>0, <1>4, <2>2, <2>3, <2>4 DEF CopyOK
  <1>5. ASSUME NEW C, msgs' = Requeued(C)
        PROVE  /\ msgs' \in [Slot -> Message \cup {None}]
               /\ \A s \in Held' : /\ s \in Slot /\ msgs'[s].task = s[1]
                                   /\ msgs'[s].chan # None <=> msgs'[s].place = "unacked"
               /\ \A s \in Held' : msgs'[s].chan # None => s \in Held /\ msgs'[s] = msgs[s]
    BY <1>0, <1>5, RequeuedEffect DEF CopyOK
  <1>6. CASE DoClose \/ DoCrash
    BY <1>0, <1>5, <1>6, ClosesEffect, CrashEffect DEF DoClose, DoCrash
  <1> QED
    BY <1>1, <1>2, <1>3, <1>4, <1>6, CopyKinds

\* A closed channel stays closed, and what is there is not undone.
LEMMA ChanStep ==
  ASSUME BaseInv, TagInv, [Next]_vars
  PROVE  /\ chan' \in [Channel -> {"none", "open", "closed"}]
         /\ consuming' \in [Worker -> SUBSET Queue]
         /\ ChanInv'
         /\ \A c \in Channel : /\ chan[c] = "closed" => chan'[c] = "closed"
                               /\ chan[c] # "none" => chan'[c] # "none"
         /\ \A c \in Channel : chan'[c] = "open" => \/ chan[c] = "open"
                                                    \/ chan[c] = "none" /\ UNCHANGED msgs
  <1>0. /\ TypeInv /\ ChanInv
        /\ chan \in [Channel -> {"none", "open", "closed"}] /\ consuming \in [Worker -> SUBSET Queue]
    BY DEF BaseInv, PlaceInv, TypeInv, TypeOK
  <1>1. CASE UNCHANGED <<chan, consuming>>
    BY <1>0, <1>1 DEF ChanInv
  <1>2. ASSUME NEW c \in Channel, EnsureConsumer(c[1], c[2])
        PROVE  /\ chan' = [chan EXCEPT ![c] = "open"] /\ chan[c] = "none" /\ UNCHANGED msgs
               /\ consuming' = [consuming EXCEPT ![c[1]] = @ \cup {c[2]}] /\ c[1] \in Worker /\ c[2] \in Queue
    BY <1>0, <1>2, EnsureEffect DEF ChanInv
  <1>3. CASE DoEnsure
    <2>1. PICK c \in Channel : EnsureConsumer(c[1], c[2])
      BY <1>3 DEF DoEnsure
    <2>2. \A d \in Channel : d[1] \in Worker
      BY DEF Channel
    <2>3. ChanInv'
      BY <1>0, <1>2, <2>1, <2>2 DEF ChanInv
    <2> QED
      BY <1>0, <1>2, <2>1, <2>3
  <1>4. CASE DoClose
    <2>1. PICK c \in Channel : Closes(c)
      BY <1>4 DEF DoClose
    <2>2. chan[c] = "open" /\ chan' = [chan EXCEPT ![c] = "closed"] /\ UNCHANGED consuming
      BY <1>0, <2>1, ClosesEffect
    <2> QED
      BY <1>0, <2>2 DEF ChanInv
  <1>5. CASE DoCrash
    <2>1. PICK w \in Worker : Crash(w)
      BY <1>5 DEF DoCrash
    <2>2. /\ chan' = [c \in Channel |-> IF c[1] = w THEN "closed" ELSE chan[c]]
          /\ consuming' = [consuming EXCEPT ![w] = Queues[w]]
      BY <1>0, <2>1, CrashEffect
    <2>3. \A c \in Channel : c[1] \in Worker /\ c[2] \in Queues[c[1]]
      BY DEF Channel
    <2>4. Queues[w] \in SUBSET Queue
      BY AmqpAssumption
    <2>5. \A c \in Channel : chan'[c] = IF c[1] = w THEN "closed" ELSE chan[c]
      BY <2>2
    <2>6. \A v \in Worker : consuming'[v] = IF v = w THEN Queues[v] ELSE consuming[v]
      BY <1>0, <2>2
    <2>7. ChanInv'
      BY <1>0, <2>3, <2>5, <2>6 DEF ChanInv
    <2>8. chan' \in [Channel -> {"none", "open", "closed"}] /\ consuming' \in [Worker -> SUBSET Queue]
      BY <1>0, <2>2, <2>4
    <2> QED
      BY <2>5, <2>7, <2>8
  <1> QED
    BY <1>1, <1>3, <1>4, <1>5, Frames

LEMMA CopiesStep ==
  ASSUME BaseInv, TagInv, [Next]_vars
  PROVE  CopiesInv'
  <1>0. TypeInv /\ \A s \in Held : CopyOK(s) /\ s \in Slot /\ msgs[s] \in Message
    BY HeldType DEF BaseInv, PlaceInv, CopiesInv
  <1> SUFFICES ASSUME NEW s \in Held', msgs'[s].chan # None
               PROVE  chan'[msgs'[s].chan] = "open" /\ msgs'[s].chan[2] = QueueOf[s[1]]
    BY UnackedShrinks DEF CopiesInv, CopyOK
  <1>1. CASE DoPush
    <2>1. PICK c \in Channel, r \in Held : Push(c, r)
      BY <1>1 DEF DoPush
    <2>2. PICK m \in Message : /\ msgs' = [msgs EXCEPT ![r] = m] /\ m.chan = c
                               /\ QueueOf[r[1]] = c[2] /\ chan[c] = "open" /\ chan' = chan
      BY <2>1, PushEffect
    <2>3. /\ Held' = Held \cup {r} /\ msgs'[r] = m
          /\ \A q \in Slot : q # r => msgs'[q] = msgs[q]
      BY <1>0, <2>2, HeldAfter
    <2> QED
      BY <1>0, <2>2, <2>3 DEF CopyOK
  <1>2. ASSUME s \in Held, msgs'[s] = msgs[s]
        PROVE  chan'[msgs[s].chan] = "open" /\ msgs[s].chan[2] = QueueOf[s[1]]
    <2>1. chan[msgs[s].chan] = "open" /\ msgs[s].chan[2] = QueueOf[s[1]] /\ msgs[s].chan \in Channel
      BY <1>0, <1>2 DEF CopyOK, Message
    <2>2. CASE UNCHANGED <<chan, consuming>>
      BY <2>1, <2>2
    <2>3. CASE DoEnsure
      BY <1>0, <2>1, <2>3, EnsureEffect DEF DoEnsure, TypeInv, TypeOK
    <2>4. CASE DoClose
      <3>1. PICK c \in Channel : Closes(c)
        BY <2>4 DEF DoClose
      <3>2. msgs' = Requeued({c}) /\ chan' = [chan EXCEPT ![c] = "closed"]
        BY <1>0, <3>1, ClosesEffect
      <3>3. msgs[s].chan # c
        BY <1>2, <3>2, RequeuedEffect
      <3> QED
        BY <1>0, <2>1, <3>2, <3>3 DEF TypeInv, TypeOK
    <2>5. CASE DoCrash
      <3>1. PICK w \in Worker : Crash(w)
        BY <2>5 DEF DoCrash
      <3>2. msgs' = Requeued({w} \X Queue) /\ chan' = [c \in Channel |-> IF c[1] = w THEN "closed" ELSE chan[c]]
        BY <1>0, <3>1, CrashEffect
      <3>3. msgs[s].chan \notin {w} \X Queue
        BY <1>2, <3>2, RequeuedEffect
      <3>4. msgs[s].chan[1] # w
        BY <2>1, <3>3 DEF Channel
      <3> QED
        BY <2>1, <3>2, <3>4
    <2> QED
      BY <2>2, <2>3, <2>4, <2>5, Frames
  <1> QED
    BY <1>1, <1>2, UnackedShrinks

-----------------------------------------------------------------------------
(* Deliveries on their way *)

LEMMA ChannelIs ==
  ASSUME NEW c \in Channel
  PROVE  c[1] \in Worker /\ c[2] \in Queue /\ c = <<c[1], c[2]>> /\ c # None
  BY NoneAssumption DEF Channel

\* A delivery is in one place only, and is not executed yet.
FlightUnique == \A m, d \in InFlight : Same(m, d) => m = d
FlightApart == /\ inbox \cap hand = {}
               /\ \A w \in Worker : \A m \in Items(w) : m \notin inbox /\ m \notin hand
MpscUnique == \A w \in Worker : Distinct(mpsc[w])
JobUnique == \A w \in Worker : \A i, j \in jobs[w] : Same(i, j) => i = j
NotYetRun == \A w \in Worker : \A j \in jobs[w] : \A m \in InFlight : ~ Same(m, j)

UniqueInv == FlightUnique /\ FlightApart /\ MpscUnique /\ JobUnique /\ NotYetRun

LEMMA InFlightIs ==
  ASSUME NEW m
  PROVE  m \in InFlight <=> m \in inbox \/ m \in hand \/ \E w \in Worker : m \in Items(w)
  BY DEF InFlight

LEMMA SendItems ==
  ASSUME TypeInv, NEW c \in Channel, NEW m \in hand, Send(c, m)
  PROVE  \A v \in Worker : /\ v = c[1] => Items(v)' = Items(v) \cup {m}
                           /\ v # c[1] => Items(v)' = Items(v)
  <1>1. mpsc' = [mpsc EXCEPT ![c[1]] = Append(mpsc[c[1]], m)] /\ mpsc \in [Worker -> Seq(Delivery)] /\ m \in Delivery
    BY SendEffect DEF TypeInv, TypeOK
  <1>2. c[1] \in Worker
    BY ChannelIs
  <1>3. Range(Append(mpsc[c[1]], m)) = Range(mpsc[c[1]]) \cup {m}
    BY <1>1, <1>2, AppendItems
  <1>4. mpsc'[c[1]] = Append(mpsc[c[1]], m) /\ \A v \in Worker : v # c[1] => mpsc'[v] = mpsc[v]
    BY <1>1, <1>2
  <1> QED
    BY <1>3, <1>4 DEF Items

LEMMA DequeueItems ==
  ASSUME TypeInv, NEW w \in Worker, Dequeue(w)
  PROVE  \A v \in Worker : /\ v = w => Items(v) = Items(v)' \cup {Head(mpsc[w])}
                           /\ v # w => Items(v)' = Items(v)
  <1>1. mpsc[w] \in Seq(Delivery) /\ mpsc[w] # <<>> /\ mpsc' = [mpsc EXCEPT ![w] = Tail(mpsc[w])]
    BY DequeueEffect
  <1>2. mpsc'[w] = Tail(mpsc[w]) /\ \A v \in Worker : v # w => mpsc'[v] = mpsc[v]
    BY <1>1 DEF TypeInv, TypeOK
  <1>3. Range(mpsc[w]) = Range(Tail(mpsc[w])) \cup {Head(mpsc[w])}
    BY <1>1, TailItems
  <1> QED
    BY <1>2, <1>3 DEF Items

LEMMA CrashItems ==
  ASSUME TypeInv, NEW w \in Worker, Crash(w)
  PROVE  \A v \in Worker : /\ v = w => Items(v)' = {}
                           /\ v # w => Items(v)' = Items(v)
  <1>1. mpsc' = [mpsc EXCEPT ![w] = <<>>]
    BY CrashEffect
  <1>2. mpsc'[w] = <<>> /\ \A v \in Worker : v # w => mpsc'[v] = mpsc[v]
    BY <1>1 DEF TypeInv, TypeOK
  <1>3. Range(<<>>) = {}
    BY DEF Range
  <1> QED
    BY <1>2, <1>3 DEF Items

\* Only RabbitMQ adds to what is on its way.
LEMMA FlightShrinks ==
  ASSUME BaseInv, TagInv, [Next]_vars
  PROVE  \/ InFlight' \subseteq InFlight
         \/ \E c \in Channel : \E s \in Held : Push(c, s)
  <1>0. TypeInv
    BY DEF BaseInv
  <1>1. CASE UNCHANGED <<inbox, hand, mpsc>>
    BY <1>1 DEF InFlight, Items
  <1>2. ASSUME UNCHANGED mpsc, inbox' \cup hand' \subseteq inbox \cup hand
        PROVE  InFlight' \subseteq InFlight
    BY <1>2 DEF InFlight, Items
  <1>3. ASSUME NEW c \in Channel, NEW m \in inbox, Track(c, m)
        PROVE  InFlight' \subseteq InFlight
    BY <1>0, <1>2, <1>3, TrackEffect
  <1>4. ASSUME NEW c \in Channel, NEW m \in inbox, Reject(c, m)
        PROVE  InFlight' \subseteq InFlight
    BY <1>2, <1>4, RejectEffect
  <1>5. ASSUME NEW c \in Channel, NEW m \in hand, Send(c, m)
        PROVE  InFlight' \subseteq InFlight
    BY <1>0, <1>5, SendEffect, SendItems DEF InFlight
  <1>6. ASSUME NEW c \in Channel, ConsumerError(c)
        PROVE  InFlight' \subseteq InFlight
    BY <1>0, <1>2, <1>6, ErrorEffect
  <1>7. ASSUME NEW w \in Worker, Crash(w)
        PROVE  InFlight' \subseteq InFlight
    <2>1. inbox' \subseteq inbox /\ hand' \subseteq hand
      BY <1>0, <1>7, CrashEffect
    <2>2. \A v \in Worker : Items(v)' \subseteq Items(v)
      BY <1>0, <1>7, CrashItems
    <2> QED
      BY <2>1, <2>2 DEF InFlight
  <1>8. ASSUME NEW w \in Worker, Dequeue(w)
        PROVE  InFlight' \subseteq InFlight
    BY <1>0, <1>8, DequeueEffect, DequeueItems DEF InFlight
  <1> QED
    BY <1>1, <1>3, <1>4, <1>5, <1>6, <1>7, <1>8, Frames
       DEF DoPush, DoTrack, DoReject, DoSend, DoError, DoCrash, DoDequeue

\* The items of a worker come from its own channels.
LEMMA ItemsShrink ==
  ASSUME BaseInv, TagInv, [Next]_vars, NEW w \in Worker, NEW m \in Items(w)'
  PROVE  m \in Items(w) \/ (m \in hand /\ m.chan[1] = w)
  <1>0. TypeInv
    BY DEF BaseInv
  <1>1. CASE UNCHANGED mpsc
    BY <1>1 DEF Items
  <1>2. CASE DoSend
    BY <1>0, <1>2, SendEffect, SendItems DEF DoSend
  <1>3. CASE DoDequeue
    BY <1>0, <1>3, DequeueItems DEF DoDequeue
  <1>4. CASE DoCrash
    BY <1>0, <1>4, CrashItems DEF DoCrash
  <1>5. CASE DoPush \/ DoTrack \/ DoReject \/ DoError
    <2>1. UNCHANGED mpsc
      BY <1>5 DEF DoPush, DoTrack, DoReject, DoError, Push, Track, Reject, ConsumerError
    <2> QED
      BY <1>1, <2>1
  <1> QED
    BY <1>1, <1>2, <1>3, <1>4, <1>5, Frames

LEMMA FlightInvStep ==
  ASSUME BaseInv, TagInv, [Next]_vars
  PROVE  FlightInv'
  <1>0. TypeInv /\ FlightInv
    BY DEF BaseInv, PlaceInv
  <1>1. \A m \in InFlight : m.chan \in Channel
    BY <1>0, FlightType DEF Delivery
  <1>2. \A m \in InFlight : On(m)'
    BY <1>0, <1>1, ChanStep DEF FlightInv, On
  <1>3. ASSUME NEW m \in InFlight'
        PROVE  On(m)'
    <2>1. CASE m \in InFlight
      BY <1>2, <2>1
    <2>2. ASSUME NEW c \in Channel, NEW s \in Held, Push(c, s)
          PROVE  On(m)'
      <3>1. PICK d \in Delivery : /\ inbox' = inbox \cup {d} /\ d.task = s[1] /\ d.chan = c
                                  /\ QueueOf[s[1]] = c[2] /\ chan[c] = "open" /\ chan' = chan
                                  /\ UNCHANGED <<hand, mpsc>>
        BY <2>2, PushEffect
      <3>2. m \in InFlight \/ m = d
        BY <3>1 DEF InFlight, Items
      <3>3. On(d)'
        BY <3>1 DEF On
      <3> QED
        BY <1>2, <3>2, <3>3
    <2> QED
      BY <2>1, <2>2, FlightShrinks
  <1>4. \A w \in Worker : \A m \in Items(w)' : m.chan[1] = w
    BY <1>0, ItemsShrink DEF FlightInv
  <1> QED
    BY <1>3, <1>4 DEF FlightInv

LEMMA JobInvStep ==
  ASSUME BaseInv, TagInv, [Next]_vars
  PROVE  JobInv'
  <1>0. TypeInv /\ JobInv /\ FlightInv /\ \A w \in Worker : jobs[w] \subseteq Job
    BY DEF BaseInv, PlaceInv, TypeInv, TypeOK
  <1> SUFFICES ASSUME NEW v \in Worker, NEW i \in jobs'[v]
               PROVE  On(i)' /\ i.chan[1] = v /\ (i.step \in {"etaAck", "schedule"} => i.task \in Delayed)
    BY DEF JobInv
  <1>1. ASSUME i \in jobs[v]
        PROVE  On(i)' /\ i.chan[1] = v /\ (i.step \in {"etaAck", "schedule"} => i.task \in Delayed)
    <2>1. i.chan \in Channel
      BY <1>0, <1>1, JobType
    <2> QED
      BY <1>0, <1>1, <2>1, ChanStep DEF JobInv, On
  <1>2. CASE UNCHANGED jobs
    BY <1>1, <1>2
  <1>3. ASSUME NEW w \in Worker, Dequeue(w)
        PROVE  On(i)' /\ i.chan[1] = v /\ (i.step \in {"etaAck", "schedule"} => i.task \in Delayed)
    <2>1. PICK m \in Items(w) : m \in Delivery /\ jobs' = [jobs EXCEPT ![w] = @ \cup {FirstRun(m)}] /\ UNCHANGED chan
      <3> DEFINE h == Head(mpsc[w])
      <3>1. h \in Delivery /\ h \in Items(w) /\ jobs' = [jobs EXCEPT ![w] = @ \cup {FirstRun(h)}] /\ UNCHANGED chan
        BY <1>0, <1>3, DequeueEffect, DequeueItems
      <3> HIDE DEF h
      <3> QED
        BY <3>1
    <2>2. m.chan[1] = w /\ On(m)
      BY <1>0, <2>1 DEF FlightInv, InFlight
    <2>3. i \in jobs[v] \/ (v = w /\ i = FirstRun(m))
      BY <1>0, <2>1 DEF TypeInv, TypeOK
    <2>4. CASE v = w /\ i = FirstRun(m)
      <3>1. i.task = m.task /\ i.chan = m.chan /\ i.step = "run"
        BY <2>4 DEF FirstRun
      <3> QED
        BY <2>1, <2>2, <2>4, <3>1 DEF On
    <2> QED
      BY <1>1, <2>3, <2>4
  <1>4. ASSUME NEW w \in Worker, NEW j \in jobs[w], NEW k \in Job, Becomes(w, j, k),
               k.task = j.task, k.chan = j.chan, UNCHANGED chan,
               k.step \in {"etaAck", "schedule"} => j.task \in Delayed
        PROVE  On(i)' /\ i.chan[1] = v /\ (i.step \in {"etaAck", "schedule"} => i.task \in Delayed)
    <2>1. i \in jobs[v] \/ (v = w /\ i = k)
      BY <1>0, <1>4, BecomesMember
    <2>2. On(j) /\ j.chan[1] = w
      BY <1>0 DEF JobInv
    <2> QED
      BY <1>1, <1>4, <2>1, <2>2 DEF On
  <1>5. ASSUME NEW w \in Worker, NEW j \in jobs[w], Ends(w, j)
        PROVE  i \in jobs[v]
    BY <1>0, <1>5, EndsMember
  <1>6. ASSUME NEW w \in Worker, NEW j \in jobs[w], NotDue(w, j) \/ Succeed(w, j) \/ Fail(w, j)
        PROVE  On(i)' /\ i.chan[1] = v /\ (i.step \in {"etaAck", "schedule"} => i.task \in Delayed)
    <2>1. PICK k \in Job : /\ Becomes(w, j, k) /\ k.task = j.task /\ k.chan = j.chan /\ UNCHANGED chan
                           /\ k.step \in {"etaAck", "ack", "backoff", "bury"}
                           /\ k.step = "etaAck" => j.task \in Delayed
      BY <1>0, <1>6, RunEffect
    <2>2. k.step \in {"etaAck", "schedule"} => j.task \in Delayed
      BY <2>1
    <2> QED
      BY <1>4, <2>1, <2>2
  <1>7. ASSUME NEW w \in Worker, NEW j \in jobs[w], Ack(w, j) \/ Nack(w, j) \/ DeadLetter(w, j)
        PROVE  On(i)' /\ i.chan[1] = v /\ (i.step \in {"etaAck", "schedule"} => i.task \in Delayed)
    <2>1. CASE Ends(w, j)
      BY <1>1, <1>5, <2>1
    <2>2. CASE ~ Ends(w, j)
      <3>1. PICK k \in Job : j.step = "etaAck" /\ Becomes(w, j, k) /\ k.task = j.task /\ k.chan = j.chan
        BY <1>7, <2>2, SettleEffect
      <3>2. j.task \in Delayed
        BY <1>0, <3>1 DEF JobInv
      <3>3. UNCHANGED chan
        BY <1>7, SettleEffect
      <3> QED
        BY <1>4, <3>1, <3>2, <3>3
    <2> QED
      BY <2>1, <2>2
  <1>8. CASE DoSchedule
    BY <1>0, <1>1, <1>5, <1>8, ScheduleEffect DEF DoSchedule
  <1>9. CASE DoCrash
    <2>0. PICK w \in Worker : jobs' = [jobs EXCEPT ![w] = {}]
      BY <1>0, <1>9, CrashEffect DEF DoCrash
    <2>1. i \in jobs[v]
      BY <1>0, <2>0 DEF TypeInv, TypeOK
    <2> QED
      BY <1>1, <2>1
  <1> QED
    BY <1>2, <1>3, <1>6, <1>7, <1>8, <1>9, Frames DEF DoDequeue, DoRun, DoSettle

-----------------------------------------------------------------------------
(* The entries of delivered tags *)

LEMMA TrackEntries ==
  ASSUME TypeInv, NEW c \in Channel, NEW m \in inbox, Track(c, m)
  PROVE  /\ deliveries' \in [Worker -> [Task -> (Channel \X Nat) \cup {None}]]
         /\ c[1] \in Worker /\ m.task \in Task /\ m.chan = c
         /\ deliveries'[c[1]][m.task] = <<m.chan, m.tag>>
         /\ \A w \in Worker, t \in Task : ~ (w = c[1] /\ t = m.task) => deliveries'[w][t] = deliveries[w][t]
  <1>1. m \in Delivery /\ deliveries \in [Worker -> [Task -> (Channel \X Nat) \cup {None}]]
    BY DEF TypeInv, TypeOK
  <1>2. m.task \in Task /\ m.tag \in Nat /\ c[1] \in Worker
    BY <1>1, DeliveryType, ChannelIs
  <1>3. deliveries' = [deliveries EXCEPT ![c[1]][m.task] = <<c, m.tag>>] /\ m.chan = c
    BY TrackEffect
  <1> QED
    BY <1>1, <1>2, <1>3

LEMMA SettleEntries ==
  ASSUME BaseInv, TagInv, NEW w \in Worker, NEW j \in jobs[w], Ack(w, j) \/ Nack(w, j) \/ DeadLetter(w, j)
  PROVE  /\ deliveries' \in [Worker -> [Task -> (Channel \X Nat) \cup {None}]]
         /\ deliveries'[w][j.task] = None
         /\ \A v \in Worker, t \in Task : ~ (v = w /\ t = j.task) => deliveries'[v][t] = deliveries[v][t]
  <1>1. deliveries \in [Worker -> [Task -> (Channel \X Nat) \cup {None}]] /\ j.task \in Task
    BY JobType DEF BaseInv, TypeInv, TypeOK
  <1>2. deliveries' = [deliveries EXCEPT ![w][j.task] = None]
    BY SettleEffect
  <1> QED
    BY <1>1, <1>2

LEMMA CrashEntries ==
  ASSUME TypeInv, NEW w \in Worker, Crash(w)
  PROVE  /\ deliveries' \in [Worker -> [Task -> (Channel \X Nat) \cup {None}]]
         /\ \A t \in Task : deliveries'[w][t] = None
         /\ \A v \in Worker : v # w => deliveries'[v] = deliveries[v]
  <1>1. deliveries \in [Worker -> [Task -> (Channel \X Nat) \cup {None}]]
    BY DEF TypeInv, TypeOK
  <1>2. deliveries' = [deliveries EXCEPT ![w] = [t \in Task |-> None]]
    BY CrashEffect
  <1> QED
    BY <1>1, <1>2

\* An entry is kept, forgotten, or that of a delivery that was read.
LEMMA EntryStep ==
  ASSUME BaseInv, TagInv, [Next]_vars
  PROVE  /\ deliveries' \in [Worker -> [Task -> (Channel \X Nat) \cup {None}]]
         /\ \A w \in Worker, t \in Task : deliveries'[w][t] # None =>
               \/ deliveries'[w][t] = deliveries[w][t]
               \/ \E m \in inbox : w = m.chan[1] /\ t = m.task /\ deliveries'[w][t] = <<m.chan, m.tag>>
  <1>0. TypeInv /\ deliveries \in [Worker -> [Task -> (Channel \X Nat) \cup {None}]]
    BY DEF BaseInv, TypeInv, TypeOK
  <1>1. CASE UNCHANGED deliveries
    BY <1>0, <1>1
  <1>2. ASSUME NEW c \in Channel, NEW m \in inbox, Track(c, m)
        PROVE  /\ deliveries' \in [Worker -> [Task -> (Channel \X Nat) \cup {None}]]
               /\ \A w \in Worker, t \in Task : deliveries'[w][t] # None =>
                     \/ deliveries'[w][t] = deliveries[w][t]
                     \/ w = m.chan[1] /\ t = m.task /\ deliveries'[w][t] = <<m.chan, m.tag>>
    BY <1>0, <1>2, TrackEntries
  <1>3. CASE DoTrack
    BY <1>2, <1>3 DEF DoTrack
  <1>4. CASE DoSettle
    BY <1>0, <1>4, SettleEntries DEF DoSettle
  <1>5. CASE DoCrash
    BY <1>0, <1>5, CrashEntries DEF DoCrash
  <1> QED
    BY <1>1, <1>3, <1>4, <1>5, Frames

LEMMA EntryInvStep ==
  ASSUME BaseInv, TagInv, [Next]_vars
  PROVE  EntryInv'
  <1> SUFFICES ASSUME NEW w \in Worker, NEW t \in Task, deliveries'[w][t] # None
               PROVE  deliveries'[w][t][1] = <<w, QueueOf[t]>>
    BY DEF EntryInv
  <1>1. CASE deliveries'[w][t] = deliveries[w][t]
    BY <1>1 DEF BaseInv, PlaceInv, EntryInv
  <1>2. ASSUME NEW m \in inbox, w = m.chan[1], t = m.task, deliveries'[w][t] = <<m.chan, m.tag>>
        PROVE  deliveries'[w][t][1] = <<w, QueueOf[t]>>
    <2>1. m.chan[2] = QueueOf[m.task] /\ m.chan = <<m.chan[1], m.chan[2]>>
      BY DeliveryType DEF BaseInv, TypeInv, TypeOK, PlaceInv, FlightInv, InFlight, On
    <2> QED
      BY <1>2, <2>1
  <1> QED
    BY <1>1, <1>2, EntryStep

LEMMA FateType ==
  ASSUME BaseInv, TagInv, [Next]_vars
  PROVE  fate' \in [Task -> Fates]
  <1>0. TypeInv /\ fate \in [Task -> Fates]
    BY TypeParts DEF BaseInv
  <1>1. CASE UNCHANGED fate
    BY <1>0, <1>1
  <1>2. CASE DoEnqueue
    BY <1>0, <1>2, EnqueueEffect DEF DoEnqueue, Fates
  <1>3. CASE DoRun
    BY <1>0, <1>3, RunEffect DEF DoRun, Fates
  <1>4. CASE DoSchedule
    BY <1>0, <1>4, ScheduleEffect DEF DoSchedule, Fates
  <1>5. ASSUME NEW w \in Worker, Crash(w)
        PROVE  fate' \in [Task -> Fates]
    <2>1. fate' = [t \in Task |-> IF \E j \in jobs[w] : j.task = t /\ j.step = "schedule" THEN "dropped" ELSE fate[t]]
      BY <1>0, <1>5, CrashEffect
    <2> QED
      BY <1>0, <2>1 DEF Fates
  <1> QED
    BY <1>1, <1>2, <1>3, <1>4, <1>5, Frames DEF DoCrash

LEMMA BaseStep ==
  ASSUME BaseInv, TagInv, [Next]_vars
  PROVE  BaseInv'
  <1>1. TypeInv'
    <2>1. RestOK' /\ FlightOK' /\ JobsOK'
      BY RestStep, FlightStep, JobsStep DEF BaseInv
    <2>2. /\ msgs' \in [Slot -> Message \cup {None}]
          /\ chan' \in [Channel -> {"none", "open", "closed"}]
          /\ consuming' \in [Worker -> SUBSET Queue]
          /\ deliveries' \in [Worker -> [Task -> (Channel \X Nat) \cup {None}]]
      BY UnackedShrinks, ChanStep, EntryStep
    <2>3. fate' \in [Task -> Fates]
      BY FateType
    <2> QED
      BY <2>1, <2>2, <2>3 DEF TypeInv, TypeOK, RestOK, FlightOK, JobsOK, Fates
  <1>2. PlaceInv'
    BY CopiesStep, FlightInvStep, JobInvStep, EntryInvStep, ChanStep DEF PlaceInv
  <1> QED
    BY <1>1, <1>2 DEF BaseInv

LEMMA TagStep ==
  ASSUME BaseInv, TagInv, [Next]_vars
  PROVE  TagInv'
  <1>0. TypeInv /\ OneTag /\ EntryTag /\ InboxTag
    BY DEF BaseInv, TagInv
  <1>1. CASE ~ DoPush
    <2>1. \A s \in Held' : msgs'[s].chan # None => s \in Held /\ msgs'[s] = msgs[s]
      BY <1>1, UnackedShrinks
    <2>2. OneTag'
      BY <1>0, <2>1 DEF OneTag, Same
    <2>3. ASSUME NEW c \in Channel, NEW n
          PROVE  Tagged(c, n)' \subseteq Tagged(c, n)
      <3>1. c # None
        BY ChannelIs
      <3> QED
        BY <2>1, <3>1 DEF Tagged, Unacked
    <2>4. inbox' \subseteq inbox
      <3>1. CASE DoTrack \/ DoReject \/ DoError \/ DoCrash
        BY <1>0, <3>1, TrackEffect, RejectEffect, ErrorEffect, CrashEffect DEF DoTrack, DoReject, DoError, DoCrash
      <3>2. CASE DoSend \/ DoDequeue
        BY <1>0, <3>2, SendEffect, DequeueEffect DEF DoSend, DoDequeue
      <3> QED
        BY <1>1, <3>1, <3>2, Frames
    <2>5. inbox \subseteq Delivery
      BY <1>0 DEF TypeInv, TypeOK
    <2>6. InboxTag'
      BY <1>0, <2>3, <2>4, <2>5, DeliveryType DEF InboxTag
    <2>7. EntryTag'
      <3> SUFFICES ASSUME NEW w \in Worker, NEW t \in Task, deliveries'[w][t] # None,
                          NEW s \in Tagged(deliveries[w][t][1], deliveries[w][t][2])'
                   PROVE  s[1] = t
        BY DEF EntryTag
      <3>1. PICK c \in Channel, n \in Nat : deliveries'[w][t] = <<c, n>>
        BY EntryStep
      <3>2. s \in Tagged(c, n)
        BY <2>3, <3>1
      <3>3. CASE deliveries'[w][t] = deliveries[w][t]
        <4>1. deliveries[w][t] # None /\ deliveries[w][t][1] = c /\ deliveries[w][t][2] = n
          BY <3>1, <3>3
        <4> QED
          BY <1>0, <3>2, <4>1 DEF EntryTag
      <3>4. ASSUME NEW m \in inbox, t = m.task, deliveries'[w][t] = <<m.chan, m.tag>>
            PROVE  s[1] = t
        BY <1>0, <3>1, <3>2, <3>4 DEF InboxTag
      <3> QED
        BY <3>3, <3>4, EntryStep
    <2> QED
      BY <2>2, <2>6, <2>7 DEF TagInv
  <1>2. ASSUME NEW c \in Channel, NEW r \in Held, Push(c, r)
        PROVE  TagInv'
    <2>1. PICK m \in Message, d \in Delivery :
            /\ msgs' = [msgs EXCEPT ![r] = m] /\ m.chan = c /\ m.tag = NewTag(c)
            /\ inbox' = inbox \cup {d} /\ d.task = r[1] /\ d.chan = c /\ d.tag = NewTag(c)
            /\ UNCHANGED deliveries
      BY <1>2, PushEffect
    <2>2. /\ Held' = Held \cup {r} /\ msgs'[r] = m /\ c # None
          /\ \A q \in Slot : q # r => msgs'[q] = msgs[q]
      BY <1>0, <2>1, HeldAfter, ChannelIs DEF Held
    <2>3. Held \subseteq Slot
      BY DEF Held
    <2> DEFINE new == NewTag(c)
    <2>4. /\ \A s \in Unacked(c) : msgs[s].tag # new
          /\ \A e \in inbox : e.chan = c => e.tag # new
          /\ \A t \in Task : deliveries[c[1]][t] # None => deliveries[c[1]][t][2] # new
      BY <1>0, NewTagIsFree
    <2>5. m.tag = new /\ d.tag = new
      BY <2>1
    <2> HIDE DEF new
    <2>6. OneTag'
      <3>1. \A s \in Held : s # r /\ msgs[s].chan = c => msgs[s].tag # new
        BY <2>4 DEF Unacked
      <3> QED
        BY <1>0, <2>1, <2>2, <2>3, <2>5, <3>1 DEF OneTag, Same
    <2>7. ASSUME NEW b, NEW n, NEW s \in Tagged(b, n)'
          PROVE  s \in Tagged(b, n) \/ (s = r /\ b = c /\ n = new)
      BY <2>1, <2>2, <2>3, <2>5 DEF Tagged, Unacked
    <2>8. InboxTag'
      <3> SUFFICES ASSUME NEW e \in inbox', NEW s \in Tagged(e.chan, e.tag)'
                   PROVE  s[1] = e.task
        BY DEF InboxTag
      <3>1. s \in Tagged(e.chan, e.tag) \/ (s = r /\ e.chan = c /\ e.tag = new)
        BY <2>7
      <3>2. CASE e = d
        <4>1. s \notin Tagged(c, new)
          BY <2>4 DEF Tagged
        <4> QED
          BY <2>1, <2>5, <3>1, <3>2, <4>1
      <3>3. CASE e \in inbox
        BY <1>0, <2>4, <3>1, <3>3 DEF InboxTag
      <3> QED
        BY <2>1, <3>2, <3>3
    <2>9. EntryTag'
      <3> SUFFICES ASSUME NEW w \in Worker, NEW t \in Task, deliveries[w][t] # None,
                          NEW s \in Tagged(deliveries[w][t][1], deliveries[w][t][2])'
                   PROVE  s[1] = t
        BY <2>1 DEF EntryTag
      <3>1. PICK b \in Channel, n \in Nat : deliveries[w][t] = <<b, n>>
        BY <1>0, EntryType
      <3>5. deliveries[w][t][1] = b /\ deliveries[w][t][2] = n
        BY <3>1
      <3>2. b[1] = w
        BY <3>5 DEF BaseInv, PlaceInv, EntryInv
      <3>3. s \in Tagged(b, n) \/ (s = r /\ b = c /\ n = new)
        BY <2>1, <2>7, <3>1
      <3>4. ~ (b = c /\ n = new)
        BY <2>4, <3>5, <3>2
      <3> QED
        BY <1>0, <3>5, <3>3, <3>4 DEF EntryTag
    <2> QED
      BY <2>6, <2>8, <2>9 DEF TagInv
  <1> QED
    BY <1>1, <1>2 DEF DoPush

-----------------------------------------------------------------------------
(* One place for each delivery *)

LEMMA PushFresh ==
  ASSUME BaseInv, NEW c \in Channel, NEW d, d.chan = c, d.tag = NewTag(c)
  PROVE  /\ \A m \in InFlight : ~ Same(m, d)
         /\ \A w \in Worker : \A j \in jobs[w] : ~ Same(d, j)
  <1>0. TypeInv /\ FlightInv /\ JobInv /\ c[1] \in Worker
    BY ChannelIs DEF BaseInv, PlaceInv
  <1>1. /\ \A j \in jobs[c[1]] : j.tag # NewTag(c)
        /\ \A m \in inbox \cup hand : m.chan = c => m.tag # NewTag(c)
        /\ \A m \in Range(mpsc[c[1]]) : m.tag # NewTag(c)
    BY <1>0, NewTagIsFree
  <1>2. ASSUME NEW w \in Worker, NEW m \in Items(w)
        PROVE  ~ Same(m, d)
    BY <1>0, <1>1, <1>2 DEF FlightInv, Items, Same
  <1>3. \A m \in InFlight : ~ Same(m, d)
    BY <1>1, <1>2, InFlightIs DEF Same
  <1>4. \A w \in Worker : \A j \in jobs[w] : ~ Same(d, j)
    BY <1>0, <1>1 DEF JobInv, Same
  <1> QED
    BY <1>3, <1>4

\* What is executed now is not on its way any more.
LEMMA DequeueFresh ==
  ASSUME BaseInv, UniqueInv, NEW w \in Worker, Dequeue(w), NEW h, h = Head(mpsc[w])
  PROVE  /\ h \in InFlight /\ h \in Delivery /\ h.chan[1] = w
         /\ \A m \in InFlight' : m \in InFlight /\ ~ Same(m, h)
         /\ jobs' = [jobs EXCEPT ![w] = @ \cup {FirstRun(h)}]
  <1>0. TypeInv /\ FlightInv /\ FlightUnique /\ FlightApart /\ MpscUnique
    BY DEF BaseInv, PlaceInv, UniqueInv
  <1>1. h \in Items(w) /\ h \in Delivery /\ jobs' = [jobs EXCEPT ![w] = @ \cup {FirstRun(h)}] /\ UNCHANGED <<inbox, hand>>
    BY <1>0, DequeueEffect, DequeueItems
  <1>2. h \in InFlight /\ h.chan[1] = w /\ h \notin inbox /\ h \notin hand
    BY <1>0, <1>1 DEF InFlight, FlightInv, FlightApart
  <1>3. \A m \in Items(w)' : ~ Same(m, h)
    <2>1. mpsc[w] \in Seq(Delivery) /\ mpsc[w] # <<>> /\ mpsc' = [mpsc EXCEPT ![w] = Tail(mpsc[w])]
      BY <1>0, DequeueEffect
    <2>2. mpsc'[w] = Tail(mpsc[w])
      BY <1>0, <2>1 DEF TypeInv, TypeOK
    <2>3. \A m \in Range(Tail(mpsc[w])) : ~ Same(m, h)
      BY <1>0, <2>1, TailItems DEF MpscUnique
    <2> QED
      BY <2>2, <2>3 DEF Items
  <1>4. ASSUME NEW m \in InFlight'
        PROVE  m \in InFlight /\ ~ Same(m, h)
    <2>1. CASE m \in inbox \/ m \in hand
      <3>1. m \in InFlight /\ m # h
        BY <1>2, <2>1 DEF InFlight
      <3> QED
        BY <1>0, <1>2, <3>1 DEF FlightUnique
    <2>2. CASE m \in Items(w)'
      <3>1. m \in Items(w)
        BY <1>0, <2>2, DequeueItems
      <3> QED
        BY <1>3, <2>2, <3>1 DEF InFlight
    <2>3. ASSUME NEW v \in Worker, v # w, m \in Items(v)'
          PROVE  m \in InFlight /\ ~ Same(m, h)
      <3>1. m \in Items(v)
        BY <1>0, <2>3, DequeueItems
      <3>2. m.chan[1] = v
        BY <1>0, <3>1 DEF FlightInv
      <3> QED
        BY <1>2, <2>3, <3>1, <3>2 DEF InFlight, Same
    <2> QED
      BY <1>1, <2>1, <2>2, <2>3 DEF InFlight
  <1> QED
    BY <1>1, <1>2, <1>4

LEMMA FlightUniqueStep ==
  ASSUME BaseInv, TagInv, UniqueInv, [Next]_vars
  PROVE  FlightUnique'
  <1>0. FlightUnique
    BY DEF UniqueInv
  <1>1. CASE InFlight' \subseteq InFlight
    BY <1>0, <1>1 DEF FlightUnique
  <1>2. ASSUME NEW c \in Channel, NEW s \in Held, Push(c, s)
        PROVE  FlightUnique'
    <2>1. PICK d \in Delivery : inbox' = inbox \cup {d} /\ d.chan = c /\ d.tag = NewTag(c) /\ UNCHANGED <<hand, mpsc>>
      BY <1>2, PushEffect
    <2>2. InFlight' = InFlight \cup {d}
      BY <2>1 DEF InFlight, Items
    <2>3. \A m \in InFlight : ~ Same(m, d)
      BY <2>1, PushFresh
    <2> QED
      BY <1>0, <2>2, <2>3 DEF FlightUnique, Same
  <1> QED
    BY <1>1, <1>2, FlightShrinks

LEMMA FlightApartStep ==
  ASSUME BaseInv, TagInv, UniqueInv, [Next]_vars
  PROVE  FlightApart'
  <1>0. TypeInv /\ FlightApart
    BY DEF BaseInv, UniqueInv
  <1>1. CASE UNCHANGED <<inbox, hand, mpsc>>
    BY <1>0, <1>1 DEF FlightApart, Items
  <1>2. ASSUME NEW c \in Channel, NEW s \in Held, Push(c, s)
        PROVE  FlightApart'
    <2>1. PICK d \in Delivery : inbox' = inbox \cup {d} /\ d.chan = c /\ d.tag = NewTag(c) /\ UNCHANGED <<hand, mpsc>>
      BY <1>2, PushEffect
    <2>2. d \notin InFlight
      BY <2>1, PushFresh DEF Same
    <2> QED
      BY <1>0, <2>1, <2>2 DEF FlightApart, InFlight, Items
  <1>3. ASSUME NEW c \in Channel, NEW m \in inbox, Track(c, m)
        PROVE  FlightApart'
    <2>1. inbox' = inbox \ {m} /\ hand' = hand \cup {m} /\ UNCHANGED mpsc
      BY <1>0, <1>3, TrackEffect
    <2> QED
      BY <1>0, <2>1 DEF FlightApart, Items
  <1>4. ASSUME inbox' \subseteq inbox, hand' \subseteq hand, \A w \in Worker : Items(w)' \subseteq Items(w)
        PROVE  FlightApart'
    BY <1>0, <1>4 DEF FlightApart
  <1>5. ASSUME NEW c \in Channel, NEW m \in inbox, Reject(c, m)
        PROVE  FlightApart'
    BY <1>4, <1>5, RejectEffect DEF Items
  <1>6. ASSUME NEW c \in Channel, NEW m \in hand, Send(c, m)
        PROVE  FlightApart'
    <2>1. hand' = hand \ {m} /\ UNCHANGED inbox
      BY <1>0, <1>6, SendEffect
    <2>2. \A v \in Worker : Items(v)' \subseteq Items(v) \cup {m}
      BY <1>0, <1>6, SendItems
    <2> QED
      BY <1>0, <2>1, <2>2 DEF FlightApart
  <1>7. ASSUME NEW c \in Channel, ConsumerError(c)
        PROVE  FlightApart'
    BY <1>0, <1>4, <1>7, ErrorEffect DEF Items
  <1>8. ASSUME NEW w \in Worker, Crash(w)
        PROVE  FlightApart'
    <2>1. inbox' \subseteq inbox /\ hand' \subseteq hand
      BY <1>0, <1>8, CrashEffect
    <2>2. \A v \in Worker : Items(v)' \subseteq Items(v)
      BY <1>0, <1>8, CrashItems
    <2> QED
      BY <1>4, <2>1, <2>2
  <1>9. ASSUME NEW w \in Worker, Dequeue(w)
        PROVE  FlightApart'
    <2>1. \A v \in Worker : Items(v)' \subseteq Items(v)
      BY <1>0, <1>9, DequeueItems
    <2> QED
      BY <1>0, <1>4, <1>9, <2>1, DequeueEffect
  <1> QED
    BY <1>1, <1>2, <1>3, <1>5, <1>6, <1>7, <1>8, <1>9, Frames
       DEF DoPush, DoTrack, DoReject, DoSend, DoError, DoCrash, DoDequeue

LEMMA MpscUniqueStep ==
  ASSUME BaseInv, TagInv, UniqueInv, [Next]_vars
  PROVE  MpscUnique'
  <1>0. /\ TypeInv /\ MpscUnique /\ FlightUnique /\ FlightApart
        /\ mpsc \in [Worker -> Seq(Delivery)] /\ hand \subseteq Delivery
    BY DEF BaseInv, UniqueInv, TypeInv, TypeOK
  <1>1. CASE UNCHANGED mpsc
    BY <1>0, <1>1 DEF MpscUnique
  <1>2. ASSUME NEW c \in Channel, NEW m \in hand, Send(c, m)
        PROVE  MpscUnique'
    <2> DEFINE w == c[1]
    <2>1. mpsc' = [mpsc EXCEPT ![w] = Append(mpsc[w], m)] /\ w \in Worker
      BY <1>0, <1>2, SendEffect, ChannelIs
    <2> HIDE DEF w
    <2>2. \A x \in Range(mpsc[w]) : ~ Same(x, m)
      <3>1. \A x \in Items(w) : x \in InFlight /\ x # m
        BY <1>0, <2>1 DEF InFlight, FlightApart
      <3>2. m \in InFlight
        BY DEF InFlight
      <3> QED
        BY <1>0, <3>1, <3>2 DEF FlightUnique, Items
    <2>3. Distinct(Append(mpsc[w], m))
      BY <1>0, <2>1, <2>2, AppendItems DEF MpscUnique
    <2> QED
      BY <1>0, <2>1, <2>3 DEF MpscUnique
  <1>3. ASSUME NEW w \in Worker, Dequeue(w)
        PROVE  MpscUnique'
    <2>1. mpsc[w] \in Seq(Delivery) /\ mpsc[w] # <<>> /\ mpsc' = [mpsc EXCEPT ![w] = Tail(mpsc[w])]
      BY <1>0, <1>3, DequeueEffect
    <2>2. Distinct(Tail(mpsc[w]))
      BY <1>0, <2>1, TailItems DEF MpscUnique
    <2> QED
      BY <1>0, <2>1, <2>2 DEF MpscUnique
  <1>4. ASSUME NEW w \in Worker, Crash(w)
        PROVE  MpscUnique'
    <2>1. mpsc' = [mpsc EXCEPT ![w] = <<>>]
      BY <1>0, <1>4, CrashEffect
    <2>2. Distinct(<<>>)
      BY DEF Distinct
    <2> QED
      BY <1>0, <2>1, <2>2 DEF MpscUnique
  <1>5. CASE DoPush \/ DoTrack \/ DoReject \/ DoError
    <2>1. UNCHANGED mpsc
      BY <1>5 DEF DoPush, DoTrack, DoReject, DoError, Push, Track, Reject, ConsumerError
    <2> QED
      BY <1>1, <2>1
  <1> QED
    BY <1>1, <1>2, <1>3, <1>4, <1>5, Frames DEF DoSend, DoDequeue, DoCrash

\* Executions end, one goes on, or one begins.
Follows(w, j, k) == Becomes(w, j, k) /\ k.task = j.task /\ k.chan = j.chan /\ k.tag = j.tag

LEMMA JobKinds ==
  ASSUME BaseInv, TagInv, [Next]_vars
  PROVE  \/ \A v \in Worker : jobs'[v] \subseteq jobs[v]
         \/ \E w \in Worker : \E j \in jobs[w], k \in Job : Follows(w, j, k) /\ InFlight' \subseteq InFlight
         \/ DoDequeue
  <1>0. TypeInv
    BY DEF BaseInv
  <1>1. CASE UNCHANGED jobs
    BY <1>1
  <1>2. ASSUME NEW w \in Worker, NEW j \in jobs[w], Ends(w, j)
        PROVE  \A v \in Worker : jobs'[v] \subseteq jobs[v]
    BY <1>0, <1>2, EndsMember
  <1>3. ASSUME NEW w \in Worker, NEW j \in jobs[w], NotDue(w, j) \/ Succeed(w, j) \/ Fail(w, j)
        PROVE  \E k \in Job : Follows(w, j, k) /\ InFlight' \subseteq InFlight
    <2>1. PICK k \in Job : Follows(w, j, k) /\ UNCHANGED <<inbox, hand, mpsc>>
      BY <1>0, <1>3, RunEffect DEF Follows
    <2> QED
      BY <2>1 DEF InFlight, Items
  <1>4. ASSUME NEW w \in Worker, NEW j \in jobs[w], Ack(w, j) \/ Nack(w, j) \/ DeadLetter(w, j)
        PROVE  Ends(w, j) \/ \E k \in Job : Follows(w, j, k) /\ InFlight' \subseteq InFlight
    <2>1. CASE Ends(w, j)
      BY <2>1
    <2>2. CASE ~ Ends(w, j)
      <3>1. PICK k \in Job : Follows(w, j, k)
        BY <1>4, <2>2, SettleEffect DEF Follows
      <3>2. UNCHANGED <<inbox, hand, mpsc>>
        BY <1>4, SettleEffect
      <3> QED
        BY <3>1, <3>2 DEF InFlight, Items
    <2> QED
      BY <2>1, <2>2
  <1>5. CASE DoSchedule
    BY <1>0, <1>2, <1>5, ScheduleEffect DEF DoSchedule
  <1>6. ASSUME NEW w \in Worker, Crash(w)
        PROVE  \A v \in Worker : jobs'[v] \subseteq jobs[v]
    <2>1. jobs' = [jobs EXCEPT ![w] = {}]
      BY <1>0, <1>6, CrashEffect
    <2> QED
      BY <1>0, <2>1 DEF TypeInv, TypeOK
  <1> QED
    BY <1>1, <1>2, <1>3, <1>4, <1>5, <1>6, Frames DEF DoRun, DoSettle, DoCrash

LEMMA JobUniqueStep ==
  ASSUME BaseInv, TagInv, UniqueInv, [Next]_vars
  PROVE  JobUnique' /\ NotYetRun'
  <1>0. TypeInv /\ JobUnique /\ NotYetRun
    BY DEF BaseInv, UniqueInv
  <1>1. ASSUME \A v \in Worker : jobs'[v] \subseteq jobs[v]
        PROVE  JobUnique' /\ NotYetRun'
    <2>1. JobUnique'
      BY <1>0, <1>1 DEF JobUnique
    <2>2. CASE InFlight' \subseteq InFlight
      BY <1>0, <1>1, <2>1, <2>2 DEF NotYetRun
    <2>3. ASSUME NEW c \in Channel, NEW s \in Held, Push(c, s)
          PROVE  JobUnique' /\ NotYetRun'
      <3>1. PICK d \in Delivery : inbox' = inbox \cup {d} /\ d.chan = c /\ d.tag = NewTag(c) /\ UNCHANGED <<hand, mpsc>>
        BY <2>3, PushEffect
      <3>2. InFlight' = InFlight \cup {d}
        BY <3>1 DEF InFlight, Items
      <3>3. \A w \in Worker : \A j \in jobs[w] : ~ Same(d, j)
        BY <3>1, PushFresh
      <3> QED
        BY <1>0, <1>1, <2>1, <3>2, <3>3 DEF NotYetRun
    <2> QED
      BY <2>2, <2>3, FlightShrinks
  <1>2. ASSUME NEW w \in Worker, NEW j \in jobs[w], NEW k \in Job, Follows(w, j, k), InFlight' \subseteq InFlight
        PROVE  JobUnique' /\ NotYetRun'
    <2>1. ASSUME NEW v \in Worker, NEW i
          PROVE  i \in jobs'[v] <=> \/ i \in jobs[v] /\ ~ (v = w /\ i = j)
                                    \/ v = w /\ i = k
      BY <1>0, <1>2, BecomesMember DEF Follows
    <2>2. Same(j, k)
      BY <1>2 DEF Follows, Same
    <2>3. JobUnique'
      BY <1>0, <2>1, <2>2 DEF JobUnique, Same
    <2>4. NotYetRun'
      BY <1>0, <1>2, <2>1, <2>2 DEF NotYetRun, Same
    <2> QED
      BY <2>3, <2>4
  <1>3. ASSUME NEW w \in Worker, Dequeue(w)
        PROVE  JobUnique' /\ NotYetRun'
    <2>1. PICK h : /\ h \in InFlight /\ jobs' = [jobs EXCEPT ![w] = @ \cup {FirstRun(h)}]
                   /\ \A m \in InFlight' : m \in InFlight /\ ~ Same(m, h)
      BY <1>3, DequeueFresh
    <2> DEFINE k == FirstRun(h)
    <2>2. k.chan = h.chan /\ k.tag = h.tag
      BY DEF FirstRun
    <2>3. \A v \in Worker : jobs'[v] = IF v = w THEN jobs[v] \cup {k} ELSE jobs[v]
      BY <1>0, <2>1 DEF TypeInv, TypeOK
    <2> HIDE DEF k
    <2>4. ASSUME NEW v \in Worker, NEW i \in jobs'[v]
          PROVE  i \in jobs[v] \/ (v = w /\ i = k)
      BY <2>3
    <2>5. \A i \in jobs[w] : ~ Same(i, k)
      BY <1>0, <2>1, <2>2 DEF NotYetRun, Same
    <2>6. JobUnique'
      BY <1>0, <2>4, <2>5 DEF JobUnique, Same
    <2>7. NotYetRun'
      BY <1>0, <2>1, <2>2, <2>4 DEF NotYetRun, Same
    <2> QED
      BY <2>6, <2>7
  <1> QED
    BY <1>1, <1>2, <1>3, JobKinds DEF DoDequeue

LEMMA UniqueStep ==
  ASSUME BaseInv, TagInv, UniqueInv, [Next]_vars
  PROVE  UniqueInv'
  BY FlightUniqueStep, FlightApartStep, MpscUniqueStep, JobUniqueStep DEF UniqueInv

-----------------------------------------------------------------------------
(* Retry counts *)

\* The handler has failed in the first run and in all retries.
Exhausted(t) == failures[t] > MaxRetries[t]

\* RabbitMQ has only bodies nobody has counted a retry in, and buries only what
\* cannot be read or has failed often enough.
CountCopies == \A s \in Held : /\ msgs[s].retries = 0
                               /\ msgs[s].place \in {"dlq", "got"} => s[1] \in Garbage \/ Exhausted(s[1])
CountFlight == \A m \in InFlight : m.retries = 0
CountJobs == \A w \in Worker : \A j \in jobs[w] :
                /\ j.step # "backoff" => j.retries = 0
                /\ j.step = "bury" => Exhausted(j.task)

CountInv == CountCopies /\ CountFlight /\ CountJobs

\* No step takes a failure back, and a run that fails is counted.
LEMMA FailuresGrow ==
  ASSUME TypeInv, [Next]_vars
  PROVE  /\ \A t \in Task : Exhausted(t) => Exhausted(t)'
         /\ \A w \in Worker : \A j \in jobs[w] : Fail(w, j) /\ MaxRetries[j.task] = 0 => Exhausted(j.task)'
  <1>0. failures \in [Task -> 0..MaxFailures] /\ MaxFailures \in Nat /\ \A t \in Task : MaxRetries[t] \in Nat
    BY AmqpAssumption DEF TypeInv, TypeOK
  <1>1. ASSUME NEW t \in Task, OneMoreFailure(t)
        PROVE  failures'[t] > 0 /\ \A u \in Task : Exhausted(u) => Exhausted(u)'
    <2>1. MaxRetries[t] < MaxFailures
      BY AmqpAssumption
    <2>2. CASE failures[t] < MaxFailures
      BY <1>0, <1>1, <2>2 DEF OneMoreFailure, Exhausted
    <2>3. CASE ~ (failures[t] < MaxFailures)
      BY <1>0, <1>1, <2>1, <2>3 DEF OneMoreFailure, Exhausted
    <2> QED
      BY <2>2, <2>3
  <1>2. ASSUME NEW w \in Worker, NEW j \in jobs[w], Fail(w, j)
        PROVE  OneMoreFailure(j.task) /\ j.task \in Task
    BY <1>2, JobType DEF Fail
  <1>3. UNCHANGED failures \/ \E w \in Worker : \E j \in jobs[w] : Fail(w, j)
    <2>1. CASE UNCHANGED vars \/ (\E t \in Task : EtaPasses(t))
      BY <2>1 DEF vars, EtaPasses
    <2>2. CASE DoEnqueue \/ DoMove \/ DoEnsure \/ DoPush \/ DoTrack \/ DoReject \/ DoSend \/ DoError
      BY <2>2 DEF DoEnqueue, DoMove, DoEnsure, DoPush, DoTrack, DoReject, DoSend, DoError, Enqueue, Release,
         GetDlq, PutBackDlq, EnsureConsumer, Push, Track, Reject, Send, ConsumerError
    <2>3. CASE DoClose \/ DoCrash \/ DoDequeue \/ DoSettle \/ DoSchedule
      BY <2>3 DEF DoClose, DoCrash, DoDequeue, DoSettle, DoSchedule, Closes, Crash, Dequeue, Ack, Nack, DeadLetter,
         Schedule
    <2>4. CASE DoRun
      BY <2>4 DEF DoRun, NotDue, Succeed
    <2> QED
      BY <2>1, <2>2, <2>3, <2>4, NextParts
         DEF DoEnqueue, DoMove, DoEnsure, DoPush, DoTrack, DoReject, DoSend, DoError, DoClose, DoCrash,
             DoDequeue, DoRun, DoSettle, DoSchedule
  <1>4. \A t \in Task : Exhausted(t) => Exhausted(t)'
    BY <1>1, <1>2, <1>3 DEF Exhausted
  <1>5. ASSUME NEW w \in Worker, NEW j \in jobs[w], Fail(w, j), MaxRetries[j.task] = 0
        PROVE  Exhausted(j.task)'
    BY <1>1, <1>2, <1>5 DEF Exhausted
  <1> QED
    BY <1>4, <1>5

LEMMA CountCopiesKept ==
  ASSUME TypeInv, CountCopies, [Next]_vars, NEW s \in Slot, NEW m \in Message, msgs' = [msgs EXCEPT ![s] = m],
         m.retries = 0, m.place \in {"dlq", "got"} => s[1] \in Garbage \/ Exhausted(s[1])
  PROVE  CountCopies'
  <1>1. Held' = Held \cup {s} /\ msgs'[s] = m /\ \A r \in Held : r # s => msgs'[r] = msgs[r]
    BY HeldAfter DEF Held
  <1>2. \A r \in Held \cup {s} : r[1] \in Task
    BY DEF Held, Slot
  <1>3. \A r \in Held \cup {s} : Exhausted(r[1]) => Exhausted(r[1])'
    BY <1>2, FailuresGrow
  <1> HIDE DEF Exhausted
  <1> QED
    BY <1>1, <1>3 DEF CountCopies

LEMMA CountCopiesStep ==
  ASSUME BaseInv, TagInv, CountInv, [Next]_vars
  PROVE  CountCopies'
  <1>0. TypeInv /\ CountCopies /\ CountJobs /\ Held \subseteq Slot
    BY DEF BaseInv, CountInv, Held
  <1>grow. \A s \in Held : Exhausted(s[1]) => Exhausted(s[1])'
    BY <1>0, HeldType, FailuresGrow
  <1>1. CASE UNCHANGED msgs
    <2>1. Held' = Held /\ \A s \in Held : msgs'[s] = msgs[s]
      BY <1>1 DEF Held
    <2> QED
      BY <1>0, <1>grow, <2>1 DEF CountCopies
  <1>2. CASE DoEnqueue
    BY <1>0, <1>2, EnqueueEffect, CountCopiesKept DEF DoEnqueue
  <1>3. ASSUME NEW s \in Held, Release(s) \/ GetDlq(s) \/ PutBackDlq(s)
        PROVE  CountCopies'
    BY <1>0, <1>3, MoveEffect, CountCopiesKept DEF CountCopies
  <1>4. ASSUME NEW c \in Channel, NEW s \in Held, Push(c, s)
        PROVE  CountCopies'
    BY <1>0, <1>4, PushEffect, CountCopiesKept DEF CountCopies
  <1>5. ASSUME NEW c \in Channel, NEW m \in inbox, Reject(c, m)
        PROVE  CountCopies'
    BY <1>0, <1>1, <1>5, RejectEffect, CountCopiesKept DEF CountCopies
  <1>6. ASSUME NEW C, msgs' = Requeued(C)
        PROVE  CountCopies'
    BY <1>0, <1>grow, <1>6, RequeuedEffect DEF CountCopies
  <1>7. CASE DoClose \/ DoCrash
    BY <1>0, <1>6, <1>7, ClosesEffect, CrashEffect DEF DoClose, DoCrash
  <1>8. ASSUME NEW w \in Worker, NEW j \in jobs[w], Ack(w, j) \/ Nack(w, j) \/ DeadLetter(w, j)
        PROVE  CountCopies'
    <2>1. ASSUME NEW s \in Held, msgs' = [msgs EXCEPT ![s] = None]
          PROVE  CountCopies'
      BY <1>0, <1>grow, <2>1, NotHeldAfter DEF CountCopies
    <2>2. ASSUME NEW s \in Held, NEW b \in Message, msgs' = [msgs EXCEPT ![s] = b], s[1] = j.task,
                 b.retries = msgs[s].retries, b.place = IF j.step = "bury" THEN "dlq" ELSE "ready"
          PROVE  CountCopies'
      <3>1. b.retries = 0
        BY <1>0, <2>2 DEF CountCopies
      <3>2. b.place \in {"dlq", "got"} => Exhausted(s[1])
        BY <1>0, <2>2 DEF CountJobs
      <3> QED
        BY <1>0, <2>2, <3>1, <3>2, CountCopiesKept
    <2> QED
      BY <1>1, <1>8, <2>1, <2>2, SettleEffect
  <1>9. ASSUME NEW w \in Worker, NEW j \in jobs[w], Schedule(w, j)
        PROVE  CountCopies'
    <2>1. j.retries = 0
      BY <1>0, <1>9, ScheduleEffect DEF CountJobs
    <2> QED
      BY <1>0, <1>1, <1>9, <2>1, ScheduleEffect, CountCopiesKept
  <1> QED
    BY <1>1, <1>2, <1>3, <1>4, <1>5, <1>7, <1>8, <1>9, Frames DEF DoMove, DoPush, DoReject, DoSettle, DoSchedule

LEMMA CountStep ==
  ASSUME BaseInv, TagInv, UniqueInv, CountInv, [Next]_vars
  PROVE  CountInv'
  <1>0. TypeInv /\ CountCopies /\ CountFlight /\ CountJobs
    BY DEF BaseInv, CountInv
  <1>grow. \A w \in Worker : \A j \in jobs[w] : Exhausted(j.task) => Exhausted(j.task)'
    BY <1>0, JobType, FailuresGrow
  <1>1. CountFlight'
    <2>1. CASE InFlight' \subseteq InFlight
      BY <1>0, <2>1 DEF CountFlight
    <2>2. ASSUME NEW c \in Channel, NEW s \in Held, Push(c, s)
          PROVE  CountFlight'
      <3>1. PICK d \in Delivery : inbox' = inbox \cup {d} /\ d.retries = msgs[s].retries /\ UNCHANGED <<hand, mpsc>>
        BY <2>2, PushEffect
      <3>2. InFlight' = InFlight \cup {d}
        BY <3>1 DEF InFlight, Items
      <3> QED
        BY <1>0, <3>1, <3>2 DEF CountFlight, CountCopies
    <2> QED
      BY <2>1, <2>2, FlightShrinks
  <1>2. CountJobs'
    <2>1. ASSUME \A v \in Worker : jobs'[v] \subseteq jobs[v]
          PROVE  CountJobs'
      BY <1>0, <1>grow, <2>1 DEF CountJobs
    <2>2. ASSUME NEW w \in Worker, NEW j \in jobs[w], NEW k \in Job, Becomes(w, j, k),
                 k.step # "backoff" => k.retries = 0, k.step = "bury" => Exhausted(k.task)'
          PROVE  CountJobs'
      BY <1>0, <1>grow, <2>2, BecomesMember DEF CountJobs
    <2>3. ASSUME NEW w \in Worker, NEW j \in jobs[w], NotDue(w, j) \/ Succeed(w, j) \/ Fail(w, j)
          PROVE  CountJobs'
      <3>1. PICK k \in Job : /\ Becomes(w, j, k) /\ k.task = j.task /\ j.step = "run"
                             /\ k.step # "backoff" => k.retries = j.retries
                             /\ k.step = "bury" => ~ (j.retries < MaxRetries[j.task]) /\ Fail(w, j)
        BY <1>0, <2>3, RunEffect
      <3>2. j.retries = 0 /\ MaxRetries[j.task] \in Nat
        BY <1>0, <3>1, JobType, AmqpAssumption DEF CountJobs
      <3>3. k.step = "bury" => Exhausted(k.task)'
        <4>1. k.step = "bury" => MaxRetries[j.task] = 0 /\ Fail(w, j)
          BY <3>1, <3>2
        <4> QED
          BY <1>0, <3>1, <4>1, FailuresGrow
      <3> QED
        BY <2>2, <3>1, <3>2, <3>3
    <2>4. ASSUME NEW w \in Worker, NEW j \in jobs[w], Ack(w, j) \/ Nack(w, j) \/ DeadLetter(w, j)
          PROVE  CountJobs'
      <3>1. CASE Ends(w, j)
        BY <1>0, <1>grow, <3>1, EndsMember DEF CountJobs
      <3>2. CASE ~ Ends(w, j)
        <4>1. PICK k \in Job : Becomes(w, j, k) /\ k.retries = j.retries /\ k.step = "schedule" /\ j.step = "etaAck"
          BY <2>4, <3>2, SettleEffect
        <4>2. k.retries = 0 /\ k.step # "bury"
          BY <1>0, <4>1 DEF CountJobs
        <4> QED
          BY <2>2, <4>1, <4>2
      <3> QED
        BY <3>1, <3>2
    <2>5. ASSUME NEW w \in Worker, NEW j \in jobs[w], Schedule(w, j)
          PROVE  CountJobs'
      BY <1>0, <1>grow, <2>5, ScheduleEffect, EndsMember DEF CountJobs
    <2>6. ASSUME NEW w \in Worker, Dequeue(w)
          PROVE  CountJobs'
      <3>1. PICK h : h \in InFlight /\ jobs' = [jobs EXCEPT ![w] = @ \cup {FirstRun(h)}]
        BY <2>6, DequeueFresh
      <3> DEFINE k == FirstRun(h)
      <3>2. k.retries = 0 /\ k.step = "run"
        BY <1>0, <3>1 DEF FirstRun, CountFlight
      <3>3. \A v \in Worker : jobs'[v] \subseteq jobs[v] \cup {k}
        BY <1>0, <3>1 DEF TypeInv, TypeOK
      <3> HIDE DEF k
      <3> QED
        BY <1>0, <1>grow, <3>2, <3>3 DEF CountJobs
    <2>7. ASSUME NEW w \in Worker, Crash(w)
          PROVE  \A v \in Worker : jobs'[v] \subseteq jobs[v]
      <3>1. jobs' = [jobs EXCEPT ![w] = {}]
        BY <1>0, <2>7, CrashEffect
      <3> QED
        BY <1>0, <3>1 DEF TypeInv, TypeOK
    <2> QED
      BY <2>1, <2>3, <2>4, <2>5, <2>6, <2>7, Frames DEF DoRun, DoSettle, DoSchedule, DoDequeue, DoCrash
  <1> QED
    BY <1>1, <1>2, CountCopiesStep DEF CountInv

-----------------------------------------------------------------------------
(* What becomes of a task *)

\* Nothing is known of a task nobody has sent.
Unknown(t) == /\ \A s \in Held : s[1] # t
              /\ \A m \in InFlight : m.task # t
              /\ \A w \in Worker : \A j \in jobs[w] : j.task # t
Stored(t) == \E s \in Held : s[1] = t
ToSchedule(t) == \E w \in Worker : \E j \in jobs[w] : j.task = t /\ j.step = "schedule"

NewInv == \A t \in Task : fate[t] = "new" => Unknown(t)
AckInv == \A w \in Worker : \A j \in jobs[w] : j.step = "ack" => fate[j.task] \notin {"new", "sent"}
SentInv == \A t \in Task : fate[t] = "sent" => Stored(t) \/ ToSchedule(t)

FateInv == NewInv /\ AckInv /\ SentInv

\* A slot that is filled is filled by a producer or by the eta guard.
LEMMA HeldFrom ==
  ASSUME BaseInv, TagInv, [Next]_vars, NEW s \in Held', s \notin Held
  PROVE  \/ s[1] \in Task /\ Enqueue(s[1])
         \/ \E w \in Worker : \E j \in jobs[w] : j.task = s[1] /\ Schedule(w, j)
  <1>0. TypeInv /\ Held \subseteq Slot
    BY DEF BaseInv, Held
  <1>1. CASE UNCHANGED msgs
    BY <1>1 DEF Held
  <1>2. ASSUME NEW t \in Task, Enqueue(t)
        PROVE  s[1] = t
    <2>1. PICK r \in Slot, m \in Message : r[1] = t /\ msgs' = [msgs EXCEPT ![r] = m]
      BY <1>0, <1>2, EnqueueEffect
    <2>2. Held' = Held \cup {r}
      BY <1>0, <2>1, HeldAfter
    <2> QED
      BY <2>1, <2>2
  <1>3. ASSUME NEW r \in Held, NEW m \in Message, msgs' = [msgs EXCEPT ![r] = m]
        PROVE  FALSE
    <2>1. Held' = Held \cup {r}
      BY <1>0, <1>3, HeldAfter
    <2> QED
      BY <2>1
  <1>4. CASE DoMove
    BY <1>3, <1>4, MoveEffect DEF DoMove
  <1>5. CASE DoPush
    BY <1>3, <1>5, PushEffect DEF DoPush
  <1>6. CASE DoReject
    BY <1>1, <1>3, <1>6, RejectEffect DEF DoReject
  <1>7. CASE DoClose \/ DoCrash
    BY <1>0, <1>7, ClosesEffect, CrashEffect, RequeuedEffect DEF DoClose, DoCrash
  <1>8. CASE DoSettle
    <2>1. ASSUME NEW r \in Held, msgs' = [msgs EXCEPT ![r] = None]
          PROVE  FALSE
      BY <1>0, <2>1, NotHeldAfter
    <2> QED
      BY <1>1, <1>3, <1>8, <2>1, SettleEffect DEF DoSettle
  <1>9. ASSUME NEW w \in Worker, NEW j \in jobs[w], Schedule(w, j)
        PROVE  j.task = s[1]
    <2>1. \/ UNCHANGED msgs
          \/ \E r \in Slot, m \in Message : r[1] = j.task /\ msgs' = [msgs EXCEPT ![r] = m]
      BY <1>0, <1>9, ScheduleEffect
    <2>2. ASSUME NEW r \in Slot, NEW m \in Message, r[1] = j.task, msgs' = [msgs EXCEPT ![r] = m]
          PROVE  j.task = s[1]
      <3>1. Held' = Held \cup {r}
        BY <1>0, <2>2, HeldAfter
      <3> QED
        BY <2>2, <3>1
    <2>3. CASE UNCHANGED msgs
      BY <2>3 DEF Held
    <2> QED
      BY <2>1, <2>2, <2>3
  <1> QED
    BY <1>1, <1>2, <1>4, <1>5, <1>6, <1>7, <1>8, <1>9, Frames DEF DoEnqueue, DoSchedule

\* A slot is emptied by an acknowledgement only.
LEMMA HeldUntil ==
  ASSUME BaseInv, TagInv, [Next]_vars, NEW s \in Held, s \notin Held'
  PROVE  \E w \in Worker : \E j \in jobs[w] :
            /\ Ack(w, j) /\ Names(w, j.task, s) /\ s[1] = j.task /\ j.step \in {"ack", "etaAck"}
            /\ msgs' = [msgs EXCEPT ![s] = None]
  <1>0. TypeInv /\ Held \subseteq Slot
    BY DEF BaseInv, Held
  <1>1. CASE UNCHANGED msgs
    BY <1>1 DEF Held
  <1>2. CASE Adds \/ Replaces
    BY <1>0, <1>2, HeldAfter DEF Adds, Replaces
  <1>3. CASE DoEnqueue
    BY <1>0, <1>2, <1>3, EnqueueEffect DEF DoEnqueue, Adds
  <1>4. CASE DoMove
    BY <1>0, <1>4, MoveEffect, HeldAfter DEF DoMove
  <1>5. CASE DoPush
    BY <1>0, <1>5, PushEffect, HeldAfter DEF DoPush
  <1>6. CASE DoReject
    BY <1>0, <1>1, <1>6, RejectEffect, HeldAfter DEF DoReject
  <1>7. CASE DoClose \/ DoCrash
    BY <1>0, <1>7, ClosesEffect, CrashEffect, RequeuedEffect DEF DoClose, DoCrash
  <1>8. ASSUME NEW w \in Worker, NEW j \in jobs[w], Ack(w, j) \/ Nack(w, j) \/ DeadLetter(w, j)
        PROVE  /\ Ack(w, j) /\ Names(w, j.task, s) /\ s[1] = j.task /\ j.step \in {"ack", "etaAck"}
               /\ msgs' = [msgs EXCEPT ![s] = None]
    <2>1. ASSUME NEW r \in Held, NEW b \in Message, msgs' = [msgs EXCEPT ![r] = b]
          PROVE  FALSE
      BY <1>0, <2>1, HeldAfter
    <2>2. PICK r \in Held : /\ Names(w, j.task, r) /\ r[1] = j.task /\ j.step \in {"ack", "etaAck"}
                            /\ msgs' = [msgs EXCEPT ![r] = None]
      <3>1. ~ UNCHANGED msgs
        BY DEF Held
      <3> QED
        BY <1>8, <2>1, <3>1, SettleEffect
    <2>3. r = s
      <3>1. Held' = Held \ {r}
        BY <1>0, <2>2, NotHeldAfter
      <3> QED
        BY <3>1
    <2>4. Ack(w, j)
      BY <1>8, <2>2 DEF Nack, DeadLetter
    <2> QED
      BY <2>2, <2>3, <2>4
  <1>9. CASE DoSchedule
    BY <1>0, <1>1, <1>9, ScheduleEffect, HeldAfter DEF DoSchedule
  <1> QED
    BY <1>1, <1>3, <1>4, <1>5, <1>6, <1>7, <1>8, <1>9, Frames DEF DoSettle

\* What is on its way or executed was stored, on its way or executed before.
LEMMA FlightFrom ==
  ASSUME BaseInv, TagInv, [Next]_vars, NEW m \in InFlight'
  PROVE  m \in InFlight \/ \E s \in Held : s[1] = m.task
  <1>1. ASSUME NEW c \in Channel, NEW s \in Held, Push(c, s)
        PROVE  m \in InFlight \/ s[1] = m.task
    <2>1. PICK d \in Delivery : inbox' = inbox \cup {d} /\ d.task = s[1] /\ UNCHANGED <<hand, mpsc>>
      BY <1>1, PushEffect
    <2> QED
      BY <2>1 DEF InFlight, Items
  <1> QED
    BY <1>1, FlightShrinks

LEMMA JobFrom ==
  ASSUME BaseInv, TagInv, UniqueInv, [Next]_vars, NEW v \in Worker, NEW i \in jobs'[v]
  PROVE  \/ \E j \in jobs[v] : i.task = j.task
         \/ \E m \in InFlight : i.task = m.task
  <1>0. TypeInv
    BY DEF BaseInv
  <1>1. CASE \A w \in Worker : jobs'[w] \subseteq jobs[w]
    BY <1>1
  <1>2. ASSUME NEW w \in Worker, NEW j \in jobs[w], NEW k \in Job, Follows(w, j, k)
        PROVE  \E x \in jobs[v] : i.task = x.task
    BY <1>0, <1>2, BecomesMember DEF Follows
  <1>3. ASSUME NEW w \in Worker, Dequeue(w)
        PROVE  i \in jobs[v] \/ \E m \in InFlight : i.task = m.task
    <2>1. PICK h : h \in InFlight /\ jobs' = [jobs EXCEPT ![w] = @ \cup {FirstRun(h)}]
      BY <1>3, DequeueFresh
    <2>2. FirstRun(h).task = h.task
      BY DEF FirstRun
    <2> HIDE DEF FirstRun
    <2> QED
      BY <1>0, <2>1, <2>2 DEF TypeInv, TypeOK
  <1> QED
    BY <1>1, <1>2, <1>3, JobKinds DEF DoDequeue

\* How the fate of a task changes.
LEMMA FateChange ==
  ASSUME BaseInv, TagInv, [Next]_vars, NEW t \in Task
  PROVE  /\ fate'[t] = "new" => fate[t] = "new" /\ ~ Enqueue(t)
         /\ fate'[t] = "sent" => fate[t] = "sent" \/ Enqueue(t)
         /\ fate[t] # "new" /\ fate[t] # "sent" => fate'[t] # "new" /\ fate'[t] # "sent"
  <1>0. TypeInv /\ fate \in [Task -> Fates]
    BY TypeParts DEF BaseInv
  <1>1. CASE UNCHANGED fate
    <2>1. ~ (fate[t] = "new" /\ Enqueue(t))
      <3> SUFFICES ASSUME Enqueue(t) PROVE fate[t] # "new"
        OBVIOUS
      <3>1. fate[t] = "new" /\ fate' = [fate EXCEPT ![t] = "sent"]
        BY <1>0, EnqueueEffect
      <3> QED
        BY <1>0, <1>1, <3>1
    <2> QED
      BY <1>1, <2>1
  <1>2. ASSUME NEW u \in Task, Enqueue(u)
        PROVE  /\ fate'[t] = "new" => fate[t] = "new" /\ t # u
               /\ fate'[t] = "sent" => fate[t] = "sent" \/ t = u
               /\ fate[t] # "new" /\ fate[t] # "sent" => fate'[t] # "new" /\ fate'[t] # "sent"
    BY <1>0, <1>2, EnqueueEffect
  <1>3. ASSUME \A u \in Task : fate'[u] = fate[u] \/ fate'[u] \in {"done", "dropped"}
        PROVE  /\ fate'[t] = "new" => fate[t] = "new" /\ ~ Enqueue(t)
               /\ fate'[t] = "sent" => fate[t] = "sent" \/ Enqueue(t)
               /\ fate[t] # "new" /\ fate[t] # "sent" => fate'[t] # "new" /\ fate'[t] # "sent"
    <2>1. Enqueue(t) => fate'[t] = "sent"
      BY <1>0, EnqueueEffect
    <2> QED
      BY <1>3, <2>1
  <1>4. CASE DoRun
    BY <1>0, <1>3, <1>4, RunEffect DEF DoRun
  <1>5. CASE DoSchedule
    BY <1>0, <1>3, <1>5, ScheduleEffect DEF DoSchedule
  <1>6. CASE DoCrash
    <2>1. PICK w \in Worker : fate' = [u \in Task |-> IF \E j \in jobs[w] : j.task = u /\ j.step = "schedule"
                                                      THEN "dropped" ELSE fate[u]]
      BY <1>0, <1>6, CrashEffect DEF DoCrash
    <2>2. \A u \in Task : fate'[u] = fate[u] \/ fate'[u] \in {"done", "dropped"}
      BY <2>1
    <2> QED
      BY <1>3, <2>2
  <1>7. CASE DoEnqueue
    <2>1. PICK u \in Task : Enqueue(u)
      BY <1>7 DEF DoEnqueue
    <2>2. Enqueue(t) => fate'[t] = "sent"
      BY <1>0, EnqueueEffect
    <2> QED
      BY <1>2, <2>1, <2>2
  <1> QED
    BY <1>1, <1>4, <1>5, <1>6, <1>7, Frames

LEMMA NewStep ==
  ASSUME BaseInv, TagInv, UniqueInv, FateInv, [Next]_vars
  PROVE  NewInv'
  <1> SUFFICES ASSUME NEW t \in Task, fate'[t] = "new"
               PROVE  Unknown(t)'
    BY DEF NewInv
  <1>1. Unknown(t) /\ ~ Enqueue(t)
    BY FateChange DEF FateInv, NewInv
  <1>2. \A s \in Held' : s[1] # t
    BY <1>1, HeldFrom DEF Unknown
  <1>3. \A m \in InFlight' : m.task # t
    BY <1>1, FlightFrom DEF Unknown
  <1>4. \A w \in Worker : \A j \in jobs'[w] : j.task # t
    BY <1>1, JobFrom DEF Unknown
  <1> QED
    BY <1>2, <1>3, <1>4 DEF Unknown

LEMMA AckStep ==
  ASSUME BaseInv, TagInv, UniqueInv, FateInv, [Next]_vars
  PROVE  AckInv'
  <1> SUFFICES ASSUME NEW v \in Worker, NEW i \in jobs'[v], i.step = "ack"
               PROVE  fate'[i.task] \notin {"new", "sent"}
    BY DEF AckInv
  <1>0. TypeInv /\ fate \in [Task -> Fates] /\ i.task \in Task
    <2>1. JobsOK'
      BY JobsStep
    <2> QED
      BY <2>1, TypeParts DEF BaseInv, JobsOK, Job
  <1>1. ASSUME i \in jobs[v]
        PROVE  fate'[i.task] \notin {"new", "sent"}
    BY <1>0, <1>1, FateChange DEF FateInv, AckInv
  <1>2. ASSUME NEW w \in Worker, NEW j \in jobs[w], NotDue(w, j) \/ Succeed(w, j) \/ Fail(w, j)
        PROVE  fate'[i.task] \notin {"new", "sent"}
    <2>1. PICK k \in Job : /\ Becomes(w, j, k) /\ k.task = j.task
                           /\ k.step = "ack" => fate' = [fate EXCEPT ![j.task] = "done"]
      BY <1>0, <1>2, RunEffect
    <2>2. i \in jobs[v] \/ i = k
      BY <1>0, <2>1, BecomesMember
    <2> QED
      BY <1>0, <1>1, <2>1, <2>2
  <1>3. ASSUME NEW w \in Worker, NEW j \in jobs[w], Ack(w, j) \/ Nack(w, j) \/ DeadLetter(w, j)
        PROVE  i \in jobs[v]
    <2>1. CASE Ends(w, j)
      BY <1>0, <2>1, EndsMember
    <2>2. CASE ~ Ends(w, j)
      <3>1. PICK k \in Job : Becomes(w, j, k) /\ k.step = "schedule"
        BY <1>3, <2>2, SettleEffect
      <3> QED
        BY <1>0, <3>1, BecomesMember
    <2> QED
      BY <2>1, <2>2
  <1>4. ASSUME NEW w \in Worker, Dequeue(w)
        PROVE  i \in jobs[v]
    <2>1. PICK h : jobs' = [jobs EXCEPT ![w] = @ \cup {FirstRun(h)}]
      BY <1>4, DequeueFresh
    <2>2. FirstRun(h).step = "run"
      BY DEF FirstRun
    <2> HIDE DEF FirstRun
    <2> QED
      BY <1>0, <2>1, <2>2 DEF TypeInv, TypeOK
  <1>5. CASE UNCHANGED jobs
    BY <1>1, <1>5
  <1>6. CASE DoSchedule
    BY <1>0, <1>1, <1>6, ScheduleEffect, EndsMember DEF DoSchedule
  <1>7. ASSUME NEW w \in Worker, Crash(w)
        PROVE  i \in jobs[v]
    <2>1. jobs' = [jobs EXCEPT ![w] = {}]
      BY <1>0, <1>7, CrashEffect
    <2> QED
      BY <1>0, <2>1 DEF TypeInv, TypeOK
  <1> QED
    BY <1>1, <1>2, <1>3, <1>4, <1>5, <1>6, <1>7, Frames DEF DoRun, DoSettle, DoDequeue, DoCrash

\* An execution that is to schedule its task ends by doing so, or with its
\* process.
LEMMA ScheduleUntil ==
  ASSUME BaseInv, TagInv, [Next]_vars, NEW v \in Worker, NEW i \in jobs[v], i.step = "schedule", i \notin jobs'[v]
  PROVE  Schedule(v, i) \/ Crash(v)
  <1>0. TypeInv
    BY DEF BaseInv
  <1>1. ASSUME NEW w \in Worker, NEW j \in jobs[w], NotDue(w, j) \/ Succeed(w, j) \/ Fail(w, j)
        PROVE  FALSE
    <2>1. PICK k \in Job : Becomes(w, j, k) /\ j.step = "run"
      BY <1>0, <1>1, RunEffect
    <2> QED
      BY <1>0, <2>1, BecomesMember
  <1>2. ASSUME NEW w \in Worker, NEW j \in jobs[w], Ack(w, j) \/ Nack(w, j) \/ DeadLetter(w, j)
        PROVE  FALSE
    <2>1. j.step # "schedule" /\ (Ends(w, j) \/ \E k \in Job : Becomes(w, j, k))
      BY <1>2, SettleEffect
    <2> QED
      BY <1>0, <2>1, BecomesMember, EndsMember
  <1>3. ASSUME NEW w \in Worker, Dequeue(w)
        PROVE  FALSE
    <2> DEFINE k == FirstRun(Head(mpsc[w]))
    <2>1. jobs' = [jobs EXCEPT ![w] = @ \cup {k}]
      BY <1>0, <1>3, DequeueEffect
    <2> HIDE DEF k
    <2> QED
      BY <1>0, <2>1 DEF TypeInv, TypeOK
  <1>4. ASSUME NEW w \in Worker, NEW j \in jobs[w], Schedule(w, j)
        PROVE  w = v /\ j = i
    BY <1>0, <1>4, ScheduleEffect, EndsMember
  <1>5. ASSUME NEW w \in Worker, Crash(w)
        PROVE  w = v
    <2>1. jobs' = [jobs EXCEPT ![w] = {}]
      BY <1>0, <1>5, CrashEffect
    <2> QED
      BY <1>0, <2>1 DEF TypeInv, TypeOK
  <1> QED
    BY <1>1, <1>2, <1>3, <1>4, <1>5, Frames DEF DoRun, DoSettle, DoDequeue, DoSchedule, DoCrash

LEMMA SentStep ==
  ASSUME BaseInv, TagInv, UniqueInv, FateInv, [Next]_vars
  PROVE  SentInv'
  <1>0. TypeInv /\ fate \in [Task -> Fates] /\ AckInv /\ Held \subseteq Slot
    BY TypeParts DEF BaseInv, FateInv, Held
  <1> SUFFICES ASSUME NEW t \in Task, fate'[t] = "sent"
               PROVE  Stored(t)' \/ ToSchedule(t)'
    BY DEF SentInv
  <1>1. CASE Enqueue(t)
    <2>1. PICK r \in Slot, m \in Message : r[1] = t /\ msgs' = [msgs EXCEPT ![r] = m]
      BY <1>0, <1>1, EnqueueEffect
    <2>2. Held' = Held \cup {r}
      BY <1>0, <2>1, HeldAfter
    <2> QED
      BY <2>1, <2>2 DEF Stored
  <1>2. ASSUME fate[t] = "sent", NEW s \in Held, s[1] = t
        PROVE  Stored(t)' \/ ToSchedule(t)'
    <2>1. CASE s \in Held'
      BY <1>2, <2>1 DEF Stored
    <2>2. CASE s \notin Held'
      <3>5. PICK w \in Worker : \E j \in jobs[w] : Ack(w, j) /\ j.task = t /\ j.step \in {"ack", "etaAck"}
        BY <1>2, <2>2, HeldUntil
      <3>1. PICK j \in jobs[w] : Ack(w, j) /\ j.task = t /\ j.step \in {"ack", "etaAck"}
        BY <3>5
      <3>2. j.step = "etaAck"
        BY <1>0, <1>2, <3>1 DEF AckInv
      <3>3. PICK k \in Job : Becomes(w, j, k) /\ k.task = j.task /\ k.step = "schedule"
        BY <3>1, <3>2, SettleEffect
      <3>4. k \in jobs'[w]
        BY <1>0, <3>3, BecomesMember
      <3> QED
        BY <3>1, <3>3, <3>4 DEF ToSchedule
    <2> QED
      BY <2>1, <2>2
  <1>3. ASSUME fate[t] = "sent", NEW v \in Worker, NEW i \in jobs[v], i.task = t, i.step = "schedule"
        PROVE  Stored(t)' \/ ToSchedule(t)'
    <2>1. CASE i \in jobs'[v]
      BY <1>3, <2>1 DEF ToSchedule
    <2>2. CASE Schedule(v, i)
      <3>1. PICK r \in Slot, m \in Message : r[1] = t /\ msgs' = [msgs EXCEPT ![r] = m]
        BY <1>0, <1>3, <2>2, ScheduleEffect
      <3>2. Held' = Held \cup {r}
        BY <1>0, <3>1, HeldAfter
      <3> QED
        BY <3>1, <3>2 DEF Stored
    <2>3. CASE Crash(v)
      <3>1. fate' = [u \in Task |-> IF \E j \in jobs[v] : j.task = u /\ j.step = "schedule" THEN "dropped" ELSE fate[u]]
        BY <1>0, <2>3, CrashEffect
      <3>2. fate'[t] = "dropped"
        BY <1>3, <3>1
      <3> QED
        BY <3>2
    <2> QED
      BY <1>3, <2>1, <2>2, <2>3, ScheduleUntil
  <1> QED
    BY <1>1, <1>2, <1>3, FateChange DEF FateInv, SentInv, Stored, ToSchedule

LEMMA FateStep ==
  ASSUME BaseInv, TagInv, UniqueInv, FateInv, [Next]_vars
  PROVE  FateInv'
  BY NewStep, AckStep, SentStep DEF FateInv

-----------------------------------------------------------------------------
(* The copy a delivery and an execution stand for *)

\* A copy of the task waits for the acknowledgement of this delivery; its tag is
\* the entry of the task; the delivery is worth an acknowledgement.
Waits(m) == \E s \in Tagged(m.chan, m.tag) : s[1] = m.task
Entry(m) == deliveries[m.chan[1]][m.task] = <<m.chan, m.tag>>
Live(m) == Single(m.task) /\ chan[m.chan] = "open"

OneCopy == \A s, r \in Held : s[1] = r[1] /\ Single(s[1]) => s = r
FlightLive == \A m \in InFlight : Live(m) => Waits(m) /\ (m \notin inbox => Entry(m))
JobLive == \A w \in Worker : \A j \in jobs[w] : Live(j) /\ j.step # "schedule" => Waits(j) /\ Entry(j)
SchedInv == \A w \in Worker : \A j \in jobs[w] : j.step = "schedule" /\ Single(j.task) =>
                /\ ~ Stored(j.task)
                /\ \A v \in Worker : \A i \in jobs[v] : i.step = "schedule" /\ i.task = j.task => v = w /\ i = j

SingleInv == OneCopy /\ FlightLive /\ JobLive /\ SchedInv

LEMMA SingleBefore ==
  ASSUME BaseInv, TagInv, [Next]_vars, NEW t, Single(t)'
  PROVE  Single(t)
  <1>1. chan \in [Channel -> {"none", "open", "closed"}] /\ chan' \in [Channel -> {"none", "open", "closed"}]
    BY ChanStep DEF BaseInv, TypeInv, TypeOK
  <1>2. "closed" \in Range(chan) => "closed" \in Range(chan')
    BY <1>1, ChanStep DEF Range
  <1> QED
    BY <1>2 DEF Single

LEMMA LiveBefore ==
  ASSUME BaseInv, TagInv, [Next]_vars, NEW m, m.chan \in Channel, On(m), Live(m)'
  PROVE  Live(m)
  <1>1. chan'[m.chan] = "open" /\ Single(m.task)'
    BY DEF Live
  <1>2. chan[m.chan] = "open"
    BY <1>1, ChanStep DEF On
  <1> QED
    BY <1>1, <1>2, SingleBefore DEF Live

LEMMA SameChannel ==
  ASSUME NEW m, NEW d, m.chan \in Channel, d.chan \in Channel, On(m), On(d),
         m.task = d.task, m.chan[1] = d.chan[1]
  PROVE  m.chan = d.chan
  BY ChannelIs DEF On

LEMMA SameCopy ==
  ASSUME OneCopy, NEW m, NEW d, m.task = d.task, Single(m.task), Waits(m), Waits(d)
  PROVE  Same(m, d)
  BY DEF OneCopy, Waits, Tagged, Unacked, Same

\* ack, nack and dead_letter of an execution are about the only delivery of the
\* task that matters on their channel.
LEMMA SettleOwn ==
  ASSUME BaseInv, TagInv, SingleInv, NEW w \in Worker, NEW j \in jobs[w], j.step # "schedule",
         NEW m, m.chan \in Channel, On(m), Live(m), Waits(m), m.chan[1] = w, m.task = j.task
  PROVE  Same(j, m)
  <1>1. j.chan \in Channel /\ On(j) /\ j.chan[1] = w
    BY JobType DEF BaseInv, PlaceInv, JobInv
  <1>2. j.chan = m.chan
    BY <1>1, SameChannel
  <1>3. Live(j)
    BY <1>2 DEF Live
  <1>4. Waits(j)
    BY <1>3 DEF SingleInv, JobLive
  <1> QED
    BY <1>4, SameCopy DEF SingleInv, Live

LEMMA WaitsIs ==
  ASSUME BaseInv, NEW m, m.chan \in Channel, Waits(m)
  PROVE  \E s \in Held : msgs[s].chan = m.chan /\ msgs[s].tag = m.tag /\ s[1] = m.task /\ msgs[s].chan # None /\ s \in Slot
  <1>1. m.chan # None
    BY ChannelIs
  <1> QED
    BY <1>1 DEF Waits, Tagged, Unacked, Held

DoSettles(w, j) == Ack(w, j) \/ Nack(w, j) \/ DeadLetter(w, j)

\* A copy waits until its delivery is resolved or its channel closes.
LEMMA WaitsKept ==
  ASSUME BaseInv, TagInv, SingleInv, [Next]_vars,
         NEW m, m.chan \in Channel, On(m), Live(m)', Waits(m)
  PROVE  \/ Waits(m)'
         \/ \E c \in Channel : \E d \in inbox : Reject(c, d) /\ Same(d, m)
         \/ \E w \in Worker : \E j \in jobs[w] : DoSettles(w, j) /\ Same(j, m)
  <1>0. TypeInv /\ Live(m) /\ Held \subseteq Slot
    BY LiveBefore DEF BaseInv, Held
  <1>1. PICK s \in Held : /\ msgs[s].chan = m.chan /\ msgs[s].tag = m.tag /\ s[1] = m.task
                          /\ msgs[s].chan # None /\ s \in Slot
    BY WaitsIs
  <1>2. ASSUME msgs'[s] = msgs[s]
        PROVE  Waits(m)'
    <2>1. s \in Held'
      BY <1>1, <1>2 DEF Held
    <2> QED
      BY <1>1, <1>2, <2>1 DEF Waits, Tagged, Unacked
  <1>3. ASSUME NEW r \in Slot, NEW b, msgs' = [msgs EXCEPT ![r] = b], r # s
        PROVE  Waits(m)'
    <2>1. msgs'[s] = msgs[s]
      BY <1>0, <1>1, <1>3 DEF TypeInv, TypeOK
    <2> QED
      BY <1>2, <2>1
  <1>4. CASE UNCHANGED msgs
    BY <1>2, <1>4
  <1>5. CASE DoEnqueue
    BY <1>0, <1>3, <1>5, EnqueueEffect DEF DoEnqueue
  <1>6. ASSUME NEW r \in Held, Release(r) \/ GetDlq(r) \/ PutBackDlq(r)
        PROVE  Waits(m)'
    BY <1>0, <1>1, <1>3, <1>6, MoveEffect
  <1>7. ASSUME NEW c \in Channel, NEW r \in Held, Push(c, r)
        PROVE  Waits(m)'
    BY <1>0, <1>1, <1>3, <1>7, PushEffect
  <1>8. ASSUME NEW c \in Channel, NEW d \in inbox, Reject(c, d)
        PROVE  Waits(m)' \/ Same(d, m)
    <2>1. CASE UNCHANGED msgs
      BY <1>2, <2>1
    <2>2. ASSUME NEW r \in Held, NEW b, msgs[r].chan = d.chan, msgs[r].tag = d.tag, msgs' = [msgs EXCEPT ![r] = b]
          PROVE  Waits(m)' \/ Same(d, m)
      BY <1>0, <1>1, <1>3, <2>2 DEF Same
    <2> QED
      BY <1>8, <2>1, <2>2, RejectEffect
  <1>9. CASE DoClose
    <2>1. PICK c \in Channel : Closes(c)
      BY <1>9 DEF DoClose
    <2>2. msgs' = Requeued({c}) /\ chan' = [chan EXCEPT ![c] = "closed"]
      BY <1>0, <2>1, ClosesEffect
    <2>3. m.chan # c
      <3>1. chan'[m.chan] = "open" /\ chan'[c] = "closed"
        BY <1>0, <2>2 DEF Live, TypeInv, TypeOK
      <3> QED
        BY <3>1
    <2>5. msgs[s].chan \notin {c}
      BY <1>1, <2>3
    <2>4. msgs'[s] = msgs[s]
      BY <1>1, <2>2, <2>5, RequeuedEffect
    <2> QED
      BY <1>2, <2>4
  <1>10. CASE DoCrash
    <2>1. PICK w \in Worker : Crash(w)
      BY <1>10 DEF DoCrash
    <2>2. msgs' = Requeued({w} \X Queue) /\ chan' = [c \in Channel |-> IF c[1] = w THEN "closed" ELSE chan[c]]
      BY <1>0, <2>1, CrashEffect
    <2>3. m.chan[1] # w
      BY <2>2 DEF Live
    <2>4. m.chan \notin {w} \X Queue
      BY <2>3
    <2>5. msgs'[s] = msgs[s]
      BY <1>1, <2>2, <2>4, RequeuedEffect
    <2> QED
      BY <1>2, <2>5
  <1>11. ASSUME NEW w \in Worker, NEW j \in jobs[w], DoSettles(w, j)
         PROVE  Waits(m)' \/ Same(j, m)
    <2>0. j.step # "schedule"
      BY <1>11, SettleEffect DEF DoSettles
    <2>1. ASSUME NEW r \in Held, NEW b, Names(w, j.task, r), r[1] = j.task, msgs' = [msgs EXCEPT ![r] = b]
          PROVE  Waits(m)' \/ Same(j, m)
      <3>1. CASE r # s
        BY <1>0, <1>3, <2>1, <3>1
      <3>2. CASE r = s
        <4>1. deliveries[w][j.task] = <<m.chan, m.tag>> /\ m.task = j.task /\ deliveries[w][j.task] # None
          BY <1>0, <1>1, <2>1, <3>2, NoneAssumption, HeldType DEF Names, Message
        <4>2. j.task \in Task
          BY <1>0, JobType
        <4>3. m.chan[1] = w
          BY <4>1, <4>2 DEF BaseInv, PlaceInv, EntryInv
        <4> QED
          BY <1>0, <2>0, <4>1, <4>3, SettleOwn
      <3> QED
        BY <3>1, <3>2
    <2>2. CASE UNCHANGED msgs
      BY <1>2, <2>2
    <2>3. ASSUME NEW r \in Held, Names(w, j.task, r), r[1] = j.task, msgs' = [msgs EXCEPT ![r] = None]
          PROVE  Waits(m)' \/ Same(j, m)
      BY <2>1, <2>3
    <2>4. ASSUME NEW r \in Held, NEW b \in Message, Names(w, j.task, r), r[1] = j.task, msgs' = [msgs EXCEPT ![r] = b]
          PROVE  Waits(m)' \/ Same(j, m)
      BY <2>1, <2>4
    <2>5. Ack(w, j) \/ Nack(w, j) \/ DeadLetter(w, j)
      BY <1>11 DEF DoSettles
    <2> QED
      BY <2>2, <2>3, <2>4, <2>5, SettleEffect
  <1>12. CASE DoSchedule
    BY <1>0, <1>3, <1>4, <1>12, ScheduleEffect DEF DoSchedule
  <1> QED
    BY <1>4, <1>5, <1>6, <1>7, <1>8, <1>9, <1>10, <1>11, <1>12, Frames
       DEF DoMove, DoPush, DoReject, DoSettle, DoSettles

\* The entry stays that of the delivery until it is resolved.
LEMMA EntryKept ==
  ASSUME BaseInv, TagInv, SingleInv, [Next]_vars,
         NEW m, m.chan \in Channel, m.task \in Task, On(m), Live(m)', Waits(m), Entry(m)
  PROVE  \/ Entry(m)'
         \/ \E c \in Channel : \E d \in inbox : Track(c, d) /\ Same(d, m)
         \/ \E w \in Worker : \E j \in jobs[w] : DoSettles(w, j) /\ Same(j, m)
  <1>0. TypeInv /\ Live(m) /\ m.chan[1] \in Worker
    BY LiveBefore, ChannelIs DEF BaseInv
  <1>1. CASE UNCHANGED deliveries
    BY <1>1 DEF Entry
  <1>2. ASSUME NEW c \in Channel, NEW d \in inbox, Track(c, d)
        PROVE  Entry(m)' \/ Same(d, m)
    <2>1. /\ d.chan = c
          /\ \A w \in Worker, t \in Task : ~ (w = c[1] /\ t = d.task) => deliveries'[w][t] = deliveries[w][t]
      BY <1>0, <1>2, TrackEntries
    <2>2. CASE ~ (m.chan[1] = c[1] /\ m.task = d.task)
      BY <1>0, <2>1, <2>2 DEF Entry
    <2>3. CASE m.chan[1] = c[1] /\ m.task = d.task
      <3>1. On(d) /\ d \in InFlight
        BY DEF BaseInv, PlaceInv, FlightInv, InFlight
      <3>2. d.chan = m.chan
        BY <2>1, <2>3, <3>1, SameChannel
      <3>3. Live(d)
        BY <1>0, <2>3, <3>2 DEF Live
      <3>4. Waits(d)
        BY <3>1, <3>3 DEF SingleInv, FlightLive
      <3> QED
        BY <2>3, <3>3, <3>4, SameCopy DEF SingleInv, Live
    <2> QED
      BY <2>2, <2>3
  <1>3. ASSUME NEW w \in Worker, NEW j \in jobs[w], DoSettles(w, j)
        PROVE  Entry(m)' \/ Same(j, m)
    <2>1. /\ \A v \in Worker, t \in Task : ~ (v = w /\ t = j.task) => deliveries'[v][t] = deliveries[v][t]
          /\ j.step # "schedule"
      BY <1>3, SettleEntries, SettleEffect DEF DoSettles
    <2>2. CASE ~ (m.chan[1] = w /\ m.task = j.task)
      BY <1>0, <2>1, <2>2 DEF Entry
    <2>3. CASE m.chan[1] = w /\ m.task = j.task
      BY <1>0, <2>1, <2>3, SettleOwn
    <2> QED
      BY <2>2, <2>3
  <1>4. ASSUME NEW w \in Worker, Crash(w)
        PROVE  Entry(m)'
    <2>1. chan' = [c \in Channel |-> IF c[1] = w THEN "closed" ELSE chan[c]]
      BY <1>0, <1>4, CrashEffect
    <2>2. m.chan[1] # w
      BY <2>1 DEF Live
    <2> QED
      BY <1>0, <1>4, <2>2, CrashEntries DEF Entry
  <1> QED
    BY <1>1, <1>2, <1>3, <1>4, Frames DEF DoTrack, DoSettle, DoSettles, DoCrash

LEMMA HandFrom ==
  ASSUME BaseInv, TagInv, [Next]_vars, NEW m \in hand'
  PROVE  m \in hand \/ \E c \in Channel : m \in inbox /\ Track(c, m)
  <1>0. TypeInv
    BY DEF BaseInv
  <1>1. CASE UNCHANGED hand
    BY <1>1
  <1>2. CASE DoTrack
    BY <1>0, <1>2, TrackEffect DEF DoTrack
  <1>3. CASE DoPush \/ DoReject \/ DoError \/ DoDequeue
    <2>1. UNCHANGED hand
      BY <1>3 DEF DoPush, DoReject, DoError, DoDequeue, Push, Reject, ConsumerError, Dequeue
    <2> QED
      BY <2>1
  <1>4. CASE DoSend
    BY <1>0, <1>4, SendEffect DEF DoSend
  <1>5. CASE DoCrash
    BY <1>0, <1>5, CrashEffect DEF DoCrash
  <1> QED
    BY <1>1, <1>2, <1>3, <1>4, <1>5, Frames

LEMMA FlightLiveStep ==
  ASSUME BaseInv, TagInv, UniqueInv, SingleInv, [Next]_vars
  PROVE  FlightLive'
  <1>0. /\ TypeInv /\ FlightInv /\ FlightUnique /\ FlightApart /\ NotYetRun /\ FlightLive
        /\ InFlight \subseteq Delivery /\ Held \subseteq Slot
    BY FlightType DEF BaseInv, PlaceInv, UniqueInv, SingleInv, Held
  <1> SUFFICES ASSUME NEW m \in InFlight', Live(m)'
               PROVE  Waits(m)' /\ (m \notin inbox' => Entry(m)')
    BY DEF FlightLive
  <1>1. ASSUME m \in InFlight
        PROVE  Waits(m)' /\ (m \notin inbox' => Entry(m)')
    <2>1. m.chan \in Channel /\ m.task \in Task /\ On(m)
      BY <1>0, <1>1, DeliveryType DEF FlightInv
    <2>2. Waits(m) /\ (m \notin inbox => Entry(m))
      BY <1>0, <1>1, <2>1, LiveBefore DEF FlightLive
    <2>3. ASSUME NEW w \in Worker, NEW j \in jobs[w], Same(j, m)
          PROVE  FALSE
      BY <1>0, <1>1, <2>3 DEF NotYetRun, Same
    <2>4. ASSUME NEW d \in inbox, Same(d, m)
          PROVE  d = m
      <3>1. d \in InFlight
        BY DEF InFlight
      <3> QED
        BY <1>0, <1>1, <2>4, <3>1 DEF FlightUnique
    <2>5. Waits(m)'
      <3>1. ASSUME NEW c \in Channel, NEW d \in inbox, Reject(c, d), Same(d, m)
            PROVE  FALSE
        <4>1. d = m
          BY <2>4, <3>1
        <4>2. inbox' = inbox \ {m} /\ UNCHANGED <<hand, mpsc>> /\ m \in inbox
          BY <3>1, <4>1, RejectEffect
        <4>3. m \in hand \/ \E w \in Worker : m \in Items(w)
          BY <4>2 DEF InFlight, Items
        <4> QED
          BY <1>0, <4>2, <4>3 DEF FlightApart
      <3> QED
        BY <2>1, <2>2, <2>3, <3>1, WaitsKept
    <2>6. ASSUME m \notin inbox
          PROVE  Entry(m)'
      <3>1. ASSUME NEW d \in inbox, Same(d, m)
            PROVE  FALSE
        BY <2>4, <2>6, <3>1
      <3> QED
        BY <2>1, <2>2, <2>3, <2>6, <3>1, EntryKept
    <2>7. ASSUME m \in inbox, m \notin inbox'
          PROVE  Entry(m)'
      <3>1. m \in hand' \/ \E w \in Worker : m \in Items(w)'
        BY <2>7 DEF InFlight
      <3>2. m \notin hand /\ \A w \in Worker : m \notin Items(w)
        BY <1>0, <2>7 DEF FlightApart
      <3>3. m \in hand'
        BY <3>1, <3>2, ItemsShrink
      <3>4. PICK c \in Channel : Track(c, m)
        BY <3>2, <3>3, HandFrom
      <3> QED
        BY <1>0, <2>7, <3>4, TrackEntries DEF Entry
    <2> QED
      BY <2>5, <2>6, <2>7
  <1>2. ASSUME NEW c \in Channel, NEW s \in Held, Push(c, s), m \notin InFlight
        PROVE  Waits(m)' /\ m \in inbox'
    <2>1. PICK b \in Message, d \in Delivery :
            /\ msgs' = [msgs EXCEPT ![s] = b] /\ b.chan = c /\ b.tag = NewTag(c)
            /\ inbox' = inbox \cup {d} /\ d.task = s[1] /\ d.chan = c /\ d.tag = NewTag(c)
            /\ UNCHANGED <<hand, mpsc>>
      BY <1>2, PushEffect
    <2>2. m = d
      BY <1>2, <2>1 DEF InFlight, Items
    <2>3. Held' = Held \cup {s} /\ msgs'[s] = b
      BY <1>0, <2>1, HeldAfter
    <2>4. s \in Tagged(m.chan, m.tag)'
      BY <2>1, <2>2, <2>3 DEF Tagged, Unacked
    <2> QED
      BY <2>1, <2>2, <2>4 DEF Waits
  <1> QED
    BY <1>1, <1>2, FlightShrinks

LEMMA JobLiveStep ==
  ASSUME BaseInv, TagInv, UniqueInv, SingleInv, [Next]_vars
  PROVE  JobLive'
  <1>0. /\ TypeInv /\ JobInv /\ FlightInv /\ JobUnique /\ NotYetRun /\ FlightLive /\ JobLive /\ FlightApart
        /\ InFlight \subseteq Delivery
    BY FlightType DEF BaseInv, PlaceInv, UniqueInv, SingleInv
  <1> SUFFICES ASSUME NEW v \in Worker, NEW i \in jobs'[v], Live(i)', i.step # "schedule"
               PROVE  Waits(i)' /\ Entry(i)'
    BY DEF JobLive
  <1>1. ASSUME NEW m, m.chan = i.chan, m.tag = i.tag, m.task = i.task, UNCHANGED <<msgs, deliveries>>, Waits(m) /\ Entry(m)
        PROVE  Waits(i)' /\ Entry(i)'
    BY <1>1 DEF Waits, Entry, Tagged, Unacked, Held
  <1>2. ASSUME NEW m, m.chan = i.chan, m.task = i.task, UNCHANGED chan
        PROVE  Live(m)
    BY <1>2 DEF Live, Single
  <1>3. ASSUME i \in jobs[v]
        PROVE  Waits(i)' /\ Entry(i)'
    <2>1. i.chan \in Channel /\ i.task \in Task /\ On(i) /\ i.chan[1] = v
      BY <1>0, <1>3, JobType DEF JobInv
    <2>2. Waits(i) /\ Entry(i)
      BY <1>0, <1>3, <2>1, LiveBefore DEF JobLive
    <2>3. ASSUME NEW d \in inbox, Same(d, i)
          PROVE  FALSE
      <3>1. d \in InFlight
        BY DEF InFlight
      <3> QED
        BY <1>0, <1>3, <2>3, <3>1 DEF NotYetRun
    <2>4. ASSUME NEW w \in Worker, NEW j \in jobs[w], DoSettles(w, j), Same(j, i)
          PROVE  FALSE
      <3>1. j.chan[1] = w
        BY <1>0 DEF JobInv
      <3>2. w = v
        BY <2>1, <2>4, <3>1 DEF Same
      <3>3. j = i
        BY <1>0, <1>3, <2>4, <3>2 DEF JobUnique
      <3>4. CASE Ends(w, j)
        BY <1>0, <3>2, <3>3, <3>4, EndsMember
      <3>5. CASE ~ Ends(w, j)
        <4>1. PICK k \in Job : Becomes(w, j, k) /\ k.step = "schedule"
          BY <2>4, <3>5, SettleEffect DEF DoSettles
        <4> QED
          BY <1>0, <3>2, <3>3, <4>1, BecomesMember
      <3> QED
        BY <3>4, <3>5
    <2>5. Waits(i)'
      BY <2>1, <2>2, <2>3, <2>4, WaitsKept
    <2>6. Entry(i)'
      BY <2>1, <2>2, <2>3, <2>4, EntryKept
    <2> QED
      BY <2>5, <2>6
  <1>4. ASSUME NEW w \in Worker, NEW j \in jobs[w], NotDue(w, j) \/ Succeed(w, j) \/ Fail(w, j)
        PROVE  Waits(i)' /\ Entry(i)'
    <2>1. PICK k \in Job : /\ Becomes(w, j, k) /\ k.task = j.task /\ k.chan = j.chan /\ k.tag = j.tag
                           /\ j.step = "run" /\ UNCHANGED <<msgs, deliveries, chan>>
      BY <1>0, <1>4, RunEffect
    <2>2. i \in jobs[v] \/ (v = w /\ i = k)
      BY <1>0, <2>1, BecomesMember
    <2>3. CASE v = w /\ i = k
      <3>1. Live(j)
        BY <1>2, <2>1, <2>3
      <3>2. Waits(j) /\ Entry(j)
        BY <1>0, <2>1, <3>1 DEF JobLive
      <3> QED
        BY <1>1, <2>1, <2>3, <3>2
    <2> QED
      BY <1>3, <2>2, <2>3
  <1>5. ASSUME NEW w \in Worker, NEW j \in jobs[w], Ack(w, j) \/ Nack(w, j) \/ DeadLetter(w, j)
        PROVE  i \in jobs[v]
    <2>1. CASE Ends(w, j)
      BY <1>0, <2>1, EndsMember
    <2>2. CASE ~ Ends(w, j)
      <3>1. PICK k \in Job : Becomes(w, j, k) /\ k.step = "schedule"
        BY <1>5, <2>2, SettleEffect
      <3> QED
        BY <1>0, <3>1, BecomesMember
    <2> QED
      BY <2>1, <2>2
  <1>6. ASSUME NEW w \in Worker, Dequeue(w)
        PROVE  Waits(i)' /\ Entry(i)'
    <2>1. PICK h : /\ h \in InFlight /\ h = Head(mpsc[w])
                   /\ jobs' = [jobs EXCEPT ![w] = @ \cup {FirstRun(h)}]
      BY <1>6, DequeueFresh
    <2>2. UNCHANGED <<msgs, deliveries, chan>> /\ h \in Items(w)
      BY <1>0, <1>6, <2>1, DequeueEffect, DequeueItems
    <2> DEFINE k == FirstRun(h)
    <2>3. k.task = h.task /\ k.chan = h.chan /\ k.tag = h.tag
      BY DEF FirstRun
    <2>4. i \in jobs[v] \/ i = k
      BY <1>0, <2>1 DEF TypeInv, TypeOK
    <2> HIDE DEF k
    <2>5. CASE i = k
      <3>1. Live(h)
        BY <1>2, <2>2, <2>3, <2>5
      <3>2. h \notin inbox
        BY <1>0, <2>2 DEF FlightApart
      <3>3. Waits(h) /\ Entry(h)
        BY <1>0, <2>1, <3>1, <3>2 DEF FlightLive
      <3> QED
        BY <1>1, <2>2, <2>3, <2>5, <3>3
    <2> QED
      BY <1>3, <2>4, <2>5
  <1>7. CASE UNCHANGED jobs
    BY <1>3, <1>7
  <1>8. CASE DoSchedule
    BY <1>0, <1>3, <1>8, ScheduleEffect, EndsMember DEF DoSchedule
  <1>9. ASSUME NEW w \in Worker, Crash(w)
        PROVE  i \in jobs[v]
    <2>1. jobs' = [jobs EXCEPT ![w] = {}]
      BY <1>0, <1>9, CrashEffect
    <2> QED
      BY <1>0, <2>1 DEF TypeInv, TypeOK
  <1> QED
    BY <1>3, <1>4, <1>5, <1>6, <1>7, <1>8, <1>9, Frames DEF DoRun, DoSettle, DoDequeue, DoCrash

\* A slot at a time is filled.
LEMMA HeldOne ==
  ASSUME BaseInv, TagInv, [Next]_vars, NEW s \in Held', NEW r \in Held', s \notin Held, r \notin Held
  PROVE  s = r
  <1>0. TypeInv /\ Held \subseteq Slot
    BY DEF BaseInv, Held
  <1>1. ASSUME NEW x, NEW m \in Message, x \in Slot, msgs' = [msgs EXCEPT ![x] = m]
        PROVE  s = r
    <2>1. Held' = Held \cup {x}
      BY <1>0, <1>1, HeldAfter
    <2> QED
      BY <2>1
  <1>2. CASE UNCHANGED msgs
    BY <1>2 DEF Held
  <1>3. CASE Adds
    BY <1>1, <1>3 DEF Adds
  <1>4. CASE Replaces
    BY <1>0, <1>1, <1>4 DEF Replaces
  <1>5. CASE Removes
    <2>1. PICK x \in Held : msgs' = [msgs EXCEPT ![x] = None]
      BY <1>5 DEF Removes
    <2>2. Held' = Held \ {x}
      BY <1>0, <2>1, NotHeldAfter
    <2> QED
      BY <2>2
  <1>6. CASE DoPush
    BY <1>0, <1>1, <1>6, PushEffect DEF DoPush
  <1>7. CASE DoClose \/ DoCrash
    BY <1>0, <1>7, ClosesEffect, CrashEffect, RequeuedEffect DEF DoClose, DoCrash
  <1> QED
    BY <1>2, <1>3, <1>4, <1>5, <1>6, <1>7, CopyKinds

\* Who fills the slot of a task of which there may be only one copy finds none.
LEMMA OneCopyStep ==
  ASSUME BaseInv, TagInv, FateInv, SingleInv, [Next]_vars
  PROVE  OneCopy'
  <1>0. TypeInv /\ OneCopy /\ SchedInv /\ NewInv
    BY DEF BaseInv, SingleInv, FateInv
  <1> SUFFICES ASSUME NEW s \in Held', NEW r \in Held', s[1] = r[1], Single(s[1])'
               PROVE  s = r
    BY DEF OneCopy
  <1>1. Single(s[1])
    BY SingleBefore
  <1>2. ASSUME NEW x \in Held', x \notin Held, x[1] = s[1]
        PROVE  \A y \in Held : y[1] # s[1]
    <2>1. CASE x[1] \in Task /\ Enqueue(x[1])
      <3>1. fate[x[1]] = "new"
        BY <1>0, <2>1, EnqueueEffect
      <3> QED
        BY <1>0, <1>2, <2>1, <3>1 DEF NewInv, Unknown
    <2>2. ASSUME NEW w \in Worker, NEW j \in jobs[w], j.task = x[1], Schedule(w, j)
          PROVE  \A y \in Held : y[1] # s[1]
      BY <1>0, <1>1, <1>2, <2>2, ScheduleEffect DEF SchedInv, Stored
    <2> QED
      BY <1>2, <2>1, <2>2, HeldFrom
  <1>3. CASE s \in Held /\ r \in Held
    BY <1>0, <1>1, <1>3 DEF OneCopy
  <1>4. CASE s \notin Held /\ r \in Held
    BY <1>2, <1>4
  <1>5. CASE s \in Held /\ r \notin Held
    BY <1>2, <1>5
  <1>6. CASE s \notin Held /\ r \notin Held
    BY <1>6, HeldOne
  <1> QED
    BY <1>3, <1>4, <1>5, <1>6

\* While no channel has closed, an execution that has not acknowledged yet has a
\* copy.
LEMMA EtaStored ==
  ASSUME BaseInv, SingleInv, NEW w \in Worker, NEW j \in jobs[w], j.step = "etaAck", Single(j.task)
  PROVE  /\ Stored(j.task)
         /\ \E s \in Held : Names(w, j.task, s) /\ s[1] = j.task
  <1>1. j.chan \in Channel /\ On(j) /\ j.chan[1] = w /\ j.task \in Delayed
    BY JobType DEF BaseInv, PlaceInv, JobInv
  <1>2. chan \in [Channel -> {"none", "open", "closed"}]
    BY DEF BaseInv, TypeInv, TypeOK
  <1>3. chan[j.chan] # "closed"
    BY <1>1, <1>2 DEF Single, Range
  <1>4. Live(j)
    BY <1>1, <1>2, <1>3 DEF Live, On
  <1>5. Waits(j) /\ Entry(j)
    BY <1>4 DEF SingleInv, JobLive
  <1>6. PICK s \in Held : msgs[s].chan = j.chan /\ msgs[s].tag = j.tag /\ s[1] = j.task /\ msgs[s].chan # None
    BY <1>1, <1>5, WaitsIs
  <1>7. Names(w, j.task, s)
    BY <1>1, <1>5, <1>6 DEF Names, Entry
  <1> QED
    BY <1>6, <1>7 DEF Stored

\* An execution comes to schedule its task by the acknowledgement of the eta
\* guard.
LEMMA ScheduleFrom ==
  ASSUME BaseInv, TagInv, UniqueInv, [Next]_vars, NEW v \in Worker, NEW i \in jobs'[v], i.step = "schedule"
  PROVE  \/ i \in jobs[v]
         \/ \E j \in jobs[v] : /\ Ack(v, j) /\ Becomes(v, j, i) /\ j.step = "etaAck" /\ i.task = j.task
                               /\ \A w \in Worker : \A x \in jobs'[w] : x \in jobs[w] \/ (w = v /\ x = i)
  <1>0. TypeInv
    BY DEF BaseInv
  <1>1. CASE UNCHANGED jobs
    BY <1>1
  <1>2. ASSUME NEW w \in Worker, NEW j \in jobs[w], NotDue(w, j) \/ Succeed(w, j) \/ Fail(w, j)
        PROVE  i \in jobs[v]
    <2>1. PICK k \in Job : Becomes(w, j, k) /\ k.step \in {"etaAck", "ack", "backoff", "bury"}
      BY <1>0, <1>2, RunEffect
    <2>2. k.step # "schedule"
      BY <2>1
    <2> QED
      BY <1>0, <2>1, <2>2, BecomesMember
  <1>3. ASSUME NEW w \in Worker, NEW j \in jobs[w], Ack(w, j) \/ Nack(w, j) \/ DeadLetter(w, j)
        PROVE  \/ i \in jobs[v]
               \/ /\ w = v /\ Ack(v, j) /\ Becomes(v, j, i) /\ j.step = "etaAck" /\ i.task = j.task
                  /\ \A u \in Worker : \A x \in jobs'[u] : x \in jobs[u] \/ (u = v /\ x = i)
    <2>1. CASE Ends(w, j)
      BY <1>0, <2>1, EndsMember
    <2>2. CASE ~ Ends(w, j)
      <3>1. PICK k \in Job : Becomes(w, j, k) /\ k.step = "schedule" /\ j.step = "etaAck" /\ k.task = j.task
        BY <1>3, <2>2, SettleEffect
      <3>2. Ack(w, j)
        BY <1>3, <3>1 DEF Nack, DeadLetter
      <3>3. i \in jobs[v] \/ (v = w /\ i = k)
        BY <1>0, <3>1, BecomesMember
      <3>4. \A u \in Worker : \A x \in jobs'[u] : x \in jobs[u] \/ (u = w /\ x = k)
        BY <1>0, <3>1, BecomesMember
      <3> QED
        BY <3>1, <3>2, <3>3, <3>4
    <2> QED
      BY <2>1, <2>2
  <1>4. ASSUME NEW w \in Worker, Dequeue(w)
        PROVE  i \in jobs[v]
    <2>1. PICK h : jobs' = [jobs EXCEPT ![w] = @ \cup {FirstRun(h)}]
      BY <1>4, DequeueFresh
    <2>2. FirstRun(h).step = "run"
      BY DEF FirstRun
    <2> HIDE DEF FirstRun
    <2> QED
      BY <1>0, <2>1, <2>2 DEF TypeInv, TypeOK
  <1>5. CASE DoSchedule
    BY <1>0, <1>5, ScheduleEffect, EndsMember DEF DoSchedule
  <1>6. ASSUME NEW w \in Worker, Crash(w)
        PROVE  i \in jobs[v]
    <2>1. jobs' = [jobs EXCEPT ![w] = {}]
      BY <1>0, <1>6, CrashEffect
    <2> QED
      BY <1>0, <2>1 DEF TypeInv, TypeOK
  <1> QED
    BY <1>1, <1>2, <1>3, <1>4, <1>5, <1>6, Frames DEF DoRun, DoSettle, DoDequeue, DoCrash

LEMMA SchedStep ==
  ASSUME BaseInv, TagInv, UniqueInv, FateInv, SingleInv, [Next]_vars
  PROVE  SchedInv'
  <1>0. TypeInv /\ OneCopy /\ SchedInv /\ NewInv
    BY DEF BaseInv, SingleInv, FateInv
  <1> SUFFICES ASSUME NEW w \in Worker, NEW j \in jobs'[w], j.step = "schedule", Single(j.task)'
               PROVE  /\ ~ Stored(j.task)'
                      /\ \A v \in Worker : \A i \in jobs'[v] : i.step = "schedule" /\ i.task = j.task => v = w /\ i = j
    BY DEF SchedInv
  <1>1. Single(j.task)
    BY SingleBefore
  <1>2. CASE j \in jobs[w]
    <2>1. ~ Stored(j.task)
      BY <1>0, <1>1, <1>2 DEF SchedInv
    <2>2. ASSUME NEW s \in Held', s[1] = j.task
          PROVE  FALSE
      <3>1. s \notin Held
        BY <2>1, <2>2 DEF Stored
      <3>2. CASE s[1] \in Task /\ Enqueue(s[1])
        <4>1. fate[s[1]] = "new"
          BY <1>0, <3>2, EnqueueEffect
        <4> QED
          BY <1>0, <1>2, <2>2, <3>2, <4>1 DEF NewInv, Unknown
      <3>3. ASSUME NEW v \in Worker, NEW i \in jobs[v], i.task = s[1], Schedule(v, i)
            PROVE  FALSE
        <4>1. i.step = "schedule" /\ Ends(v, i)
          BY <1>0, <3>3, ScheduleEffect
        <4>2. v = w /\ i = j
          BY <1>0, <1>1, <1>2, <2>2, <3>3, <4>1 DEF SchedInv
        <4> QED
          BY <1>0, <4>1, <4>2, EndsMember
      <3> QED
        BY <3>1, <3>2, <3>3, HeldFrom
    <2>3. ASSUME NEW v \in Worker, NEW i \in jobs'[v], i.step = "schedule", i.task = j.task
          PROVE  v = w /\ i = j
      <3>1. CASE i \in jobs[v]
        BY <1>0, <1>1, <1>2, <2>3, <3>1 DEF SchedInv
      <3>2. ASSUME NEW x \in jobs[v], x.step = "etaAck", i.task = x.task
            PROVE  FALSE
        BY <1>1, <2>1, <2>3, <3>2, EtaStored
      <3> QED
        BY <2>3, <3>1, <3>2, ScheduleFrom
    <2> QED
      BY <2>2, <2>3 DEF Stored
  <1>3. ASSUME NEW x \in jobs[w], Ack(w, x), Becomes(w, x, j), x.step = "etaAck", j.task = x.task,
               \A v \in Worker : \A i \in jobs'[v] : i \in jobs[v] \/ (v = w /\ i = j)
        PROVE  /\ ~ Stored(j.task)'
               /\ \A v \in Worker : \A i \in jobs'[v] : i.step = "schedule" /\ i.task = j.task => v = w /\ i = j
    <2>1. Stored(j.task) /\ \E s \in Held : Names(w, x.task, s) /\ s[1] = x.task
      BY <1>1, <1>3, EtaStored
    <2>2. PICK r \in Held : r[1] = x.task /\ msgs' = [msgs EXCEPT ![r] = None]
      BY <1>3, <2>1, SettleEffect
    <2>3. Held' = Held \ {r}
      BY <1>0, <2>2, NotHeldAfter DEF Held
    <2>4. ~ Stored(j.task)'
      BY <1>0, <1>1, <1>3, <2>2, <2>3 DEF OneCopy, Stored
    <2>5. ASSUME NEW v \in Worker, NEW i \in jobs[v], i.step = "schedule", i.task = j.task
          PROVE  FALSE
      BY <1>0, <1>1, <2>1, <2>5 DEF SchedInv
    <2> QED
      BY <1>3, <2>4, <2>5
  <1> QED
    BY <1>2, <1>3, ScheduleFrom

LEMMA SingleStep ==
  ASSUME BaseInv, TagInv, UniqueInv, FateInv, SingleInv, [Next]_vars
  PROVE  SingleInv'
  BY OneCopyStep, FlightLiveStep, JobLiveStep, SchedStep DEF SingleInv

-----------------------------------------------------------------------------
(* Room in the mpsc channel *)

\* The tags that are on their way or executed; at most as many as RabbitMQ lets
\* through without an acknowledgement.
Coming(c) == {m \in InFlight : m.chan = c}
Worked(c) == {j \in jobs[c[1]] : j.chan = c /\ j.step # "schedule"}
Tags(c) == {m.tag : m \in Coming(c)} \cup {j.tag : j \in Worked(c)}

RoomAt(c) ==
    /\ IsFiniteSet(Tags(c)) /\ Cardinality(Tags(c)) <= Prefetch
    /\ chan[c] = "open" => Cardinality(Tags(c)) <= Cardinality(Unacked(c)) /\ Cardinality(Unacked(c)) <= Prefetch

RoomInv == \A c \in Channel : RoomAt(c)

LEMMA UnackedFinite ==
  ASSUME NEW c
  PROVE  IsFiniteSet(Unacked(c)) /\ Cardinality(Unacked(c)) \in Nat
  <1>1. IsFiniteSet(Unacked(c))
    BY SlotsFinite, FS_Subset DEF Unacked, Held
  <1> QED
    BY <1>1, FS_CardinalityType

LEMMA RoomKept ==
  ASSUME RoomInv, NEW c \in Channel, Tags(c)' \subseteq Tags(c),
         chan'[c] = "open" => chan[c] = "open" /\ Unacked(c)' = Unacked(c)
  PROVE  RoomAt(c)'
  <1>1. RoomAt(c) /\ Prefetch \in Nat
    BY AmqpAssumption DEF RoomInv
  <1>2. IsFiniteSet(Tags(c)') /\ Cardinality(Tags(c)') <= Cardinality(Tags(c))
    BY <1>1, FS_Subset DEF RoomAt
  <1>3. Cardinality(Tags(c)') \in Nat /\ Cardinality(Tags(c)) \in Nat /\ Cardinality(Unacked(c)) \in Nat
    BY <1>1, <1>2, FS_CardinalityType, UnackedFinite DEF RoomAt
  <1>4. Cardinality(Tags(c)') <= Prefetch
    BY <1>1, <1>2, <1>3 DEF RoomAt
  <1>5. ASSUME chan'[c] = "open"
        PROVE  /\ Cardinality(Tags(c)') <= Cardinality(Unacked(c)') /\ Cardinality(Unacked(c)') <= Prefetch
    <2>1. chan[c] = "open" /\ Unacked(c)' = Unacked(c)
      BY <1>5
    <2>2. Cardinality(Tags(c)) <= Cardinality(Unacked(c)) /\ Cardinality(Unacked(c)) <= Prefetch
      BY <1>1, <2>1 DEF RoomAt
    <2>3. Cardinality(Tags(c)') <= Cardinality(Unacked(c))
      BY <1>2, <1>3, <2>2
    <2> QED
      BY <2>1, <2>2, <2>3
  <1> QED
    BY <1>2, <1>4, <1>5 DEF RoomAt

\* A delivery is resolved: its tag goes, and with it at most one copy.
LEMMA RoomLess ==
  ASSUME RoomInv, NEW c \in Channel, NEW n \in Tags(c), NEW s,
         Tags(c)' \subseteq Tags(c) \ {n}, UNCHANGED chan,
         Unacked(c)' = Unacked(c) \/ Unacked(c)' = Unacked(c) \ {s}
  PROVE  RoomAt(c)'
  <1> DEFINE T == Tags(c)  U == Unacked(c)
  <1>1. RoomAt(c) /\ Prefetch \in Nat
    BY AmqpAssumption DEF RoomInv
  <1>2. IsFiniteSet(T) /\ IsFiniteSet(U) /\ Cardinality(T) \in Nat /\ Cardinality(U) \in Nat /\ Cardinality(T) <= Prefetch
    BY <1>1, FS_CardinalityType, UnackedFinite DEF RoomAt
  <1>3. IsFiniteSet(T \ {n}) /\ Cardinality(T \ {n}) = Cardinality(T) - 1
    BY <1>2, FS_RemoveElement
  <1>4. IsFiniteSet(Tags(c)') /\ Cardinality(Tags(c)') <= Cardinality(T \ {n})
    BY <1>3, FS_Subset
  <1>5. Cardinality(Tags(c)') \in Nat
    BY <1>4, FS_CardinalityType
  <1>6. Cardinality(Tags(c)') <= Prefetch
    BY <1>1, <1>2, <1>3, <1>4, <1>5
  <1>7. /\ Cardinality(Unacked(c)') \in Nat /\ Cardinality(Unacked(c)') <= Cardinality(U)
        /\ Cardinality(U) - 1 <= Cardinality(Unacked(c)')
    <2>1. /\ IsFiniteSet(U \ {s})
          /\ Cardinality(U \ {s}) = Cardinality(U) \/ Cardinality(U \ {s}) = Cardinality(U) - 1
      BY <1>2, FS_RemoveElement
    <2>2. Cardinality(U \ {s}) \in Nat
      BY <2>1, FS_CardinalityType
    <2>3. Unacked(c)' = U \/ Unacked(c)' = U \ {s}
      OBVIOUS
    <2>4. CASE Unacked(c)' = U
      BY <1>2, <2>4
    <2>5. CASE Unacked(c)' = U \ {s}
      <3> DEFINE u == Cardinality(U)  v == Cardinality(U \ {s})
      <3>1. u \in Nat /\ v \in Nat /\ (v = u \/ v = u - 1) /\ Cardinality(Unacked(c)') = v
        BY <1>2, <2>1, <2>2, <2>5
      <3> HIDE DEF u, v
      <3>2. v \in Nat /\ v <= u /\ u - 1 <= v
        BY <3>1
      <3> QED
        BY <3>1, <3>2 DEF u
    <2> QED
      BY <2>3, <2>4, <2>5
  <1>8. ASSUME chan'[c] = "open"
        PROVE  Cardinality(Tags(c)') <= Cardinality(Unacked(c)') /\ Cardinality(Unacked(c)') <= Prefetch
    <2>1. Cardinality(T) <= Cardinality(U) /\ Cardinality(U) <= Prefetch
      BY <1>1, <1>8 DEF RoomAt
    <2>2. Cardinality(Tags(c)') <= Cardinality(T) - 1
      BY <1>3, <1>4
    <2> DEFINE a == Cardinality(Tags(c)')  b == Cardinality(Unacked(c)')  t == Cardinality(T)  u == Cardinality(U)
    <2>3. /\ a \in Nat /\ b \in Nat /\ t \in Nat /\ u \in Nat /\ Prefetch \in Nat
          /\ a <= t - 1 /\ t <= u /\ u <= Prefetch /\ b <= u /\ u - 1 <= b
      BY <1>1, <1>2, <1>5, <1>7, <2>1, <2>2
    <2> HIDE DEF a, b, t, u
    <2>4. a <= b /\ b <= Prefetch
      BY <2>3
    <2> QED
      BY <2>4 DEF a, b
  <1> QED
    BY <1>4, <1>6, <1>8 DEF RoomAt

\* A delivery adds a tag and a copy.
LEMMA RoomMore ==
  ASSUME RoomInv, NEW c \in Channel, NEW n, NEW s, s \notin Unacked(c), Cardinality(Unacked(c)) < Prefetch,
         Tags(c)' \subseteq Tags(c) \cup {n}, Unacked(c)' = Unacked(c) \cup {s}, chan[c] = "open"
  PROVE  RoomAt(c)'
  <1> DEFINE T == Tags(c)  U == Unacked(c)
  <1>1. RoomAt(c) /\ Prefetch \in Nat
    BY AmqpAssumption DEF RoomInv
  <1>2. /\ IsFiniteSet(T) /\ IsFiniteSet(U) /\ Cardinality(T) \in Nat /\ Cardinality(U) \in Nat
        /\ Cardinality(T) <= Cardinality(U) /\ Cardinality(U) < Prefetch
    BY <1>1, FS_CardinalityType, UnackedFinite DEF RoomAt
  <1>3. /\ IsFiniteSet(T \cup {n})
        /\ Cardinality(T \cup {n}) = Cardinality(T) \/ Cardinality(T \cup {n}) = Cardinality(T) + 1
    BY <1>2, FS_AddElement
  <1>4. IsFiniteSet(Tags(c)') /\ Cardinality(Tags(c)') <= Cardinality(T \cup {n})
    BY <1>3, FS_Subset
  <1>5. Cardinality(Tags(c)') \in Nat
    BY <1>4, FS_CardinalityType
  <1>6. Cardinality(U \cup {s}) = Cardinality(U) + 1
    BY <1>2, FS_AddElement
  <1>7. Cardinality(Unacked(c)') = Cardinality(U) + 1
    BY <1>6
  <1> HIDE DEF T, U
  <1>8. Cardinality(Tags(c)') <= Cardinality(U) + 1 /\ Cardinality(U) + 1 <= Prefetch /\ Cardinality(Tags(c)') <= Prefetch
    BY <1>1, <1>2, <1>3, <1>4, <1>5
  <1> QED
    BY <1>4, <1>7, <1>8 DEF RoomAt

LEMMA TagsIs ==
  ASSUME NEW c, NEW n
  PROVE  n \in Tags(c) <=> \/ \E m \in InFlight : m.chan = c /\ m.tag = n
                           \/ \E j \in jobs[c[1]] : j.chan = c /\ j.step # "schedule" /\ j.tag = n
  BY DEF Tags, Coming, Worked

LEMMA TagsLater ==
  ASSUME NEW c, NEW n
  PROVE  n \in Tags(c)' <=> \/ \E m \in InFlight' : m.chan = c /\ m.tag = n
                            \/ \E j \in jobs'[c[1]] : j.chan = c /\ j.step # "schedule" /\ j.tag = n
  BY DEF Tags, Coming, Worked

\* Only RabbitMQ gives new tags.
LEMMA TagsShrink ==
  ASSUME BaseInv, TagInv, UniqueInv, [Next]_vars, ~ DoPush, NEW c \in Channel
  PROVE  Tags(c)' \subseteq Tags(c)
  <1>0. TypeInv /\ c[1] \in Worker
    BY ChannelIs DEF BaseInv
  <1>1. InFlight' \subseteq InFlight
    BY FlightShrinks DEF DoPush
  <1> SUFFICES ASSUME NEW i \in jobs'[c[1]], i.chan = c, i.step # "schedule"
               PROVE  i.tag \in Tags(c)
    BY <1>1, TagsIs, TagsLater
  <1>2. CASE i \in jobs[c[1]]
    BY <1>2, TagsIs
  <1>3. CASE UNCHANGED jobs
    BY <1>2, <1>3
  <1>4. ASSUME NEW w \in Worker, NEW j \in jobs[w], NotDue(w, j) \/ Succeed(w, j) \/ Fail(w, j)
        PROVE  i.tag \in Tags(c)
    <2>1. PICK k \in Job : Becomes(w, j, k) /\ k.chan = j.chan /\ k.tag = j.tag /\ j.step = "run"
      BY <1>0, <1>4, RunEffect
    <2>2. i \in jobs[c[1]] \/ (c[1] = w /\ i = k)
      BY <1>0, <2>1, BecomesMember
    <2> QED
      BY <1>2, <2>1, <2>2, TagsIs
  <1>5. ASSUME NEW w \in Worker, NEW j \in jobs[w], Ack(w, j) \/ Nack(w, j) \/ DeadLetter(w, j)
        PROVE  i \in jobs[c[1]]
    <2>1. CASE Ends(w, j)
      BY <1>0, <2>1, EndsMember
    <2>2. CASE ~ Ends(w, j)
      <3>1. PICK k \in Job : Becomes(w, j, k) /\ k.step = "schedule"
        BY <1>5, <2>2, SettleEffect
      <3> QED
        BY <1>0, <3>1, BecomesMember
    <2> QED
      BY <2>1, <2>2
  <1>6. ASSUME NEW w \in Worker, Dequeue(w)
        PROVE  i.tag \in Tags(c)
    <2>1. PICK h : h \in InFlight /\ jobs' = [jobs EXCEPT ![w] = @ \cup {FirstRun(h)}]
      BY <1>6, DequeueFresh
    <2>2. FirstRun(h).chan = h.chan /\ FirstRun(h).tag = h.tag
      BY DEF FirstRun
    <2> HIDE DEF FirstRun
    <2>3. i \in jobs[c[1]] \/ i = FirstRun(h)
      BY <1>0, <2>1 DEF TypeInv, TypeOK
    <2> QED
      BY <1>2, <2>1, <2>2, <2>3, TagsIs
  <1>7. CASE DoSchedule
    BY <1>0, <1>2, <1>7, ScheduleEffect, EndsMember DEF DoSchedule
  <1>8. ASSUME NEW w \in Worker, Crash(w)
        PROVE  i \in jobs[c[1]]
    <2>1. jobs' = [jobs EXCEPT ![w] = {}]
      BY <1>0, <1>8, CrashEffect
    <2> QED
      BY <1>0, <2>1 DEF TypeInv, TypeOK
  <1> QED
    BY <1>2, <1>3, <1>4, <1>5, <1>6, <1>7, <1>8, Frames DEF DoRun, DoSettle, DoDequeue, DoCrash

LEMMA UnackedIs ==
  ASSUME NEW c, NEW s
  PROVE  s \in Unacked(c) <=> s \in Held /\ msgs[s].chan = c
  BY DEF Unacked

LEMMA UnackedLater ==
  ASSUME NEW c, NEW s
  PROVE  s \in Unacked(c)' <=> s \in Held' /\ msgs'[s].chan = c
  BY DEF Unacked

\* A copy that waits for nothing on the channel changes, before and after.
LEMMA UnackedSame ==
  ASSUME BaseInv, NEW c \in Channel, NEW r \in Slot, NEW b \in Message, msgs' = [msgs EXCEPT ![r] = b],
         r \in Held => msgs[r].chan # c, b.chan # c
  PROVE  Unacked(c)' = Unacked(c)
  <1>0. Held \subseteq Slot /\ TypeInv
    BY DEF Held, BaseInv
  <1>1. Held' = Held \cup {r} /\ msgs'[r] = b /\ \A s \in Slot : s # r => msgs'[s] = msgs[s]
    BY <1>0, HeldAfter
  <1>2. \A s : s \in Unacked(c)' <=> s \in Unacked(c)
    BY <1>0, <1>1, UnackedIs, UnackedLater
  <1> QED
    BY <1>2

\* One that waits is resolved.
LEMMA UnackedLess ==
  ASSUME BaseInv, NEW c \in Channel, NEW r \in Held, msgs[r].chan = c,
         \/ msgs' = [msgs EXCEPT ![r] = None]
         \/ \E b \in Message : msgs' = [msgs EXCEPT ![r] = b] /\ b.chan = None
  PROVE  Unacked(c)' = Unacked(c) \ {r}
  <1>0. Held \subseteq Slot /\ TypeInv /\ c # None
    BY ChannelIs DEF Held, BaseInv
  <1>1. CASE msgs' = [msgs EXCEPT ![r] = None]
    <2>1. Held' = Held \ {r} /\ \A s \in Slot : s # r => msgs'[s] = msgs[s]
      BY <1>0, <1>1, NotHeldAfter
    <2>2. \A s : s \in Unacked(c)' <=> s \in Unacked(c) \ {r}
      BY <1>0, <2>1, UnackedIs, UnackedLater
    <2> QED
      BY <2>2
  <1>2. ASSUME NEW b \in Message, msgs' = [msgs EXCEPT ![r] = b], b.chan = None
        PROVE  Unacked(c)' = Unacked(c) \ {r}
    <2>1. Held' = Held \cup {r} /\ msgs'[r] = b /\ \A s \in Slot : s # r => msgs'[s] = msgs[s]
      BY <1>0, <1>2, HeldAfter
    <2>2. \A s : s \in Unacked(c)' <=> s \in Unacked(c) \ {r}
      BY <1>0, <1>2, <2>1, UnackedIs, UnackedLater
    <2> QED
      BY <2>2
  <1> QED
    BY <1>1, <1>2

LEMMA PushRoom ==
  ASSUME BaseInv, TagInv, RoomInv, NEW c \in Channel, NEW b \in Channel, NEW s \in Held, Push(b, s)
  PROVE  RoomAt(c)'
  <1>0. TypeInv /\ Held \subseteq Slot /\ b # None /\ c # None
    BY ChannelIs DEF BaseInv, Held
  <1>1. PICK m \in Message, d \in Delivery :
            /\ msgs' = [msgs EXCEPT ![s] = m] /\ m.chan = b
            /\ inbox' = inbox \cup {d} /\ d.chan = b
            /\ msgs[s].chan = None /\ chan[b] = "open" /\ Cardinality(Unacked(b)) < Prefetch
            /\ UNCHANGED <<chan, hand, mpsc, jobs>>
    BY PushEffect
  <1>2. InFlight' = InFlight \cup {d}
    BY <1>1 DEF InFlight, Items
  <1>3. CASE b = c
    <2>1. Tags(c)' \subseteq Tags(c) \cup {d.tag}
      BY <1>1, <1>2, TagsIs, TagsLater
    <2>2. Held' = Held \cup {s} /\ msgs'[s] = m /\ \A r \in Slot : r # s => msgs'[r] = msgs[r]
      BY <1>0, <1>1, HeldAfter
    <2>3. \A r : r \in Unacked(c)' <=> r \in Unacked(c) \cup {s}
      BY <1>0, <1>1, <1>3, <2>2, UnackedIs, UnackedLater
    <2>4. s \notin Unacked(c)
      BY <1>0, <1>1, UnackedIs
    <2>5. Unacked(c)' = Unacked(c) \cup {s}
      BY <2>3
    <2> QED
      BY <1>1, <1>3, <2>1, <2>4, <2>5, RoomMore
  <1>4. CASE b # c
    <2>1. Tags(c)' \subseteq Tags(c)
      BY <1>1, <1>2, <1>4, TagsIs, TagsLater
    <2>2. Unacked(c)' = Unacked(c)
      BY <1>0, <1>1, <1>4, UnackedSame
    <2> QED
      BY <1>1, <2>1, <2>2, RoomKept
  <1> QED
    BY <1>3, <1>4

LEMMA RejectRoom ==
  ASSUME BaseInv, TagInv, UniqueInv, RoomInv, [Next]_vars, ~ DoPush,
         NEW c \in Channel, NEW b \in Channel, NEW m \in inbox, Reject(b, m)
  PROVE  RoomAt(c)'
  <1>0. /\ TypeInv /\ Held \subseteq Slot /\ c # None /\ c[1] \in Worker
        /\ FlightUnique /\ FlightApart /\ NotYetRun /\ m \in InFlight
    BY ChannelIs DEF BaseInv, Held, UniqueInv, InFlight
  <1>1. inbox' = inbox \ {m} /\ m.chan = b /\ UNCHANGED <<chan, hand, mpsc, jobs>>
    BY RejectEffect
  <1>2. \/ UNCHANGED msgs
        \/ \E s \in Held, x \in Message : msgs[s].chan = b /\ msgs' = [msgs EXCEPT ![s] = x] /\ x.chan = None
    BY RejectEffect
  <1>3. Tags(c)' \subseteq Tags(c)
    BY TagsShrink
  <1>4. CASE b = c
    <2>1. m \notin InFlight'
      BY <1>0, <1>1 DEF InFlight, Items, FlightApart
    <2>2. InFlight' \subseteq InFlight
      BY FlightShrinks DEF DoPush
    <2>3. \A x \in InFlight' : ~ Same(x, m)
      BY <1>0, <2>1, <2>2 DEF FlightUnique
    <2>4. \A j \in jobs[c[1]] : ~ Same(m, j)
      BY <1>0 DEF NotYetRun
    <2>5. m.tag \notin Tags(c)'
      BY <1>1, <1>4, <2>3, <2>4, TagsLater DEF Same
    <2>6. m.tag \in Tags(c)
      BY <1>0, <1>1, <1>4, TagsIs
    <2>7. Tags(c)' \subseteq Tags(c) \ {m.tag}
      BY <1>3, <2>5
    <2>8. CASE UNCHANGED msgs
      <3>1. Unacked(c)' = Unacked(c)
        BY <2>8 DEF Unacked, Held
      <3> QED
        BY <1>1, <2>6, <2>7, <3>1, RoomLess
    <2>9. ASSUME NEW s \in Held, NEW x \in Message, msgs[s].chan = b, msgs' = [msgs EXCEPT ![s] = x], x.chan = None
          PROVE  RoomAt(c)'
      <3>1. Unacked(c)' = Unacked(c) \ {s}
        BY <1>4, <2>9, UnackedLess
      <3> QED
        BY <1>1, <2>6, <2>7, <3>1, RoomLess
    <2> QED
      BY <1>2, <2>8, <2>9
  <1>5. CASE b # c
    <2>2. ASSUME NEW s \in Held, NEW x \in Message, msgs[s].chan = b, msgs' = [msgs EXCEPT ![s] = x], x.chan = None
          PROVE  Unacked(c)' = Unacked(c)
      BY <1>0, <1>5, <2>2, UnackedSame
    <2>3. Unacked(c)' = Unacked(c)
      <3>1. CASE UNCHANGED msgs
        BY <3>1 DEF Unacked, Held
      <3> QED
        BY <1>2, <2>2, <3>1
    <2> QED
      BY <1>1, <1>3, <2>3, RoomKept
  <1> QED
    BY <1>4, <1>5

LEMMA SettleRoom ==
  ASSUME BaseInv, TagInv, UniqueInv, RoomInv, [Next]_vars, ~ DoPush,
         NEW c \in Channel, NEW w \in Worker, NEW j \in jobs[w], DoSettles(w, j)
  PROVE  RoomAt(c)'
  <1>0. /\ TypeInv /\ Held \subseteq Slot /\ c # None /\ c[1] \in Worker
        /\ JobUnique /\ NotYetRun /\ JobInv /\ EntryInv
    BY ChannelIs DEF BaseInv, PlaceInv, Held, UniqueInv
  <1>1. UNCHANGED <<chan, inbox, hand, mpsc>> /\ j.step # "schedule"
    BY SettleEffect DEF DoSettles
  <1>2. \/ UNCHANGED msgs
        \/ \E s \in Held : /\ Names(w, j.task, s)
                           /\ \/ msgs' = [msgs EXCEPT ![s] = None]
                              \/ \E x \in Message : msgs' = [msgs EXCEPT ![s] = x] /\ x.chan = None
    BY SettleEffect DEF DoSettles
  <1>3. Tags(c)' \subseteq Tags(c)
    BY TagsShrink
  <1>4. j.chan \in Channel /\ On(j) /\ j.chan[1] = w /\ j.task \in Task
    BY <1>0, JobType DEF JobInv
  <1>5. ASSUME NEW s \in Held, Names(w, j.task, s)
        PROVE  msgs[s].chan = j.chan
    <2>1. deliveries[w][j.task] = <<msgs[s].chan, msgs[s].tag>> /\ msgs[s].chan # None
      BY <1>5 DEF Names
    <2>2. deliveries[w][j.task] # None
      BY <1>0, <2>1, HeldType, NoneAssumption DEF Message
    <2>3. deliveries[w][j.task][1] = <<w, QueueOf[j.task]>>
      BY <1>0, <1>4, <2>2 DEF EntryInv
    <2>4. msgs[s].chan = <<w, QueueOf[j.task]>>
      BY <2>1, <2>3
    <2> QED
      BY <1>4, <2>4, ChannelIs DEF On
  <1>6. CASE c = j.chan
    <2>1. \A m \in InFlight : ~ Same(m, j)
      BY <1>0 DEF NotYetRun
    <2>2. ASSUME NEW i \in jobs'[w], i.step # "schedule", Same(i, j)
          PROVE  FALSE
      <3>1. CASE Ends(w, j)
        <4>1. i \in jobs[w] /\ i # j
          BY <1>0, <3>1, EndsMember
        <4> QED
          BY <1>0, <2>2, <4>1 DEF JobUnique
      <3>2. CASE ~ Ends(w, j)
        <4>1. PICK k \in Job : Becomes(w, j, k) /\ k.step = "schedule"
          BY <3>2, SettleEffect DEF DoSettles
        <4>2. i \in jobs[w] /\ i # j
          BY <1>0, <2>2, <4>1, BecomesMember
        <4> QED
          BY <1>0, <2>2, <4>2 DEF JobUnique
      <3> QED
        BY <3>1, <3>2
    <2>3. InFlight' = InFlight
      BY <1>1 DEF InFlight, Items
    <2>4. j.tag \notin Tags(c)'
      BY <1>4, <1>6, <2>1, <2>2, <2>3, TagsLater DEF Same
    <2>5. j.tag \in Tags(c)
      BY <1>1, <1>4, <1>6, TagsIs
    <2>6. Tags(c)' \subseteq Tags(c) \ {j.tag}
      BY <1>3, <2>4
    <2>7. CASE UNCHANGED msgs
      <3>1. Unacked(c)' = Unacked(c)
        BY <2>7 DEF Unacked, Held
      <3> QED
        BY <1>1, <2>5, <2>6, <3>1, RoomLess
    <2>8. ASSUME NEW s \in Held, Names(w, j.task, s),
                 \/ msgs' = [msgs EXCEPT ![s] = None]
                 \/ \E x \in Message : msgs' = [msgs EXCEPT ![s] = x] /\ x.chan = None
          PROVE  RoomAt(c)'
      <3>1. Unacked(c)' = Unacked(c) \ {s}
        BY <1>5, <1>6, <2>8, UnackedLess
      <3> QED
        BY <1>1, <2>5, <2>6, <3>1, RoomLess
    <2> QED
      BY <1>2, <2>7, <2>8
  <1>7. CASE c # j.chan
    <2>2. ASSUME NEW s \in Held, Names(w, j.task, s), NEW x \in Message, msgs' = [msgs EXCEPT ![s] = x], x.chan = None
          PROVE  Unacked(c)' = Unacked(c)
      BY <1>0, <1>5, <1>7, <2>2, UnackedSame
    <2>3. ASSUME NEW s \in Held, Names(w, j.task, s), msgs' = [msgs EXCEPT ![s] = None]
          PROVE  Unacked(c)' = Unacked(c)
      <3>1. Held' = Held \ {s} /\ \A r \in Slot : r # s => msgs'[r] = msgs[r]
        BY <1>0, <2>3, NotHeldAfter
      <3>2. msgs[s].chan # c
        BY <1>5, <1>7, <2>3
      <3>3. \A r : r \in Unacked(c)' <=> r \in Unacked(c)
        BY <1>0, <3>1, <3>2, UnackedIs, UnackedLater
      <3> QED
        BY <3>3
    <2>4. Unacked(c)' = Unacked(c)
      <3>1. CASE UNCHANGED msgs
        BY <3>1 DEF Unacked, Held
      <3> QED
        BY <1>2, <2>2, <2>3, <3>1
    <2> QED
      BY <1>1, <1>3, <2>4, RoomKept
  <1> QED
    BY <1>6, <1>7

\* A channel that opens has nothing on it.
LEMMA EnsureRoom ==
  ASSUME BaseInv, TagInv, UniqueInv, RoomInv, [Next]_vars, ~ DoPush,
         NEW c \in Channel, NEW b \in Channel, EnsureConsumer(b[1], b[2])
  PROVE  RoomAt(c)'
  <1>0. TypeInv /\ Prefetch \in Nat /\ chan \in [Channel -> {"none", "open", "closed"}]
    BY AmqpAssumption DEF BaseInv, TypeInv, TypeOK
  <1>1. chan' = [chan EXCEPT ![b] = "open"] /\ UNCHANGED <<msgs, inbox, hand, mpsc, jobs>> /\ b[2] \notin consuming[b[1]]
    BY <1>0, EnsureEffect
  <1>2. Tags(c)' \subseteq Tags(c)
    BY TagsShrink
  <1>3. Unacked(c)' = Unacked(c)
    BY <1>1 DEF Unacked, Held
  <1>4. CASE b # c
    <2>1. chan'[c] = chan[c]
      BY <1>0, <1>1, <1>4
    <2> QED
      BY <1>2, <1>3, <2>1, RoomKept
  <1>5. CASE b = c
    <2>1. chan[c] = "none"
      BY <1>1, <1>5 DEF BaseInv, PlaceInv, ChanInv
    <2>2. ASSUME NEW n \in Tags(c) PROVE FALSE
      <3>1. ASSUME NEW m \in InFlight, m.chan = c PROVE FALSE
        BY <2>1, <3>1 DEF BaseInv, PlaceInv, FlightInv, On
      <3>2. ASSUME NEW j \in jobs[c[1]], j.chan = c PROVE FALSE
        BY <2>1, <3>2, ChannelIs DEF BaseInv, PlaceInv, JobInv, On
      <3> QED
        BY <3>1, <3>2, TagsIs
    <2>3. ASSUME NEW s \in Unacked(c) PROVE FALSE
      BY <2>1, ChannelIs, UnackedIs DEF BaseInv, PlaceInv, CopiesInv, CopyOK
    <2>4. Tags(c)' = {} /\ Unacked(c)' = {}
      BY <1>2, <1>3, <2>2, <2>3
    <2>5. IsFiniteSet({}) /\ Cardinality({}) = 0
      BY FS_EmptySet
    <2> QED
      BY <1>0, <2>4, <2>5 DEF RoomAt
  <1> QED
    BY <1>4, <1>5

LEMMA CloseRoom ==
  ASSUME BaseInv, TagInv, UniqueInv, RoomInv, [Next]_vars, ~ DoPush, NEW c \in Channel,
         NEW C, msgs' = Requeued(C), chan'[c] = "open" => c \notin C /\ chan[c] = "open"
  PROVE  RoomAt(c)'
  <1>1. Tags(c)' \subseteq Tags(c)
    BY TagsShrink
  <1>2. /\ Held' = Held
        /\ \A s \in Held : IF msgs[s].chan \in C THEN msgs'[s].chan = None ELSE msgs'[s] = msgs[s]
    BY RequeuedEffect
  <1>3. ASSUME c \notin C PROVE Unacked(c)' = Unacked(c)
    <2>1. \A s : s \in Unacked(c)' <=> s \in Unacked(c)
      BY <1>2, <1>3, ChannelIs, UnackedIs, UnackedLater
    <2> QED
      BY <2>1
  <1> QED
    BY <1>1, <1>3, RoomKept

LEMMA RoomStep ==
  ASSUME BaseInv, TagInv, UniqueInv, RoomInv, [Next]_vars
  PROVE  RoomInv'
  <1> SUFFICES ASSUME NEW c \in Channel PROVE RoomAt(c)'
    BY DEF RoomInv
  <1>0. /\ TypeInv /\ Held \subseteq Slot /\ c # None /\ c[1] \in Worker /\ c \in {c[1]} \X Queue
        /\ chan \in [Channel -> {"none", "open", "closed"}]
    BY ChannelIs DEF BaseInv, Held, TypeInv, TypeOK
  <1>1. CASE DoPush
    BY <1>1, PushRoom DEF DoPush
  <1>2. CASE ~ DoPush
    <2> USE <1>2
    <2>1. Tags(c)' \subseteq Tags(c)
      BY TagsShrink
    <2>2. CASE DoReject
      BY <2>2, RejectRoom DEF DoReject
    <2>3. CASE DoSettle
      BY <2>3, SettleRoom DEF DoSettle, DoSettles
    <2>4. CASE DoEnsure
      BY <2>4, EnsureRoom DEF DoEnsure
    <2>5. ASSUME NEW b \in Channel, Closes(b) PROVE RoomAt(c)'
      <3>1. msgs' = Requeued({b}) /\ chan' = [chan EXCEPT ![b] = "closed"]
        BY <1>0, <2>5, ClosesEffect
      <3>2. chan'[c] = "open" => c \notin {b} /\ chan[c] = "open"
        BY <1>0, <3>1
      <3> QED
        BY <3>1, <3>2, CloseRoom
    <2>6. ASSUME NEW w \in Worker, Crash(w) PROVE RoomAt(c)'
      <3>1. /\ msgs' = Requeued({w} \X Queue)
            /\ chan' = [d \in Channel |-> IF d[1] = w THEN "closed" ELSE chan[d]]
        BY <1>0, <2>6, CrashEffect
      <3>2. chan'[c] = "open" => c \notin {w} \X Queue /\ chan[c] = "open"
        BY <3>1
      <3> QED
        BY <3>1, <3>2, CloseRoom
    <2>7. ASSUME NEW s \in Slot, NEW m \in Message, msgs' = [msgs EXCEPT ![s] = m], m.chan = None,
                 s \in Held => msgs[s].chan = None, UNCHANGED chan
          PROVE  RoomAt(c)'
      <3>1. Unacked(c)' = Unacked(c)
        BY <1>0, <2>7, UnackedSame
      <3> QED
        BY <2>1, <2>7, <3>1, RoomKept
    <2>8. CASE UNCHANGED msgs /\ UNCHANGED chan
      <3>1. Unacked(c)' = Unacked(c)
        BY <2>8 DEF Unacked, Held
      <3> QED
        BY <2>1, <2>8, <3>1, RoomKept
    <2>9. CASE DoEnqueue
      BY <1>0, <2>7, <2>9, EnqueueEffect DEF DoEnqueue
    <2>10. CASE DoMove
      BY <1>0, <2>7, <2>10, MoveEffect DEF DoMove
    <2>11. CASE DoSchedule
      BY <1>0, <2>7, <2>8, <2>11, ScheduleEffect DEF DoSchedule
    <2> QED
      BY <2>2, <2>3, <2>4, <2>5, <2>6, <2>8, <2>9, <2>10, <2>11, Frames DEF DoClose, DoCrash
  <1> QED
    BY <1>1, <1>2

-----------------------------------------------------------------------------
(* The mpsc channel never fills: what is in it, and what a loop is about to   *)
(* send, has tags of the channels of the worker, at most Prefetch per channel *)

LEMMA Numbering ==
  ASSUME NEW S, IsFiniteSet(S), NEW n \in Nat, Cardinality(S) <= n
  PROVE  \E f \in [S -> 1..n] : \A x, y \in S : f[x] = f[y] => x = y
  <1> DEFINE k == Cardinality(S)
  <1>1. k \in Nat /\ ExistsBijection(1..k, S)
    BY FS_CardinalityType
  <1>2. PICK g \in Bijection(1..k, S) : TRUE
    BY <1>1 DEF ExistsBijection
  <1>3. g \in [1..k -> S] /\ \A x \in S : \E i \in 1..k : g[i] = x
    BY <1>2 DEF Bijection, Injection, Surjection
  <1> DEFINE f == [x \in S |-> CHOOSE i \in 1..k : g[i] = x]
  <1>4. \A x \in S : f[x] \in 1..k /\ g[f[x]] = x
    BY <1>3
  <1>5. f \in [S -> 1..n]
    BY <1>1, <1>4
  <1> QED
    BY <1>4, <1>5

Number(c) == CHOOSE f \in [Tags(c) -> 1..Prefetch] : \A x, y \in Tags(c) : f[x] = f[y] => x = y

LEMMA NumberIs ==
  ASSUME RoomInv, NEW c \in Channel
  PROVE  /\ \A x \in Tags(c) : Number(c)[x] \in 1..Prefetch
         /\ \A x, y \in Tags(c) : Number(c)[x] = Number(c)[y] => x = y
  <1>1. IsFiniteSet(Tags(c)) /\ Cardinality(Tags(c)) <= Prefetch /\ Prefetch \in Nat
    BY AmqpAssumption DEF RoomInv, RoomAt
  <1>2. \E f \in [Tags(c) -> 1..Prefetch] : \A x, y \in Tags(c) : f[x] = f[y] => x = y
    BY <1>1, Numbering
  <1>3. Number(c) \in [Tags(c) -> 1..Prefetch] /\ \A x, y \in Tags(c) : Number(c)[x] = Number(c)[y] => x = y
    BY <1>2 DEF Number
  <1> QED
    BY <1>3

LEMMA SendRoom ==
  ASSUME BaseInv, UniqueInv, RoomInv, NEW m \in hand
  PROVE  Len(mpsc[m.chan[1]]) < Capacity(m.chan[1])
  <1> DEFINE w == m.chan[1]
             q == Append(mpsc[w], m)
             n == Len(mpsc[w])
             P == Queues[w] \X (1..Prefetch)
             h == [i \in 1..(n + 1) |-> <<q[i].chan[2], Number(q[i].chan)[q[i].tag]>>]
  <1>0. TypeInv /\ m \in InFlight /\ FlightUnique /\ FlightApart /\ MpscUnique /\ FlightInv
    BY DEF BaseInv, PlaceInv, UniqueInv, InFlight
  <1>1. m \in Delivery /\ m.chan \in Channel /\ w \in Worker
    BY <1>0, FlightType, ChannelIs DEF Delivery
  <1>2. mpsc[w] \in Seq(Delivery)
    BY <1>0, <1>1 DEF TypeInv, TypeOK
  <1>3. \A x \in Range(mpsc[w]) : x \in InFlight /\ ~ Same(x, m) /\ x.chan[1] = w
    BY <1>0, <1>1 DEF FlightUnique, FlightApart, InFlight, Items, FlightInv
  <1>4. Distinct(q) /\ Range(q) = Range(mpsc[w]) \cup {m} /\ q \in Seq(Delivery)
    BY <1>0, <1>1, <1>2, <1>3, AppendItems DEF MpscUnique
  <1>5. n \in Nat /\ DOMAIN q = 1..(n + 1)
    BY <1>1, <1>2
  <1> HIDE DEF q, n
  <1>6. ASSUME NEW i \in 1..(n + 1)
        PROVE  /\ q[i].chan \in Channel /\ q[i].chan = <<w, q[i].chan[2]>> /\ q[i].chan[2] \in Queues[w]
               /\ q[i].tag \in Tags(q[i].chan)
    <2> DEFINE x == q[i]
    <2>1. x \in Range(q)
      BY <1>5 DEF Range
    <2> HIDE DEF x
    <2>2. x \in InFlight /\ x.chan[1] = w
      BY <1>0, <1>3, <1>4, <2>1
    <2>3. x.chan \in Channel
      BY <1>0, <2>2, FlightType DEF Delivery
    <2>4. x.chan = <<w, x.chan[2]>> /\ x.chan[2] \in Queues[w]
      BY <2>2, <2>3 DEF Channel
    <2>5. x.tag \in Tags(x.chan)
      BY <2>2, TagsIs
    <2> QED
      BY <2>3, <2>4, <2>5 DEF x
  <1>7. h \in [1..(n + 1) -> P]
    BY <1>6, NumberIs
  <1>8. ASSUME NEW i \in 1..(n + 1), NEW k \in 1..(n + 1), h[i] = h[k]
        PROVE  i = k
    <2>1. q[i].chan[2] = q[k].chan[2] /\ Number(q[i].chan)[q[i].tag] = Number(q[k].chan)[q[k].tag]
      BY <1>8
    <2>2. q[i].chan = q[k].chan
      BY <1>6, <2>1
    <2>3. q[i].tag = q[k].tag
      BY <1>6, <2>1, <2>2, NumberIs
    <2> QED
      BY <1>4, <1>5, <2>2, <2>3 DEF Distinct, Same
  <1>9. h \in Injection(1..(n + 1), P)
    BY <1>7, <1>8 DEF Injection, IsInjective
  <1>10. IsFiniteSet(Queues[w]) /\ Cardinality(Queues[w]) \in Nat
    BY <1>1, AmqpAssumption, FS_Subset, FS_CardinalityType
  <1>11. Prefetch \in Nat /\ IsFiniteSet(1..Prefetch) /\ Cardinality(1..Prefetch) = Prefetch
    BY AmqpAssumption, FS_Interval
  <1>12. IsFiniteSet(P) /\ Cardinality(P) = Cardinality(Queues[w]) * Prefetch
    BY <1>10, <1>11, FS_Product
  <1>13. Cardinality(1..(n + 1)) <= Cardinality(P)
    BY <1>9, <1>12, FS_Injection
  <1>14. Cardinality(1..(n + 1)) = n + 1
    BY <1>5, FS_Interval
  <1> DEFINE a == Cardinality(Queues[w])
  <1>15. a \in Nat /\ n + 1 <= a * Prefetch /\ Capacity(w) = Prefetch * a
    BY <1>10, <1>12, <1>13, <1>14 DEF Capacity
  <1> HIDE DEF a, w
  <1>16. a * Prefetch = Prefetch * a /\ a * Prefetch \in Nat
    BY <1>11, <1>15
  <1>17. n < Capacity(w)
    BY <1>5, <1>15, <1>16
  <1> QED
    BY <1>17 DEF n, w

-----------------------------------------------------------------------------
(* The inductive invariant, and the theorems *)

IInv == BaseInv /\ TagInv /\ UniqueInv /\ CountInv /\ FateInv /\ SingleInv /\ RoomInv

LEMMA InitInv == Init => IInv
  <1> SUFFICES ASSUME Init PROVE IInv
    OBVIOUS
  <1>1. /\ msgs = [s \in Slot |-> None] /\ inbox = {} /\ hand = {}
        /\ chan = [c \in Channel |-> "none"] /\ fate = [t \in Task |-> "new"]
        /\ \A w \in Worker : mpsc[w] = <<>> /\ jobs[w] = {}
        /\ \A w \in Worker : \A t \in Task : deliveries[w][t] = None
    BY DEF Init
  <1>2. IsFiniteSet({}) /\ Cardinality({}) = 0
    BY FS_EmptySet
  <1>3. Held = {}
    BY <1>1 DEF Held
  <1>4. InFlight = {} /\ \A w \in Worker : Items(w) = {}
    BY <1>1 DEF InFlight, Items, Range
  <1>5. TypeInv
    <2>1. 0 \in 0..MaxFailures /\ 0 <= Concurrency
      BY AmqpAssumption
    <2>2. \A w \in Worker : Cardinality(jobs[w]) <= Concurrency
      BY <1>1, <1>2, <2>1
    <2>3. /\ msgs \in [Slot -> Message \cup {None}] /\ chan \in [Channel -> {"none", "open", "closed"}]
          /\ consuming \in [Worker -> SUBSET Queue] /\ loop \subseteq Channel /\ inbox \cup hand \subseteq Delivery
          /\ deliveries \in [Worker -> [Task -> (Channel \X Nat) \cup {None}]]
          /\ jobs \in [Worker -> SUBSET Job] /\ publishing \subseteq Worker /\ due \subseteq Task
          /\ failures \in [Task -> 0..MaxFailures] /\ fate \in [Task -> {"new", "sent", "done", "dropped"}]
          /\ plugin \in BOOLEAN
      BY <2>1 DEF Init
    <2>4. mpsc \in [Worker -> Seq(Delivery)]
      BY DEF Init
    <2> QED
      BY <1>1, <1>2, <2>2, <2>3, <2>4 DEF TypeInv, TypeOK
  <1>6. BaseInv
    BY <1>1, <1>3, <1>4, <1>5
       DEF BaseInv, PlaceInv, CopiesInv, FlightInv, JobInv, EntryInv, ChanInv
  <1>7. TagInv
    BY <1>1, <1>3 DEF TagInv, OneTag, EntryTag, InboxTag
  <1>8. UniqueInv
    BY <1>1, <1>4 DEF UniqueInv, FlightUnique, FlightApart, MpscUnique, JobUnique, NotYetRun, Distinct
  <1>9. CountInv
    BY <1>1, <1>3, <1>4 DEF CountInv, CountCopies, CountFlight, CountJobs
  <1>10. FateInv
    BY <1>1, <1>3, <1>4 DEF FateInv, NewInv, AckInv, SentInv, Unknown
  <1>11. SingleInv
    BY <1>1, <1>3, <1>4 DEF SingleInv, OneCopy, FlightLive, JobLive, SchedInv
  <1>12. RoomInv
    <2> SUFFICES ASSUME NEW c \in Channel PROVE RoomAt(c)
      BY DEF RoomInv
    <2>1. Tags(c) = {}
      BY <1>1, <1>4, TagsIs, ChannelIs
    <2>2. chan[c] = "none" /\ Prefetch \in Nat
      BY <1>1, AmqpAssumption
    <2> QED
      BY <1>2, <2>1, <2>2 DEF RoomAt
  <1> QED
    BY <1>6, <1>7, <1>8, <1>9, <1>10, <1>11, <1>12 DEF IInv

LEMMA NextInv == IInv /\ [Next]_vars => IInv'
  BY BaseStep, TagStep, UniqueStep, CountStep, FateStep, SingleStep, RoomStep DEF IInv

LEMMA Invariance == Spec => []IInv
  BY InitInv, NextInv, PTL DEF Spec

LEMMA AtMostOne ==
  ASSUME NEW S, \A x, y \in S : x = y
  PROVE  ~ (Cardinality(S) > 1)
  <1>1. CASE S = {}
    BY <1>1, FS_EmptySet
  <1>2. CASE S # {}
    <2>1. PICK x \in S : TRUE
      BY <1>2
    <2>2. S = {x}
      BY <2>1
    <2> QED
      BY <2>2, FS_Singleton
  <1> QED
    BY <1>1, <1>2

\* For all tasks, queues, workers and failures: a message that RabbitMQ has taken
\* stays there until its handler has succeeded, but for the eta guard; a second
\* copy of it, or a second worker that executes it, needs a closed channel (the
\* consumer loop, ack, nack, dead_letter and schedule of AmqpBroker).
THEOREM AmqpSafe == Spec => []NeitherLostNorDoubled
  <1>1. IInv => NeitherLostNorDoubled
    <2> SUFFICES ASSUME IInv PROVE NeitherLostNorDoubled
      OBVIOUS
    <2>0. BaseInv /\ TypeInv /\ SingleInv /\ SentInv
      BY DEF IInv, BaseInv, FateInv
    <2>1. TypeOK
      BY <2>0 DEF TypeInv
    <2>2. NoTaskVanishes
      <3> SUFFICES ASSUME NEW t \in Task, fate[t] = "sent"
                   PROVE  \/ Copies(t) # {}
                          \/ \E w \in Worker : \E j \in Executing(w, t) : j.step = "schedule"
        BY DEF NoTaskVanishes
      <3>1. Stored(t) \/ ToSchedule(t)
        BY <2>0 DEF SentInv
      <3>2. CASE Stored(t)
        BY <2>0, <3>2 DEF Stored, Copies, BaseInv, PlaceInv, CopiesInv, CopyOK
      <3>3. CASE ToSchedule(t)
        BY <3>3 DEF ToSchedule, Executing
      <3> QED
        BY <3>1, <3>2, <3>3
    <2>3. SecondCopyNeedsClosedChannel
      <3> SUFFICES ASSUME NEW t \in Task, Cardinality(Copies(t)) > 1
                   PROVE  "closed" \in Range(chan) /\ t \in Delayed
        BY DEF SecondCopyNeedsClosedChannel
      <3>1. CASE Single(t)
        <4>1. \A s, r \in Copies(t) : s = r
          BY <2>0, <3>1 DEF SingleInv, OneCopy, Copies, BaseInv, PlaceInv, CopiesInv, CopyOK
        <4> QED
          BY <4>1, AtMostOne
      <3>2. CASE ~ Single(t)
        BY <3>2 DEF Single
      <3> QED
        BY <3>1, <3>2
    <2>4. ExclusiveExecution
      <3> SUFFICES ASSUME NEW t \in Task, NEW v \in Worker, NEW w \in Worker, v # w,
                          NEW i \in Executing(v, t), NEW j \in Executing(w, t), "closed" \notin Range(chan)
                   PROVE  FALSE
        BY DEF ExclusiveExecution
      <3>1. i \in jobs[v] /\ j \in jobs[w] /\ i.task = t /\ j.task = t /\ Single(t)
        BY DEF Executing, Single
      <3>2. /\ i.chan \in Channel /\ On(i) /\ i.chan[1] = v
            /\ j.chan \in Channel /\ On(j) /\ j.chan[1] = w
        BY <2>0, <3>1, JobType DEF BaseInv, PlaceInv, JobInv
      <3>3. \A c \in Channel : chan[c] # "none" => chan[c] = "open"
        BY <2>0 DEF TypeInv, TypeOK, Range
      <3>4. Live(i) /\ Live(j)
        BY <3>1, <3>2, <3>3 DEF Live, On
      <3>5. CASE i.step = "schedule" /\ j.step = "schedule"
        BY <2>0, <3>1, <3>5 DEF SingleInv, SchedInv
      <3>6. (i.step # "schedule" => Waits(i)) /\ (j.step # "schedule" => Waits(j))
        BY <2>0, <3>1, <3>4 DEF SingleInv, JobLive
      <3>7. CASE i.step # "schedule" /\ j.step # "schedule"
        <4>1. Same(i, j)
          BY <2>0, <3>1, <3>6, <3>7, SameCopy DEF SingleInv
        <4> QED
          BY <3>2, <4>1 DEF Same
      <3>8. ASSUME NEW x \in jobs[v] \cup jobs[w], Waits(x), x.task = t
            PROVE  Stored(t)
        BY <3>8 DEF Waits, Stored, Tagged, Unacked
      <3>9. (i.step = "schedule" \/ j.step = "schedule") => ~ Stored(t)
        BY <2>0, <3>1 DEF SingleInv, SchedInv
      <3> QED
        BY <3>1, <3>5, <3>6, <3>7, <3>8, <3>9
    <2> QED
      BY <2>1, <2>2, <2>3, <2>4 DEF NeitherLostNorDoubled
  <1> QED
    BY <1>1, Invariance, PTL

\* ack, nack and dead_letter find, under the id of the task alone, the tag of the
\* delivery that the worker executes, and a copy in RabbitMQ that waits for it.
THEOREM AmqpResolves == Spec => []ResolvesOwnDelivery
  <1>1. IInv => ResolvesOwnDelivery
    <2> SUFFICES ASSUME IInv, NEW w \in Worker, NEW j \in jobs[w],
                        chan[j.chan] = "open", j.step # "schedule", Single(j.task)
                 PROVE  /\ deliveries[w][j.task] = <<j.chan, j.tag>>
                        /\ \E s \in Copies(j.task) : s \in Tagged(j.chan, j.tag)
      BY DEF ResolvesOwnDelivery
    <2>1. Waits(j) /\ Entry(j)
      BY DEF IInv, SingleInv, JobLive, Live
    <2>2. j.chan[1] = w
      BY DEF IInv, BaseInv, PlaceInv, JobInv
    <2>3. \A s \in Held : msgs[s].task = s[1]
      BY DEF IInv, BaseInv, PlaceInv, CopiesInv, CopyOK
    <2> QED
      BY <2>1, <2>2, <2>3 DEF Waits, Entry, Copies, Tagged, Unacked
  <1> QED
    BY <1>1, Invariance, PTL

\* A consumer loop that sends finds room: the capacity of the mpsc channel, the
\* prefetch count times the number of queues, is enough for every prefetch count.
THEOREM AmqpRoom == Spec => []SendNeverWaits
  <1>1. IInv => SendNeverWaits
    BY SendRoom DEF IInv, SendNeverWaits
  <1> QED
    BY <1>1, Invariance, PTL

\* For all limits, redeliveries and closed channels: what handle_failure has put
\* among the dead letters failed in its first run and in every retry it may have.
THEOREM AmqpRetries == Spec => []BuriedOnlyWhenExhausted
  <1>1. IInv => BuriedOnlyWhenExhausted
    <2> SUFFICES ASSUME IInv, NEW s \in At("dlq")
                 PROVE  msgs[s].task \in Garbage \/ Exhausted(msgs[s].task)
      BY DEF BuriedOnlyWhenExhausted, Exhausted
    <2>1. s \in Held /\ msgs[s].place = "dlq"
      BY DEF At
    <2>2. msgs[s].task = s[1]
      BY <2>1 DEF IInv, BaseInv, PlaceInv, CopiesInv, CopyOK
    <2> QED
      BY <2>1, <2>2 DEF IInv, CountInv, CountCopies
  <1> QED
    BY <1>1, Invariance, PTL
=============================================================================
