-------------------------- MODULE RedisBrokerProofs --------------------------
(***************************************************************************)
(* Proofs about RedisBroker, for any messages, queues and workers, any set *)
(* of workers that crash, any mentions of one message's id in another's    *)
(* text, and with or without commands that fail.                           *)
(***************************************************************************)
EXTENDS RedisBroker, FiniteSetTheorems, TLAPS

-----------------------------------------------------------------------------
(* The inductive invariant *)

\* The first item of s that contains the id t is this one.
OwnFirst(s, item, t) ==
    \E p \in 1..Len(s) : s[p] = item /\ \A i \in 1..(p - 1) : ~TextContains(s[i], t)

IdUnique(s) == \A i, k \in 1..Len(s) : s[i].id = s[k].id => i = k

\* A message is in its own queue, once.
QueueInv ==
    \A q \in Queue : IdUnique(queue[q]) /\ \A i \in 1..Len(queue[q]) : QueueOf[queue[q][i].id] = q

\* A message is in one place: once in its own queue, in the scheduled set, or in
\* the hands of one execution; and it was enqueued and is not yet successful,
\* unless its execution has yet to acknowledge the success.
PlaceInv ==
    /\ QueueInv
    /\ \A m, n \in scheduled : m.id = n.id => m = n
    /\ ExclusiveExecution
    /\ Queued \subseteq Sent /\ Scheduled \subseteq Sent
    /\ \A t \in done : t \notin Queued /\ t \notin Scheduled

\* The plan of an execution, and what it knows.
JobInv ==
    \A j \in jobs :
        /\ j.m.id = j.item.id /\ j.m.id \in Sent
        /\ j.pc = "run" => j.plan = None
        /\ j.pc = "push" => j.plan = "retry"
        /\ j.pc = "remove" => j.found = j.item
        /\ j.plan = "success" <=> j.m.id \in done

\* Only what was enqueued is successful, and a message whose id another one
\* mentions was enqueued after that one's success.
FollowInv ==
    /\ \A t \in done : client[t] = "sent"
    /\ \A t \in Task : client[t] \in {"push", "sent"} =>
           \A s \in Task : t \in Mentions[s] => s \in done

OwnInv == \A j \in Unacked : OwnFirst(processing[j.w], j.item, j.m.id)

\* An item that is twice in a list was left there by a failed ack.
DoubleInv ==
    \A w \in Worker : \A i, k \in 1..Len(processing[w]) :
        i # k /\ processing[w][i] = processing[w][k] => <<w, processing[w][i]>> \in stranded

RedisType == TypeOK /\ IsFiniteSet(scheduled)

RedisInv ==
    /\ RedisType /\ PlaceInv /\ JobInv /\ FollowInv /\ OwnInv /\ DoubleInv
    /\ NothingLeaks /\ NoTaskVanishes

-----------------------------------------------------------------------------
(* Lists *)

\* LPUSH
LEMMA PushFacts ==
  ASSUME NEW M, NEW s \in Seq(M), NEW x \in M
  PROVE  /\ <<x>> \o s \in Seq(M)
         /\ Len(<<x>> \o s) = Len(s) + 1 /\ Len(s) \in Nat
         /\ (<<x>> \o s)[1] = x
         /\ \A i \in 1..Len(s) : (<<x>> \o s)[i + 1] = s[i]
         /\ \A i \in 2..(Len(s) + 1) : (<<x>> \o s)[i] = s[i - 1] /\ i - 1 \in 1..Len(s)
  <1>1. <<x>> \in Seq(M) /\ Len(<<x>>) = 1 /\ <<x>>[1] = x
    OBVIOUS
  <1>2. Len(<<x>> \o s) = Len(s) + 1 /\ <<x>> \o s \in Seq(M) /\ Len(s) \in Nat
    BY <1>1
  <1>3. \A i \in 1..(Len(s) + 1) : (<<x>> \o s)[i] = IF i <= 1 THEN <<x>>[i] ELSE s[i - 1]
    BY <1>1, <1>2
  <1> QED
    BY <1>1, <1>2, <1>3

LEMMA PushRange ==
  ASSUME NEW M, NEW s \in Seq(M), NEW x \in M
  PROVE  Range(<<x>> \o s) = Range(s) \cup {x}
  <1> DEFINE t == <<x>> \o s
  <1>1. DOMAIN t = 1..(Len(s) + 1) /\ DOMAIN s = 1..Len(s) /\ Len(s) \in Nat
    BY PushFacts
  <1>2. \A i \in DOMAIN t : i = 1 \/ i \in 2..(Len(s) + 1)
    BY <1>1
  <1>3. \A i \in DOMAIN s : i + 1 \in DOMAIN t
    BY <1>1
  <1>4. 1 \in DOMAIN t
    BY <1>1
  <1>5. t[1] = x /\ (\A i \in 1..Len(s) : t[i + 1] = s[i])
        /\ \A i \in 2..(Len(s) + 1) : t[i] = s[i - 1] /\ i - 1 \in 1..Len(s)
    BY PushFacts
  <1> HIDE DEF t
  <1>6. Range(t) \subseteq Range(s) \cup {x}
    BY <1>1, <1>2, <1>5 DEF Range
  <1>7. Range(s) \cup {x} \subseteq Range(t)
    BY <1>1, <1>3, <1>4, <1>5 DEF Range
  <1> QED
    BY <1>6, <1>7 DEF t

\* RIGHT of BLMOVE
LEMMA FrontFacts ==
  ASSUME NEW M, NEW s \in Seq(M), s # <<>>
  PROVE  /\ Front(s) \in Seq(M) /\ Last(s) \in M
         /\ Len(s) \in Nat /\ Len(s) >= 1 /\ Len(Front(s)) = Len(s) - 1
         /\ \A i \in 1..(Len(s) - 1) : Front(s)[i] = s[i]
         /\ Last(s) = s[Len(s)]
         /\ Range(s) = Range(Front(s)) \cup {Last(s)}
  <1>1. Len(s) \in Nat /\ Len(s) >= 1
    OBVIOUS
  <1>2. /\ Front(s) \in Seq(M) /\ Len(Front(s)) = Len(s) - 1
        /\ \A i \in 1..(Len(s) - 1) : Front(s)[i] = s[i]
    BY <1>1 DEF Front
  <1>3. Last(s) = s[Len(s)] /\ Last(s) \in M
    BY <1>1 DEF Last
  <1>4. DOMAIN s = 1..Len(s) /\ DOMAIN Front(s) = 1..(Len(s) - 1)
    BY <1>1, <1>2
  <1>5. \A i \in 1..Len(s) : i \in 1..(Len(s) - 1) \/ i = Len(s)
    BY <1>1
  <1>6. Len(s) \in 1..Len(s) /\ \A i \in 1..(Len(s) - 1) : i \in 1..Len(s)
    BY <1>1
  <1>7. Range(s) = Range(Front(s)) \cup {Last(s)}
    BY <1>2, <1>3, <1>4, <1>5, <1>6 DEF Range
  <1> QED
    BY <1>1, <1>2, <1>3, <1>7

\* LREM 1, of an item that is at p first.
LEMMA RemoveFacts ==
  ASSUME NEW M, NEW s \in Seq(M), NEW e, NEW p \in 1..Len(s), s[p] = e, \A i \in 1..(p - 1) : s[i] # e
  PROVE  /\ RemoveFirst(s, e) \in Seq(M)
         /\ Len(RemoveFirst(s, e)) = Len(s) - 1 /\ Len(s) \in Nat
         /\ \A i \in 1..(p - 1) : RemoveFirst(s, e)[i] = s[i]
         /\ \A i \in p..(Len(s) - 1) : RemoveFirst(s, e)[i] = s[i + 1]
  <1> DEFINE I == {i \in 1..Len(s) : s[i] = e}
             a == SubSeq(s, 1, p - 1)
             b == SubSeq(s, p + 1, Len(s))
  <1>1. p \in I /\ \A i \in I : p <= i
    OBVIOUS
  <1>2. Min(I) = p
    <2>1. \A x \in I : (\A y \in I : x =< y) => x = p
      BY <1>1
    <2> QED
      BY <1>1, <2>1 DEF Min
  <1>3. SelectInSeq(s, LAMBDA v : v = e) = p
    BY <1>1, <1>2 DEF SelectInSeq
  <1>4. RemoveFirst(s, e) = a \o b
    BY <1>3 DEF RemoveFirst, RemoveAt
  <1>5. Len(s) \in Nat /\ p \in Nat
    OBVIOUS
  <1>6. a \in Seq(M) /\ Len(a) = p - 1 /\ \A i \in 1..(p - 1) : a[i] = s[i]
    BY <1>5
  <1>7. b \in Seq(M) /\ Len(b) = Len(s) - p /\ \A i \in 1..(Len(s) - p) : b[i] = s[i + p]
    BY <1>5
  <1> HIDE DEF a, b
  <1>8. a \o b \in Seq(M) /\ Len(a \o b) = Len(s) - 1
    <2>1. a \o b \in Seq(M) /\ Len(a \o b) = Len(a) + Len(b)
      <3>1. a \in Seq(M) /\ b \in Seq(M)
        BY <1>6, <1>7
      <3> QED
        BY <3>1
    <2>2. (p - 1) + (Len(s) - p) = Len(s) - 1
      BY <1>5
    <2> QED
      BY <1>6, <1>7, <2>1, <2>2
  <1>9. \A i \in 1..(Len(s) - 1) : (a \o b)[i] = IF i <= p - 1 THEN a[i] ELSE b[i - (p - 1)]
    BY <1>5, <1>6, <1>7, <1>8
  <1>10. \A i \in 1..(p - 1) : (a \o b)[i] = s[i]
    BY <1>5, <1>6, <1>9
  <1>11. \A i \in p..(Len(s) - 1) : (a \o b)[i] = s[i + 1]
    <2>1. \A i \in p..(Len(s) - 1) : i \in 1..(Len(s) - 1) /\ ~(i <= p - 1) /\ i - (p - 1) \in 1..(Len(s) - p)
      BY <1>5
    <2>2. \A i \in p..(Len(s) - 1) : (i - (p - 1)) + p = i + 1
      BY <1>5
    <2>3. \A i \in p..(Len(s) - 1) : b[i - (p - 1)] = s[(i - (p - 1)) + p]
      BY <1>7, <2>1
    <2> QED
      BY <1>9, <2>1, <2>2, <2>3
  <1> QED
    BY <1>4, <1>5, <1>8, <1>10, <1>11

-----------------------------------------------------------------------------
(* What ack finds *)

LEMMA OwnFirstIn ==
  ASSUME NEW s \in Seq(Message), NEW item, NEW t, OwnFirst(s, item, t)
  PROVE  item \in Range(s)
  <1>1. DOMAIN s = 1..Len(s)
    OBVIOUS
  <1> QED
    BY <1>1 DEF OwnFirst, Range

\* An item that was pushed last is found first,
LEMMA OwnFirstNew ==
  ASSUME NEW s \in Seq(Message), NEW x \in Message
  PROVE  OwnFirst(<<x>> \o s, x, x.id)
  <1>1. 1 \in 1..Len(<<x>> \o s) /\ (<<x>> \o s)[1] = x /\ 1..(1 - 1) = {}
    BY PushFacts
  <1> QED
    BY <1>1 DEF OwnFirst

\* and one that does not contain the id is in nobody's way.
LEMMA OwnFirstPush ==
  ASSUME NEW s \in Seq(Message), NEW x \in Message, NEW item, NEW t,
         OwnFirst(s, item, t), ~TextContains(x, t)
  PROVE  OwnFirst(<<x>> \o s, item, t)
  <1> DEFINE r == <<x>> \o s
  <1>1. PICK p \in 1..Len(s) : s[p] = item /\ \A i \in 1..(p - 1) : ~TextContains(s[i], t)
    BY DEF OwnFirst
  <1>2. /\ Len(r) = Len(s) + 1 /\ Len(s) \in Nat /\ r[1] = x
        /\ \A i \in 1..Len(s) : r[i + 1] = s[i]
        /\ \A i \in 2..(Len(s) + 1) : r[i] = s[i - 1]
    BY PushFacts
  <1> HIDE DEF r
  <1>3. p + 1 \in 1..Len(r) /\ r[p + 1] = item
    BY <1>1, <1>2
  <1>4. \A i \in 1..((p + 1) - 1) : i = 1 \/ (i \in 2..(Len(s) + 1) /\ i - 1 \in 1..(p - 1))
    BY <1>2
  <1>5. \A i \in 1..((p + 1) - 1) : ~TextContains(r[i], t)
    <2> TAKE i \in 1..((p + 1) - 1)
    <2>1. CASE i = 1
      BY <1>2, <2>1
    <2>2. CASE i \in 2..(Len(s) + 1) /\ i - 1 \in 1..(p - 1)
      <3>1. r[i] = s[i - 1] /\ ~TextContains(s[i - 1], t)
        BY <1>1, <1>2, <2>2
      <3> QED
        BY <3>1
    <2> QED
      BY <1>4, <2>1, <2>2
  <1>6. OwnFirst(r, item, t)
    BY <1>3, <1>5 DEF OwnFirst
  <1> QED
    BY <1>6 DEF r

\* The removal of an item by its own ack: it takes one occurrence, and what other
\* executions would find stays first for them.
LEMMA RemoveOwn ==
  ASSUME NEW s \in Seq(Message), NEW e \in Message, OwnFirst(s, e, e.id)
  PROVE  /\ RemoveFirst(s, e) \in Seq(Message)
         /\ Range(RemoveFirst(s, e)) \subseteq Range(s)
         /\ Range(s) \subseteq Range(RemoveFirst(s, e)) \cup {e}
         /\ e \in Range(RemoveFirst(s, e)) => \E i, k \in 1..Len(s) : i # k /\ s[i] = e /\ s[k] = e
         /\ \A i, k \in 1..Len(RemoveFirst(s, e)) :
               i # k /\ RemoveFirst(s, e)[i] = RemoveFirst(s, e)[k] =>
                   \E a, b \in 1..Len(s) : a # b /\ s[a] = s[b] /\ s[a] = RemoveFirst(s, e)[i]
         /\ \A item, t : item # e /\ OwnFirst(s, item, t) => OwnFirst(RemoveFirst(s, e), item, t)
  <1>1. PICK p \in 1..Len(s) : s[p] = e /\ \A i \in 1..(p - 1) : ~TextContains(s[i], e.id)
    BY DEF OwnFirst
  <1>2. \A i \in 1..(p - 1) : s[i] # e
    BY <1>1 DEF TextContains
  <1> DEFINE r == RemoveFirst(s, e)
  <1>3. /\ r \in Seq(Message) /\ Len(r) = Len(s) - 1 /\ Len(s) \in Nat /\ p \in Nat
        /\ \A i \in 1..(p - 1) : r[i] = s[i]
        /\ \A i \in p..(Len(s) - 1) : r[i] = s[i + 1]
    BY <1>1, <1>2, RemoveFacts
  <1> HIDE DEF r
  <1>4. DOMAIN r = 1..(Len(s) - 1) /\ DOMAIN s = 1..Len(s)
    BY <1>3
  <1> DEFINE at(i) == IF i < p THEN i ELSE i + 1
  <1>5. \A i \in 1..(Len(s) - 1) : at(i) \in 1..Len(s) /\ at(i) # p
    BY <1>3
  <1>6. \A i, k \in 1..(Len(s) - 1) : i # k => at(i) # at(k)
    BY <1>3
  <1>7. \A i \in 1..(Len(s) - 1) : r[i] = s[at(i)]
    <2> TAKE i \in 1..(Len(s) - 1)
    <2>1. CASE i < p
      <3>1. i \in 1..(p - 1)
        BY <1>3, <2>1
      <3> QED
        BY <1>3, <2>1, <3>1
    <2>2. CASE ~(i < p)
      <3>1. i \in p..(Len(s) - 1)
        BY <1>3, <2>2
      <3> QED
        BY <1>3, <2>2, <3>1
    <2> QED
      BY <2>1, <2>2
  <1>8. \A x \in 1..Len(s) : x # p => \E i \in 1..(Len(s) - 1) : x = at(i)
    <2> TAKE x \in 1..Len(s)
    <2> HAVE x # p
    <2>1. CASE x < p
      <3>1. x \in 1..(Len(s) - 1) /\ at(x) = x
        BY <1>3, <2>1
      <3> QED
        BY <3>1
    <2>2. CASE x > p
      <3>1. x - 1 \in 1..(Len(s) - 1) /\ at(x - 1) = x
        BY <1>3, <2>2
      <3> QED
        BY <3>1
    <2> QED
      BY <1>3, <2>1, <2>2
  <1>9. ASSUME NEW item, NEW t, item # e, OwnFirst(s, item, t)
        PROVE  OwnFirst(r, item, t)
    <2>1. PICK x \in 1..Len(s) : s[x] = item /\ \A i \in 1..(x - 1) : ~TextContains(s[i], t)
      BY <1>9 DEF OwnFirst
    <2>2. x # p
      BY <1>1, <1>9, <2>1
    <2>3. PICK y \in 1..(Len(s) - 1) : x = at(y)
      BY <1>8, <2>2
    <2>4. \A i \in 1..(y - 1) : i \in 1..(Len(s) - 1) /\ at(i) \in 1..(x - 1)
      BY <1>3, <2>3
    <2>5. r[y] = item /\ y \in 1..Len(r)
      BY <1>3, <1>7, <2>1, <2>3
    <2> HIDE DEF at
    <2>6. \A i \in 1..(y - 1) : ~TextContains(r[i], t)
      BY <1>7, <2>1, <2>4
    <2> QED
      BY <2>5, <2>6 DEF OwnFirst
  <1> HIDE DEF at
  <1>10. Range(r) \subseteq Range(s)
    BY <1>4, <1>5, <1>7 DEF Range
  <1>11. Range(s) \subseteq Range(r) \cup {e}
    <2> SUFFICES ASSUME NEW x \in 1..Len(s), s[x] # e PROVE s[x] \in Range(r)
      BY <1>4 DEF Range
    <2>1. PICK i \in 1..(Len(s) - 1) : x = at(i)
      BY <1>1, <1>8
    <2> QED
      BY <1>4, <1>7, <2>1 DEF Range
  <1>12. e \in Range(r) => \E i, k \in 1..Len(s) : i # k /\ s[i] = e /\ s[k] = e
    BY <1>1, <1>4, <1>5, <1>7 DEF Range
  <1>13. \A i, k \in 1..Len(r) : i # k /\ r[i] = r[k] => \E a, b \in 1..Len(s) : a # b /\ s[a] = s[b] /\ s[a] = r[i]
    <2> SUFFICES ASSUME NEW i \in 1..(Len(s) - 1), NEW k \in 1..(Len(s) - 1), i # k, r[i] = r[k]
                 PROVE  \E a, b \in 1..Len(s) : a # b /\ s[a] = s[b] /\ s[a] = r[i]
      BY <1>3
    <2> QED
      BY <1>5, <1>6, <1>7
  <1> QED
    BY <1>3, <1>9, <1>10, <1>11, <1>12, <1>13 DEF r

-----------------------------------------------------------------------------
(* The queues *)

QueuesTyped == queue \in [Queue -> Seq(Message)]

LEMMA QueuedIs ==
  ASSUME QueuesTyped
  PROVE  \A t : t \in Queued <=> \E q \in Queue : \E i \in 1..Len(queue[q]) : queue[q][i].id = t
  <1>1. \A q \in Queue : DOMAIN queue[q] = 1..Len(queue[q])
    BY DEF QueuesTyped
  <1>2. \A q \in Queue : \A t : t \in Ids(queue[q]) <=> \E i \in 1..Len(queue[q]) : queue[q][i].id = t
    BY <1>1 DEF Ids
  <1> QED
    BY <1>2 DEF Queued

LEMMA QueuedIsNext ==
  ASSUME QueuesTyped'
  PROVE  \A t : t \in Queued' <=> \E q \in Queue : \E i \in 1..Len(queue'[q]) : queue'[q][i].id = t
  <1>1. \A q \in Queue : DOMAIN queue'[q] = 1..Len(queue'[q])
    BY DEF QueuesTyped
  <1>2. \A q \in Queue : \A t : t \in Ids(queue'[q]) <=> \E i \in 1..Len(queue'[q]) : queue'[q][i].id = t
    BY <1>1 DEF Ids
  <1> QED
    BY <1>2 DEF Queued, Ids

\* enqueue
LEMMA PushQueued ==
  ASSUME QueuesTyped, QueueInv, NEW m \in Message, Push(m), m.id \notin Queued
  PROVE  QueuesTyped' /\ QueueInv' /\ Queued' = Queued \cup {m.id}
  <1> DEFINE k == QueueOf[m.id]
             r == <<m>> \o queue[k]
  <1>1. k \in Queue /\ m.id \in Task
    BY RedisAssumption DEF Message
  <1>2. /\ r \in Seq(Message) /\ Len(r) = Len(queue[k]) + 1 /\ Len(queue[k]) \in Nat /\ r[1] = m
        /\ \A i \in 1..Len(queue[k]) : r[i + 1] = queue[k][i]
        /\ \A i \in 2..(Len(queue[k]) + 1) : r[i] = queue[k][i - 1] /\ i - 1 \in 1..Len(queue[k])
    BY <1>1, PushFacts DEF QueuesTyped
  <1>3. queue'[k] = r /\ (\A q \in Queue : q # k => queue'[q] = queue[q]) /\ queue' = [queue EXCEPT ![k] = r]
    BY <1>1 DEF Push, QueuesTyped
  <1> HIDE DEF r
  <1>4. QueuesTyped'
    BY <1>1, <1>2, <1>3 DEF QueuesTyped
  <1>5. \A i \in 1..(Len(queue[k]) + 1) : i = 1 \/ i \in 2..(Len(queue[k]) + 1)
    BY <1>2
  <1>6. 1 \in 1..(Len(queue[k]) + 1) /\ \A i \in 1..Len(queue[k]) : i + 1 \in 1..(Len(queue[k]) + 1)
    BY <1>2
  <1>7. \A i \in 2..(Len(queue[k]) + 1) : r[i].id # m.id /\ r[i].id \in Queued
    BY <1>1, <1>2, QueuedIs
  <1>8. Queued' = Queued \cup {m.id}
    <2>1. ASSUME NEW t \in Queued' PROVE t \in Queued \cup {m.id}
      <3>1. PICK q \in Queue : \E i \in 1..Len(queue'[q]) : queue'[q][i].id = t
        BY <1>4, QueuedIsNext
      <3>2. CASE q = k
        BY <1>2, <1>3, <1>5, <1>7, <3>1, <3>2
      <3>3. CASE q # k
        BY <1>3, <3>1, <3>3, QueuedIs
      <3> QED
        BY <3>2, <3>3
    <2>2. m.id \in Queued'
      BY <1>1, <1>2, <1>3, <1>4, <1>6, QueuedIsNext
    <2>3. ASSUME NEW t \in Queued PROVE t \in Queued'
      <3>1. PICK q \in Queue : \E i \in 1..Len(queue[q]) : queue[q][i].id = t
        BY QueuedIs
      <3>2. CASE q = k
        <4>1. PICK i \in 1..Len(queue[k]) : queue[k][i].id = t
          BY <3>1, <3>2
        <4>2. i + 1 \in 1..Len(r) /\ r[i + 1].id = t
          BY <1>2, <1>6, <4>1
        <4> QED
          BY <1>1, <1>3, <1>4, <4>2, QueuedIsNext
      <3>3. CASE q # k
        BY <1>3, <1>4, <3>1, <3>3, QueuedIsNext
      <3> QED
        BY <3>2, <3>3
    <2> QED
      BY <2>1, <2>2, <2>3
  <1>9. IdUnique(r) /\ \A i \in 1..Len(r) : QueueOf[r[i].id] = k
    <2>0. /\ \A i, j \in 1..Len(queue[k]) : queue[k][i].id = queue[k][j].id => i = j
          /\ \A i \in 1..Len(queue[k]) : QueueOf[queue[k][i].id] = k
      BY <1>1 DEF QueueInv, IdUnique
    <2>1. \A i, j \in 2..(Len(queue[k]) + 1) : r[i].id = r[j].id => i = j
      <3> TAKE i, j \in 2..(Len(queue[k]) + 1)
      <3> HAVE r[i].id = r[j].id
      <3>1. i - 1 \in 1..Len(queue[k]) /\ j - 1 \in 1..Len(queue[k]) /\ r[i] = queue[k][i - 1] /\ r[j] = queue[k][j - 1]
        BY <1>2
      <3>2. i - 1 = j - 1
        BY <2>0, <3>1
      <3> QED
        BY <1>2, <3>2
    <2>2. IdUnique(r)
      BY <1>2, <1>5, <1>7, <2>1 DEF IdUnique
    <2>3. \A i \in 2..(Len(queue[k]) + 1) : QueueOf[r[i].id] = k
      <3> TAKE i \in 2..(Len(queue[k]) + 1)
      <3>1. i - 1 \in 1..Len(queue[k]) /\ r[i] = queue[k][i - 1]
        BY <1>2
      <3> QED
        BY <2>0, <3>1
    <2> QED
      BY <1>2, <1>5, <2>2, <2>3
  <1>10. QueueInv'
    BY <1>3, <1>9 DEF QueueInv, IdUnique
  <1> QED
    BY <1>4, <1>8, <1>10

\* BLMOVE takes the rightmost message away.
LEMMA TakeQueued ==
  ASSUME QueuesTyped, QueueInv, NEW q \in Queue, queue[q] # <<>>, queue' = [queue EXCEPT ![q] = Front(@)]
  PROVE  /\ QueuesTyped' /\ QueueInv' /\ Last(queue[q]) \in Message
         /\ Last(queue[q]).id \in Queued /\ Last(queue[q]).id \notin Queued'
         /\ Queued = Queued' \cup {Last(queue[q]).id}
  <1> DEFINE n == Len(queue[q])
             x == Last(queue[q])
  <1>1. /\ Front(queue[q]) \in Seq(Message) /\ x \in Message /\ n \in Nat /\ n >= 1
        /\ Len(Front(queue[q])) = n - 1 /\ x = queue[q][n]
        /\ \A i \in 1..(n - 1) : Front(queue[q])[i] = queue[q][i]
    BY FrontFacts DEF QueuesTyped
  <1>2. queue'[q] = Front(queue[q]) /\ \A r \in Queue : r # q => queue'[r] = queue[r]
    BY DEF QueuesTyped
  <1>3. QueuesTyped'
    BY <1>1, <1>2 DEF QueuesTyped
  <1>4. n \in 1..n /\ (\A i \in 1..(n - 1) : i \in 1..n /\ i # n) /\ \A i \in 1..n : i = n \/ i \in 1..(n - 1)
    BY <1>1
  <1> HIDE DEF n, x
  <1>own. /\ \A i, j \in 1..n : queue[q][i].id = queue[q][j].id => i = j
          /\ \A i \in 1..n : QueueOf[queue[q][i].id] = q
    BY DEF n, QueueInv, IdUnique
  <1>new. Len(queue'[q]) = n - 1 /\ \A i \in 1..(n - 1) : queue'[q][i] = queue[q][i]
    BY <1>1, <1>2
  <1>old. \A i \in 1..n : queue[q][i].id \in Queued
    BY QueuedIs DEF n
  <1>5. x.id \in Queued /\ QueueOf[x.id] = q
    BY <1>1, <1>4, <1>own, <1>old
  <1>6. x.id \notin Queued'
    <2> SUFFICES ASSUME NEW r \in Queue, NEW i \in 1..Len(queue'[r]), queue'[r][i].id = x.id PROVE FALSE
      BY <1>3, QueuedIsNext
    <2>1. CASE r = q
      BY <1>1, <1>4, <1>own, <1>new, <2>1
    <2>2. CASE r # q
      BY <1>2, <1>5, <2>2 DEF QueueInv
    <2> QED
      BY <2>1, <2>2
  <1>7. Queued \subseteq Queued' \cup {x.id}
    <2> SUFFICES ASSUME NEW r \in Queue, NEW i \in 1..Len(queue[r]), queue[r][i].id # x.id
                 PROVE  queue[r][i].id \in Queued'
      BY QueuedIs
    <2>1. CASE r = q
      <3>1. i \in 1..(n - 1)
        BY <1>1, <1>4, <2>1 DEF n
      <3>2. i \in 1..Len(queue'[r]) /\ queue'[r][i].id = queue[r][i].id
        BY <1>1, <1>2, <2>1, <3>1
      <3> QED
        BY <1>3, <3>2, QueuedIsNext
    <2>2. CASE r # q
      BY <1>2, <1>3, <2>2, QueuedIsNext
    <2> QED
      BY <2>1, <2>2
  <1>8. Queued' \subseteq Queued
    <2> SUFFICES ASSUME NEW r \in Queue, NEW i \in 1..Len(queue'[r])
                 PROVE  queue'[r][i].id \in Queued
      BY <1>3, QueuedIsNext
    <2>1. CASE r = q
      BY <1>1, <1>4, <1>new, <1>old, <2>1
    <2>2. CASE r # q
      BY <1>2, <2>2, QueuedIs
    <2> QED
      BY <2>1, <2>2
  <1>9. QueueInv'
    <2>1. IdUnique(queue'[q]) /\ \A i \in 1..Len(queue'[q]) : QueueOf[queue'[q][i].id] = q
      BY <1>4, <1>own, <1>new DEF IdUnique
    <2> QED
      BY <1>2, <2>1 DEF QueueInv, IdUnique
  <1> QED
    BY <1>1, <1>3, <1>5, <1>6, <1>7, <1>8, <1>9 DEF x

\* An arrangement of a finite set has each element once.
LEMMA Arrangement ==
  ASSUME NEW S, IsFiniteSet(S), NEW f \in SetToSeqs(S)
  PROVE  /\ f \in Seq(S)
         /\ \A i, k \in 1..Len(f) : f[i] = f[k] => i = k
         /\ \A x \in S : \E i \in 1..Len(f) : f[i] = x
  <1> DEFINE n == Cardinality(S)
  <1>1. n \in Nat
    BY FS_CardinalityType
  <1>2. f \in [1..n -> S] /\ \A i, k \in 1..n : i # k => f[i] # f[k]
    BY DEF SetToSeqs
  <1>3. f \in Seq(S) /\ Len(f) = n
    BY <1>1, <1>2
  <1>4. ASSUME NEW x \in S, \A i \in 1..n : f[i] # x
        PROVE  FALSE
    <2>1. f \in [1..n -> S \ {x}]
      BY <1>2, <1>4
    <2>2. IsFiniteSet(S \ {x}) /\ Cardinality(S \ {x}) = n - 1
      BY FS_RemoveElement
    <2>3. IsFiniteSet(1..n) /\ Cardinality(1..n) = n
      <3>1. IsFiniteSet(1..n) /\ Cardinality(1..n) = IF 1 > n THEN 0 ELSE n - 1 + 1
        BY <1>1, FS_Interval
      <3> HIDE DEF n
      <3> QED
        BY <1>1, <3>1
    <2>4. Cardinality(S \ {x}) < Cardinality(1..n)
      BY <1>1, <2>2, <2>3
    <2> HIDE DEF n
    <2>5. \E i, k \in 1..n : i # k /\ f[i] = f[k]
      BY <2>1, <2>2, <2>3, <2>4, FS_PigeonHole
    <2> QED
      BY <1>2, <2>5
  <1> QED
    BY <1>2, <1>3, <1>4

\* The script pushes a batch of messages that were in no queue.
LEMMA PollQueued ==
  ASSUME QueuesTyped, QueueInv, NEW batch \in SUBSET Message, IsFiniteSet(batch),
         \A m, n \in batch : m.id = n.id => m = n,
         \A m \in batch : m.id \notin Queued,
         NEW front \in Pushed(batch), queue' = [q \in Queue |-> front[q] \o queue[q]]
  PROVE  QueuesTyped' /\ QueueInv' /\ Queued' = Queued \cup {m.id : m \in batch}
  <1> DEFINE Of(q) == {m \in batch : QueueOf[m.id] = q}
  <1>1. ASSUME NEW q \in Queue
        PROVE  /\ front[q] \in Seq(Message) /\ queue[q] \in Seq(Message)
               /\ \A i \in 1..Len(front[q]) : front[q][i] \in batch /\ QueueOf[front[q][i].id] = q
               /\ \A i, k \in 1..Len(front[q]) : front[q][i] = front[q][k] => i = k
               /\ \A m \in batch : QueueOf[m.id] = q => \E i \in 1..Len(front[q]) : front[q][i] = m
    <2>1. front[q] \in SetToSeqs(Of(q))
      BY DEF Pushed
    <2>2. IsFiniteSet(Of(q)) /\ Of(q) \subseteq Message /\ Of(q) \subseteq batch
      BY FS_Subset
    <2>3. /\ front[q] \in Seq(Of(q))
          /\ \A i, k \in 1..Len(front[q]) : front[q][i] = front[q][k] => i = k
          /\ \A x \in Of(q) : \E i \in 1..Len(front[q]) : front[q][i] = x
      BY <2>1, <2>2, Arrangement
    <2>4. \A i \in 1..Len(front[q]) : front[q][i] \in Of(q)
      BY <2>3
    <2>5. front[q] \in Seq(Message)
      BY <2>2, <2>3
    <2>6. queue[q] \in Seq(Message)
      BY DEF QueuesTyped
    <2> QED
      BY <2>3, <2>4, <2>5, <2>6
  <1>2. ASSUME NEW q \in Queue
        PROVE  /\ queue'[q] \in Seq(Message)
               /\ Len(queue'[q]) = Len(front[q]) + Len(queue[q]) /\ Len(front[q]) \in Nat /\ Len(queue[q]) \in Nat
               /\ \A i \in 1..Len(front[q]) : i \in 1..Len(queue'[q]) /\ queue'[q][i] = front[q][i]
               /\ \A i \in 1..Len(queue[q]) : /\ Len(front[q]) + i \in 1..Len(queue'[q])
                                              /\ queue'[q][Len(front[q]) + i] = queue[q][i]
               /\ \A i \in 1..Len(queue'[q]) :
                     \/ i \in 1..Len(front[q])
                     \/ i - Len(front[q]) \in 1..Len(queue[q]) /\ queue'[q][i] = queue[q][i - Len(front[q])]
    <2> DEFINE f == front[q]
               s == queue[q]
               r == f \o s
    <2>1. queue'[q] = r
      OBVIOUS
    <2>2. f \in Seq(Message) /\ s \in Seq(Message)
      BY <1>1
    <2> HIDE DEF f, s
    <2>3. r \in Seq(Message) /\ Len(r) = Len(f) + Len(s) /\ Len(f) \in Nat /\ Len(s) \in Nat
      BY <2>2
    <2>4. \A i \in 1..Len(r) : r[i] = IF i <= Len(f) THEN f[i] ELSE s[i - Len(f)]
      BY <2>2, <2>3
    <2> HIDE DEF r
    <2>5. \A i \in 1..Len(f) : i \in 1..Len(r) /\ r[i] = f[i]
      BY <2>3, <2>4
    <2>6. \A i \in 1..Len(s) : Len(f) + i \in 1..Len(r) /\ r[Len(f) + i] = s[i]
      <3> TAKE i \in 1..Len(s)
      <3>1. Len(f) + i \in 1..Len(r) /\ ~(Len(f) + i <= Len(f)) /\ (Len(f) + i) - Len(f) = i
        BY <2>3
      <3> QED
        BY <2>4, <3>1
    <2>7. \A i \in 1..Len(r) : i \in 1..Len(f) \/ (i - Len(f) \in 1..Len(s) /\ r[i] = s[i - Len(f)])
      BY <2>3, <2>4
    <2> QED
      BY <2>1, <2>3, <2>5, <2>6, <2>7 DEF f, s
  <1>3. QueuesTyped'
    BY <1>2 DEF QueuesTyped
  <1>4. ASSUME NEW q \in Queue, NEW i \in 1..Len(queue'[q])
        PROVE  QueueOf[queue'[q][i].id] = q /\ queue'[q][i].id \in Queued \cup {m.id : m \in batch}
    <2>1. CASE i \in 1..Len(front[q])
      BY <1>1, <1>2, <2>1
    <2>2. CASE i - Len(front[q]) \in 1..Len(queue[q]) /\ queue'[q][i] = queue[q][i - Len(front[q])]
      <3>1. PICK k \in 1..Len(queue[q]) : queue'[q][i] = queue[q][k]
        BY <2>2
      <3> QED
        BY <3>1, QueuedIs DEF QueueInv
    <2> QED
      BY <1>2, <2>1, <2>2
  <1>5. ASSUME NEW q \in Queue
        PROVE  IdUnique(queue'[q])
    <2> SUFFICES ASSUME NEW i \in 1..Len(queue'[q]), NEW k \in 1..Len(queue'[q]),
                        queue'[q][i].id = queue'[q][k].id
                 PROVE  i = k
      BY DEF IdUnique
    <2> DEFINE n == Len(front[q])
    <2>1. n \in Nat /\ i \in Nat /\ k \in Nat
      BY <1>2
    <2>2. CASE i \in 1..n /\ k \in 1..n
      <3>1. front[q][i].id = front[q][k].id /\ front[q][i] \in batch /\ front[q][k] \in batch
        BY <1>1, <1>2, <2>2
      <3> QED
        BY <1>1, <2>2, <3>1
    <2>3. ASSUME NEW a \in 1..n, NEW b \in 1..Len(queue[q]), front[q][a].id = queue[q][b].id
          PROVE  FALSE
      <3>1. front[q][a] \in batch /\ queue[q][b].id \in Queued
        BY <1>1, QueuedIs
      <3> QED
        BY <2>3, <3>1
    <2>4. CASE i \in 1..n /\ k \notin 1..n
      <3>1. k - n \in 1..Len(queue[q]) /\ queue'[q][k] = queue[q][k - n] /\ queue'[q][i] = front[q][i]
        BY <1>2, <2>4
      <3> QED
        BY <2>3, <2>4, <3>1
    <2>5. CASE i \notin 1..n /\ k \in 1..n
      <3>1. i - n \in 1..Len(queue[q]) /\ queue'[q][i] = queue[q][i - n] /\ queue'[q][k] = front[q][k]
        BY <1>2, <2>5
      <3> QED
        BY <2>3, <2>5, <3>1
    <2>6. CASE i \notin 1..n /\ k \notin 1..n
      <3>1. /\ i - n \in 1..Len(queue[q]) /\ queue'[q][i] = queue[q][i - n]
            /\ k - n \in 1..Len(queue[q]) /\ queue'[q][k] = queue[q][k - n]
        BY <1>2, <2>6
      <3>2. \A a, b \in 1..Len(queue[q]) : queue[q][a].id = queue[q][b].id => a = b
        BY DEF QueueInv, IdUnique
      <3>3. i - n = k - n
        BY <3>1, <3>2
      <3> QED
        BY <2>1, <3>3
    <2> QED
      BY <2>2, <2>4, <2>5, <2>6
  <1>6. QueueInv'
    <2>1. \A q \in Queue : \A i, k \in 1..Len(queue'[q]) : queue'[q][i].id = queue'[q][k].id => i = k
      BY <1>5 DEF IdUnique
    <2>2. \A q \in Queue : \A i \in 1..Len(queue'[q]) : QueueOf[queue'[q][i].id] = q
      BY <1>4
    <2> QED
      BY <2>1, <2>2 DEF QueueInv, IdUnique
  <1>7. Queued' \subseteq Queued \cup {m.id : m \in batch}
    <2> SUFFICES ASSUME NEW t \in Queued' PROVE t \in Queued \cup {m.id : m \in batch}
      OBVIOUS
    <2>1. PICK q \in Queue : \E i \in 1..Len(queue'[q]) : queue'[q][i].id = t
      BY <1>3, QueuedIsNext
    <2>2. PICK i \in 1..Len(queue'[q]) : queue'[q][i].id = t
      BY <2>1
    <2>3. queue'[q][i].id \in Queued \cup {m.id : m \in batch}
      BY <1>4
    <2> QED
      BY <2>2, <2>3
  <1>8. Queued \subseteq Queued'
    <2> SUFFICES ASSUME NEW q \in Queue, NEW i \in 1..Len(queue[q])
                 PROVE  queue[q][i].id \in Queued'
      BY QueuedIs
    <2>1. PICK k \in 1..Len(queue'[q]) : queue'[q][k] = queue[q][i]
      BY <1>2
    <2> QED
      BY <1>3, <2>1, QueuedIsNext
  <1>9. ASSUME NEW m \in batch
        PROVE  m.id \in Queued'
    <2>1. QueueOf[m.id] \in Queue
      BY RedisAssumption DEF Message
    <2>2. PICK i \in 1..Len(front[QueueOf[m.id]]) : front[QueueOf[m.id]][i] = m
      BY <1>1, <2>1
    <2>3. PICK q \in Queue : q = QueueOf[m.id]
      BY <2>1
    <2>4. i \in 1..Len(queue'[q]) /\ queue'[q][i] = m
      BY <1>2, <2>2, <2>3
    <2> QED
      BY <1>3, <2>4, QueuedIsNext
  <1> QED
    BY <1>3, <1>6, <1>7, <1>8, <1>9

-----------------------------------------------------------------------------
(* Types *)

\* The record k of an execution is j with another plan and step.
Updated(j, k) == k \in Job /\ k.w = j.w /\ k.item = j.item /\ k.m.id = j.m.id

\* handle_failure: one retry more.
LEMMA JobRetried ==
  ASSUME NEW j \in Job, NEW k, k = [j EXCEPT !.plan = "retry", !.pc = "find", !.m.retries = @ + 1]
  PROVE  Updated(j, k) /\ k.plan = "retry" /\ k.pc = "find"
  <1>1. j.m \in Message /\ j.m.id \in Task /\ j.m.retries + 1 \in Nat
    BY DEF Job, Message
  <1> DEFINE n == [j.m EXCEPT !.retries = @ + 1]
  <1>2. n \in Message /\ n.id = j.m.id
    BY <1>1 DEF Message
  <1>3. k = [j EXCEPT !.plan = "retry", !.pc = "find", !.m = n]
    BY DEF Job
  <1> HIDE DEF n
  <1>4. k \in Job /\ k.w = j.w /\ k.item = j.item /\ k.m = n /\ k.plan = "retry" /\ k.pc = "find"
    BY <1>2, <1>3 DEF Job, Plans, Steps
  <1> QED
    BY <1>2, <1>4 DEF Updated

\* What stays the same with the lists.
LEMMA Frame ==
  /\ UNCHANGED queue => Queued' = Queued /\ (QueueInv => QueueInv')
  /\ UNCHANGED processing => Processing' = Processing
  /\ UNCHANGED scheduled => Scheduled' = Scheduled
  /\ UNCHANGED dlq => DeadLettered' = DeadLettered
  /\ UNCHANGED client => Sent' = Sent
  <1>1. UNCHANGED queue => Queued' = Queued
    BY DEF Queued, Ids
  <1>2. UNCHANGED queue => (QueueInv => QueueInv')
    BY DEF QueueInv, IdUnique
  <1>3. UNCHANGED processing => Processing' = Processing
    BY DEF Processing, Ids
  <1>4. UNCHANGED scheduled => Scheduled' = Scheduled
    BY DEF Scheduled
  <1>5. UNCHANGED dlq => DeadLettered' = DeadLettered
    BY DEF DeadLettered, Ids
  <1>6. UNCHANGED client => Sent' = Sent
    BY DEF Sent
  <1> QED
    BY <1>1, <1>2, <1>3, <1>4, <1>5, <1>6

\* The invariant but for the types.
RestInv ==
    /\ PlaceInv /\ JobInv /\ FollowInv /\ OwnInv /\ DoubleInv
    /\ NothingLeaks /\ NoTaskVanishes

-----------------------------------------------------------------------------
(* An execution goes on, and the lists stay as they are *)

\* What JobInv says of one execution.
JobOK(k) ==
    /\ k.m.id = k.item.id /\ k.m.id \in Sent
    /\ k.pc = "run" => k.plan = None
    /\ k.pc = "push" => k.plan = "retry"
    /\ k.pc = "remove" => k.found = k.item
    /\ k.plan = "success" <=> k.m.id \in done

LEMMA BecomesKeeps ==
  ASSUME RedisType, RestInv, NEW j \in jobs, NEW k, Updated(j, k), Becomes(j, k),
         UNCHANGED <<queue, processing, scheduled, dlq, client, stranded>>,
         done' = done \/ done' = done \cup {j.m.id}, dropped \subseteq dropped',
         j.pc \in {"run", "find", "remove"} <=> k.pc \in {"run", "find", "remove"},
         JobOK(k)'
  PROVE  RestInv'
  <1>1. jobs' = (jobs \ {j}) \cup {k} /\ k.w = j.w /\ k.item = j.item /\ k.m.id = j.m.id
    BY DEF Becomes, Updated
  <1>2. /\ Queued' = Queued /\ Scheduled' = Scheduled /\ Sent' = Sent /\ Processing' = Processing
        /\ DeadLettered' = DeadLettered /\ (QueueInv => QueueInv')
    BY Frame
  <1>3. \A i, l \in jobs : i.m.id = l.m.id => i = l
    BY DEF RestInv, PlaceInv, ExclusiveExecution
  <1>4. ExclusiveExecution'
    <2>1. \A i, l \in jobs' : i.m.id = l.m.id => i = l
      BY <1>1, <1>3
    <2>2. \A i \in jobs' : i.m.id \notin Queued' \cup Scheduled'
      BY <1>1, <1>2 DEF RestInv, PlaceInv, ExclusiveExecution
    <2>3. Queued' \cap Scheduled' = {}
      BY <1>2 DEF RestInv, PlaceInv, ExclusiveExecution
    <2> QED
      BY <2>1, <2>2, <2>3 DEF ExclusiveExecution
  <1>5. PlaceInv'
    <2>1. \A t \in done' : t \notin Queued' /\ t \notin Scheduled'
      BY <1>2 DEF RestInv, PlaceInv, ExclusiveExecution
    <2>2. \A m, n \in scheduled' : m.id = n.id => m = n
      BY DEF RestInv, PlaceInv
    <2> QED
      BY <1>2, <1>4, <2>1, <2>2 DEF RestInv, PlaceInv
  <1>6. JobInv'
    <2>1. \A i \in jobs \ {j} : i.m.id # j.m.id
      BY <1>3
    <2>2. \A i \in jobs \ {j} : JobOK(i)'
      BY <1>2, <2>1 DEF RestInv, JobInv, JobOK
    <2>3. \A i \in jobs' : JobOK(i)'
      BY <1>1, <2>2
    <2> QED
      BY <2>3 DEF JobInv, JobOK
  <1>7. FollowInv'
    <2>1. client[j.m.id] = "sent"
      BY DEF RestInv, JobInv, Sent
    <2> QED
      BY <2>1 DEF RestInv, FollowInv
  <1>8. \A i \in jobs' : i \in Unacked' => \E l \in Unacked : l.w = i.w /\ l.item = i.item /\ l.m.id = i.m.id
    BY <1>1 DEF Unacked
  <1>9. \A l \in Unacked : \E i \in Unacked' : l.w = i.w /\ l.item = i.item
    BY <1>1 DEF Unacked
  <1>10. OwnInv'
    <2>1. Unacked' \subseteq jobs'
      BY DEF Unacked
    <2> QED
      BY <1>8, <2>1 DEF RestInv, OwnInv, OwnFirst, TextContains
  <1>11. DoubleInv'
    BY DEF RestInv, DoubleInv
  <1>12. NothingLeaks'
    <2> SUFFICES ASSUME NEW w \in Worker, NEW item \in Range(processing[w]), <<w, item>> \notin stranded
                 PROVE  \E i \in Unacked' : i.w = w /\ i.item = item
      BY DEF NothingLeaks
    <2>1. \E l \in Unacked : l.w = w /\ l.item = item
      BY DEF RestInv, NothingLeaks
    <2> QED
      BY <1>9, <2>1
  <1>13. Moving \subseteq Moving'
    BY <1>1 DEF Moving, Unacked
  <1>14. NoTaskVanishes'
    BY <1>2, <1>13 DEF RestInv, NoTaskVanishes
  <1> QED
    BY <1>5, <1>6, <1>7, <1>10, <1>11, <1>12, <1>14 DEF RestInv

\* The handler was run, or the message is not due.
LEMMA RunKeeps ==
  ASSUME RedisType, RestInv, NEW j \in jobs, NotDue(j) \/ Succeed(j) \/ Fail(j)
  PROVE  RedisType' /\ RestInv'
  <1>1. j \in Job /\ JobOK(j) /\ j.pc = "run" /\ j.m.id \notin done
    <2>1. j \in Job /\ JobOK(j) /\ j.pc = "run"
      BY DEF RedisType, TypeOK, RestInv, JobInv, JobOK, NotDue, Succeed, Fail
    <2> QED
      BY <2>1, NoneAssumption DEF JobOK, Plans
  <1>2. UNCHANGED <<queue, processing, scheduled, dlq, client, stranded, dropped>> /\ Sent' = Sent
    BY Frame DEF NotDue, Succeed, Fail, redisVars
  <1>3. PICK k : /\ Updated(j, k) /\ Becomes(j, k) /\ k.pc = "find"
                 /\ \/ Succeed(j) /\ k.plan = "success"
                    \/ ~Succeed(j) /\ done' = done /\ k.plan \in {"reschedule", "retry", "bury"}
    <2>1. CASE Succeed(j)
      <3>1. PICK k : k = [j EXCEPT !.plan = "success", !.pc = "find"] /\ Becomes(j, k)
        BY <2>1 DEF Succeed
      <3>2. Updated(j, k) /\ k.plan = "success" /\ k.pc = "find"
        BY <1>1, <3>1 DEF Job, Updated, Plans, Steps
      <3> QED
        BY <2>1, <3>1, <3>2
    <2>2. CASE ~Succeed(j) /\ NotDue(j)
      <3>1. PICK k : k = [j EXCEPT !.plan = "reschedule", !.pc = "find"] /\ Becomes(j, k)
        BY <2>2 DEF NotDue
      <3>2. Updated(j, k) /\ k.plan = "reschedule" /\ k.pc = "find"
        BY <1>1, <3>1 DEF Job, Updated, Plans, Steps
      <3>3. done' = done
        BY <2>2 DEF NotDue
      <3> QED
        BY <2>2, <3>1, <3>2, <3>3
    <2>3. CASE ~Succeed(j) /\ Fail(j)
      <3>1. PICK k : /\ Becomes(j, k)
                     /\ \/ k = [j EXCEPT !.plan = "retry", !.pc = "find", !.m.retries = @ + 1]
                        \/ k = [j EXCEPT !.plan = "bury", !.pc = "find"]
        BY <2>3 DEF Fail
      <3>2. Updated(j, k) /\ k.plan \in {"retry", "bury"} /\ k.pc = "find"
        <4>1. CASE k = [j EXCEPT !.plan = "retry", !.pc = "find", !.m.retries = @ + 1]
          BY <1>1, <4>1, JobRetried
        <4>2. CASE k = [j EXCEPT !.plan = "bury", !.pc = "find"]
          BY <1>1, <4>2 DEF Job, Updated, Plans, Steps
        <4> QED
          BY <3>1, <4>1, <4>2
      <3>3. done' = done
        BY <2>3 DEF Fail
      <3> QED
        BY <2>3, <3>1, <3>2, <3>3
    <2> QED
      BY <2>1, <2>2, <2>3
  <1>4. done' = done \/ done' = done \cup {j.m.id}
    BY <1>1, <1>3 DEF Succeed, JobOK
  <1>5. JobOK(k)'
    <2>1. k.m.id = k.item.id /\ k.m.id \in Sent' /\ k.m.id = j.m.id
      BY <1>1, <1>2, <1>3 DEF JobOK, Updated
    <2>2. k.plan = "success" <=> k.m.id \in done'
      BY <1>1, <1>3, <2>1 DEF Succeed, JobOK
    <2> QED
      BY <1>3, <2>1, <2>2 DEF JobOK
  <1>6. RestInv'
    BY <1>1, <1>2, <1>3, <1>4, <1>5, BecomesKeeps
  <1>7. jobs' \subseteq Job
    BY <1>3 DEF Becomes, Updated, RedisType, TypeOK
  <1>8. done' \subseteq Task
    BY <1>1, <1>4 DEF RedisType, TypeOK, Job, Message
  <1>9. UNCHANGED <<dedup, scan, alive, due>>
    BY DEF NotDue, Succeed, Fail, redisVars
  <1> QED
    BY <1>2, <1>6, <1>7, <1>8, <1>9 DEF RedisType, TypeOK

\* LRANGE and the search: it finds the item of the execution.
LEMMA FindKeeps ==
  ASSUME RedisType, RestInv, NEW j \in jobs, Find(j)
  PROVE  RedisType' /\ RestInv'
  <1>1. j \in Job /\ JobOK(j) /\ j.pc = "find" /\ j \in Unacked /\ j.w \in Worker
    BY DEF RedisType, TypeOK, RestInv, JobInv, JobOK, Find, Unacked, Job
  <1>2. UNCHANGED <<queue, processing, scheduled, dlq, client, stranded, dropped, done>> /\ Sent' = Sent
    BY Frame DEF Find, redisVars
  <1> DEFINE items == processing[j.w]
  <1>3. items \in Seq(Message) /\ DOMAIN items = 1..Len(items) /\ Len(items) \in Nat
    BY <1>1 DEF RedisType, TypeOK
  <1>4. PICK p \in 1..Len(items) : items[p] = j.item /\ \A i \in 1..(p - 1) : ~TextContains(items[i], j.m.id)
    BY <1>1 DEF RestInv, OwnInv, OwnFirst
  <1>5. TextContains(items[p], j.m.id)
    BY <1>1, <1>4 DEF TextContains, JobOK
  <1>6. PICK i \in 1..Len(items) :
           /\ TextContains(items[i], j.m.id) /\ \A k \in 1..(i - 1) : ~TextContains(items[k], j.m.id)
           /\ Becomes(j, [j EXCEPT !.found = items[i], !.pc = "remove"])
    BY <1>3, <1>5 DEF Find
  <1>7. i = p
    <2>1. ~(i < p) /\ ~(p < i)
      BY <1>3, <1>4, <1>5, <1>6
    <2> QED
      BY <1>3, <2>1
  <1>8. PICK k : Updated(j, k) /\ Becomes(j, k) /\ k.pc = "remove" /\ k.plan = j.plan /\ k.found = j.item
    <2>1. PICK k : k = [j EXCEPT !.found = j.item, !.pc = "remove"] /\ Becomes(j, k)
      BY <1>4, <1>6, <1>7
    <2>2. Updated(j, k) /\ k.plan = j.plan /\ k.pc = "remove" /\ k.found = j.item
      BY <1>1, <2>1 DEF Job, Steps, Updated
    <2> QED
      BY <2>1, <2>2
  <1>9. JobOK(k)'
    <2>1. k.m.id = k.item.id /\ k.m.id \in Sent' /\ k.m.id = j.m.id /\ k.item = j.item
      BY <1>1, <1>2, <1>8 DEF JobOK, Updated
    <2> QED
      BY <1>1, <1>2, <1>8, <2>1 DEF JobOK
  <1>10. RestInv'
    BY <1>1, <1>2, <1>8, <1>9, BecomesKeeps
  <1>11. jobs' \subseteq Job
    BY <1>8 DEF Becomes, Updated, RedisType, TypeOK
  <1>12. UNCHANGED <<dedup, scan, alive, due>>
    BY DEF Find, redisVars
  <1> QED
    BY <1>2, <1>10, <1>11, <1>12 DEF RedisType, TypeOK

-----------------------------------------------------------------------------
(* The commands of ack *)

LEMMA ProcessingIs ==
  \A t : t \in Processing <=> \E w \in Worker : \E x \in Range(processing[w]) : x.id = t
  BY DEF Processing, Ids, Range

LEMMA ProcessingIsNext ==
  \A t : t \in Processing' <=> \E w \in Worker : \E x \in Range(processing'[w]) : x.id = t
  BY DEF Processing, Ids, Range

\* Executions that end, or go on, do not change where the others are.
LEMMA PlaceStays ==
  ASSUME PlaceInv, UNCHANGED <<queue, scheduled, client, done>>,
         \A i, l \in jobs' : i.m.id = l.m.id => i = l,
         \A i \in jobs' : \E l \in jobs : l.m.id = i.m.id
  PROVE  PlaceInv'
  <1>1. Queued' = Queued /\ Scheduled' = Scheduled /\ Sent' = Sent /\ QueueInv'
    BY Frame DEF PlaceInv
  <1>2. ExclusiveExecution'
    <2>1. \A i \in jobs' : i.m.id \notin Queued' \cup Scheduled'
      BY <1>1 DEF PlaceInv, ExclusiveExecution
    <2>2. Queued' \cap Scheduled' = {}
      BY <1>1 DEF PlaceInv, ExclusiveExecution
    <2> QED
      BY <2>1, <2>2 DEF ExclusiveExecution
  <1> QED
    BY <1>1, <1>2 DEF PlaceInv

\* The others know what they knew.
LEMMA JobsStay ==
  ASSUME JobInv, UNCHANGED <<client, done>>, \A i \in jobs' : i \in jobs \/ JobOK(i)'
  PROVE  JobInv'
  <1>1. \A i \in jobs : JobOK(i)'
    BY Frame DEF JobInv, JobOK
  <1>2. \A i \in jobs' : JobOK(i)'
    BY <1>1
  <1> QED
    BY <1>2 DEF JobInv, JobOK

\* LREM takes the item of the execution away and leaves those of the others.
LEMMA RemoveKeeps ==
  ASSUME RedisType, RestInv, NEW j \in jobs, RemoveFound(j)
  PROVE  RedisType' /\ RestInv'
  <1>1. /\ j \in Job /\ JobOK(j) /\ j.pc = "remove" /\ j \in Unacked /\ j.w \in Worker /\ j.item \in Message
        /\ j.found = j.item /\ j.m.id = j.item.id
    BY DEF RedisType, TypeOK, RestInv, JobInv, JobOK, RemoveFound, Unacked, Job
  <1>2. UNCHANGED <<queue, scheduled, dlq, client, stranded, dropped, done, dedup, scan, alive, due>>
    BY DEF RemoveFound
  <1> DEFINE v == j.w
             s == processing[v]
             r == RemoveFirst(s, j.item)
  <1>3. processing'[v] = r /\ (\A w \in Worker : w # v => processing'[w] = processing[w])
        /\ processing' = [processing EXCEPT ![v] = r]
    BY <1>1 DEF RemoveFound, RedisType, TypeOK
  <1>4. s \in Seq(Message) /\ OwnFirst(s, j.item, j.item.id)
    BY <1>1 DEF RedisType, TypeOK, RestInv, OwnInv
  <1>5. /\ r \in Seq(Message) /\ Range(r) \subseteq Range(s) /\ Range(s) \subseteq Range(r) \cup {j.item}
        /\ j.item \in Range(r) => \E i, k \in 1..Len(s) : i # k /\ s[i] = j.item /\ s[k] = j.item
        /\ \A i, k \in 1..Len(r) : i # k /\ r[i] = r[k] =>
              \E a, b \in 1..Len(s) : a # b /\ s[a] = s[b] /\ s[a] = r[i]
        /\ \A item, t : item # j.item /\ OwnFirst(s, item, t) => OwnFirst(r, item, t)
    BY <1>1, <1>4, RemoveOwn
  <1> HIDE DEF r
  <1>6. PICK k : Updated(j, k) /\ Becomes(j, k) /\ k.pc = "settle" /\ k.plan = j.plan
    <2>1. PICK k : k = [j EXCEPT !.pc = "settle", !.found = None] /\ Becomes(j, k)
      BY DEF RemoveFound
    <2>2. Updated(j, k) /\ k.plan = j.plan /\ k.pc = "settle"
      BY <1>1, <2>1 DEF Job, Steps, Updated
    <2> QED
      BY <2>1, <2>2
  <1>7. jobs' = (jobs \ {j}) \cup {k} /\ k.m.id = j.m.id /\ k \in Job /\ k.item = j.item
    BY <1>6 DEF Becomes, Updated
  <1>8. \A i, l \in jobs : i.m.id = l.m.id => i = l
    BY DEF RestInv, PlaceInv, ExclusiveExecution
  <1>9. PlaceInv'
    BY <1>2, <1>7, <1>8, PlaceStays DEF RestInv
  <1>10. JobInv'
    <2>1. JobOK(k)'
      BY <1>1, <1>2, <1>6, <1>7, Frame DEF JobOK
    <2> QED
      BY <1>2, <1>7, <2>1, JobsStay DEF RestInv
  <1>11. FollowInv'
    BY <1>2 DEF RestInv, FollowInv
  <1>12. Unacked' = Unacked \ {j}
    BY <1>1, <1>6, <1>7, <1>8 DEF Unacked
  <1>13. \A i \in Unacked \ {j} : i.item # j.item
    BY <1>1, <1>8 DEF Unacked, RestInv, JobInv
  <1>14. OwnInv'
    <2>1. ASSUME NEW i \in Unacked \ {j} PROVE OwnFirst(processing'[i.w], i.item, i.m.id)
      <3>1. OwnFirst(processing[i.w], i.item, i.m.id) /\ i.w \in Worker
        BY DEF RestInv, OwnInv, Unacked, RedisType, TypeOK, Job
      <3>2. CASE i.w = v
        BY <1>3, <1>5, <1>13, <3>1, <3>2
      <3>3. CASE i.w # v
        BY <1>3, <3>1, <3>3
      <3> QED
        BY <3>2, <3>3
    <2> QED
      BY <1>12, <2>1 DEF OwnInv, OwnFirst, TextContains
  <1>15. DoubleInv'
    <2> SUFFICES ASSUME NEW w \in Worker, NEW i \in 1..Len(processing'[w]), NEW l \in 1..Len(processing'[w]),
                        i # l, processing'[w][i] = processing'[w][l]
                 PROVE  <<w, processing'[w][i]>> \in stranded
      BY <1>2 DEF DoubleInv
    <2>1. CASE w = v
      <3>1. PICK a, b \in 1..Len(s) : a # b /\ s[a] = s[b] /\ s[a] = r[i]
        BY <1>3, <1>5, <2>1
      <3>2. <<v, s[a]>> \in stranded
        BY <1>1, <3>1 DEF RestInv, DoubleInv
      <3> QED
        BY <1>3, <2>1, <3>1, <3>2
    <2>2. CASE w # v
      BY <1>3, <2>2 DEF RestInv, DoubleInv
    <2> QED
      BY <2>1, <2>2
  <1>16. NothingLeaks'
    <2> SUFFICES ASSUME NEW w \in Worker, NEW x \in Range(processing'[w]), <<w, x>> \notin stranded
                 PROVE  \E i \in Unacked \ {j} : i.w = w /\ i.item = x
      BY <1>2, <1>12 DEF NothingLeaks
    <2>1. x \in Range(processing[w])
      BY <1>3, <1>5
    <2>2. PICK i \in Unacked : i.w = w /\ i.item = x
      BY <2>1 DEF RestInv, NothingLeaks
    <2>3. CASE w = v /\ x = j.item
      <3>1. PICK a, b \in 1..Len(s) : a # b /\ s[a] = j.item /\ s[b] = j.item
        BY <1>3, <1>5, <2>3
      <3>2. <<v, s[a]>> \in stranded
        BY <1>1, <3>1 DEF RestInv, DoubleInv
      <3> QED
        BY <2>3, <3>1, <3>2
    <2>4. CASE ~(w = v /\ x = j.item)
      BY <2>2, <2>4
    <2> QED
      BY <2>3, <2>4
  <1>17. NoTaskVanishes'
    <2>1. Processing \subseteq Processing' \cup {j.m.id}
      <3> SUFFICES ASSUME NEW w \in Worker, NEW x \in Range(processing[w]), x.id # j.m.id
                   PROVE  x.id \in Processing'
        BY ProcessingIs
      <3>1. x \in Range(processing'[w])
        BY <1>1, <1>3, <1>5
      <3> QED
        BY <3>1, ProcessingIsNext
    <2>2. Moving \subseteq Moving' /\ j.m.id \in Moving'
      BY <1>1, <1>6, <1>7, <1>12 DEF Moving, Unacked
    <2>3. Queued' = Queued /\ Scheduled' = Scheduled /\ Sent' = Sent /\ DeadLettered' = DeadLettered
      BY <1>2, Frame
    <2> QED
      BY <1>2, <2>1, <2>2, <2>3 DEF RestInv, NoTaskVanishes
  <1>18. processing' \in [Worker -> Seq(Message)] /\ jobs' \subseteq Job
    BY <1>1, <1>3, <1>5, <1>7 DEF RedisType, TypeOK
  <1>19. RedisType'
    BY <1>2, <1>18 DEF RedisType, TypeOK
  <1> QED
    BY <1>9, <1>10, <1>11, <1>14, <1>15, <1>16, <1>17, <1>19 DEF RestInv

\* ack fails: the item stays in the list and is stranded.
LEMMA AckFailsKeeps ==
  ASSUME RedisType, RestInv, NEW j \in jobs, AckFails(j)
  PROVE  RedisType' /\ RestInv'
  <1>1. /\ j \in Job /\ JobOK(j) /\ j \in Unacked /\ j.w \in Worker /\ j.item \in Message
        /\ j.pc \in {"find", "remove"} /\ j.m.id = j.item.id
    BY DEF RedisType, TypeOK, RestInv, JobInv, JobOK, AckFails, Unacked, Job
  <1>2. /\ UNCHANGED <<queue, processing, scheduled, dlq, client, dropped, done, dedup, scan, alive, due>>
        /\ stranded' = stranded \cup {<<j.w, j.item>>}
    BY DEF AckFails, redisVars
  <1>3. \A i, l \in jobs : i.m.id = l.m.id => i = l
    BY DEF RestInv, PlaceInv, ExclusiveExecution
  <1>4. \/ jobs' = jobs \ {j}
        \/ \E k : Updated(j, k) /\ Becomes(j, k) /\ k.pc = "settle" /\ k.plan = j.plan
    <2>1. CASE j.plan \in {"retry", "bury"}
      BY <2>1 DEF AckFails, Ends
    <2>2. CASE j.plan \notin {"retry", "bury"}
      <3>1. PICK k : k = [j EXCEPT !.pc = "settle", !.found = None] /\ Becomes(j, k)
        BY <2>2 DEF AckFails
      <3>2. Updated(j, k) /\ k.plan = j.plan /\ k.pc = "settle"
        BY <1>1, <3>1 DEF Job, Steps, Updated
      <3> QED
        BY <3>1, <3>2
    <2> QED
      BY <2>1, <2>2
  <1>5. /\ \A i \in jobs' : i \in jobs \ {j} \/ (Updated(j, i) /\ i.pc = "settle" /\ i.plan = j.plan)
        /\ jobs \ {j} \subseteq jobs'
        /\ \A i, l \in jobs' : i \notin jobs \ {j} /\ l \notin jobs \ {j} => i = l
    BY <1>4 DEF Becomes
  <1>6. \A i \in jobs' : i \notin jobs \ {j} => i.m.id = j.m.id /\ i.item = j.item /\ i \in Job /\ i.pc = "settle" /\ i.plan = j.plan
    BY <1>5 DEF Updated
  <1>7. \A i, l \in jobs' : i.m.id = l.m.id => i = l
    BY <1>3, <1>5, <1>6
  <1>8. PlaceInv'
    <2>1. \A i \in jobs' : \E l \in jobs : l.m.id = i.m.id
      BY <1>5, <1>6
    <2> QED
      BY <1>2, <1>7, <2>1, PlaceStays DEF RestInv
  <1>9. JobInv'
    <2>1. \A i \in jobs' : i \notin jobs \ {j} => JobOK(i)'
      BY <1>1, <1>2, <1>6, Frame DEF JobOK
    <2> QED
      BY <1>2, <2>1, JobsStay DEF RestInv
  <1>10. FollowInv'
    BY <1>2 DEF RestInv, FollowInv
  <1>11. Unacked' = Unacked \ {j}
    BY <1>1, <1>5, <1>6 DEF Unacked
  <1>12. OwnInv'
    BY <1>2, <1>11 DEF RestInv, OwnInv, OwnFirst, TextContains
  <1>13. DoubleInv'
    BY <1>2 DEF RestInv, DoubleInv
  <1>14. NothingLeaks'
    <2> SUFFICES ASSUME NEW w \in Worker, NEW x \in Range(processing[w]), <<w, x>> \notin stranded'
                 PROVE  \E i \in Unacked \ {j} : i.w = w /\ i.item = x
      BY <1>2, <1>11 DEF NothingLeaks
    <2>1. <<w, x>> \notin stranded /\ ~(w = j.w /\ x = j.item)
      BY <1>2
    <2>2. PICK i \in Unacked : i.w = w /\ i.item = x
      BY <2>1 DEF RestInv, NothingLeaks
    <2> QED
      BY <2>1, <2>2
  <1>15. NoTaskVanishes'
    <2>1. Moving \subseteq Moving'
      BY <1>1, <1>5, <1>11 DEF Moving
    <2>2. /\ Queued' = Queued /\ Scheduled' = Scheduled /\ Sent' = Sent /\ DeadLettered' = DeadLettered
          /\ Processing' = Processing
      BY <1>2, Frame
    <2> QED
      BY <1>2, <2>1, <2>2 DEF RestInv, NoTaskVanishes
  <1>16. jobs' \subseteq Job /\ stranded' \subseteq Worker \X Message
    BY <1>1, <1>2, <1>5, <1>6 DEF RedisType, TypeOK
  <1>17. RedisType'
    BY <1>2, <1>16 DEF RedisType, TypeOK
  <1> QED
    BY <1>8, <1>9, <1>10, <1>12, <1>13, <1>14, <1>15, <1>17 DEF RestInv

-----------------------------------------------------------------------------
(* What follows ack *)

\* An execution that has acknowledged ends, and its message is accounted for.
LEMMA EndKeeps ==
  ASSUME RedisType, RestInv, NEW j \in jobs, j.pc \in {"settle", "push"}, Ends(j),
         UNCHANGED <<processing, client, stranded, done>>,
         Queued \subseteq Queued', Scheduled \subseteq Scheduled',
         DeadLettered \subseteq DeadLettered', dropped \subseteq dropped',
         j.m.id \in Queued' \cup Scheduled' \cup DeadLettered' \cup Processing' \cup done' \cup dropped'
  PROVE  JobInv' /\ FollowInv' /\ OwnInv' /\ DoubleInv' /\ NothingLeaks' /\ NoTaskVanishes' /\ jobs' \subseteq Job
  <1>1. jobs' = jobs \ {j}
    BY DEF Ends
  <1>2. Unacked' = Unacked
    BY <1>1 DEF Unacked
  <1>3. JobInv'
    BY <1>1, JobsStay DEF RestInv
  <1>4. FollowInv' /\ DoubleInv'
    BY DEF RestInv, FollowInv, DoubleInv
  <1>5. OwnInv'
    BY <1>2 DEF RestInv, OwnInv, OwnFirst, TextContains
  <1>6. NothingLeaks'
    BY <1>2 DEF RestInv, NothingLeaks
  <1>7. NoTaskVanishes'
    <2>1. Moving \subseteq Moving' \cup {j.m.id}
      BY <1>1, <1>2 DEF Moving
    <2>2. Sent' = Sent /\ Processing' = Processing
      BY Frame
    <2> QED
      BY <2>1, <2>2 DEF RestInv, NoTaskVanishes
  <1> QED
    BY <1>1, <1>3, <1>4, <1>5, <1>6, <1>7 DEF RedisType, TypeOK

\* The message of an execution that will put it back is in no queue, and was not
\* successful.
LEMMA InHand ==
  ASSUME RedisType, RestInv, NEW j \in jobs
  PROVE  /\ j \in Job /\ j.m \in Message /\ j.m.id \in Task /\ j.w \in Worker /\ j.item \in Message
         /\ j.m.id = j.item.id /\ j.m.id \in Sent
         /\ j.m.id \notin Queued /\ j.m.id \notin Scheduled
         /\ j.plan # "success" => j.m.id \notin done
         /\ \A i \in jobs : i.m.id = j.m.id => i = j
  <1>1. j \in Job /\ j.m \in Message /\ j.m.id \in Task /\ j.w \in Worker /\ j.item \in Message
    BY DEF RedisType, TypeOK, Job, Message
  <1> QED
    BY <1>1 DEF RestInv, JobInv, PlaceInv, ExclusiveExecution

\* Nothing is left to do, or the message is dropped.
LEMMA FinishKeeps ==
  ASSUME RedisType, RestInv, NEW j \in jobs, Finish(j) \/ SettleFails(j)
  PROVE  RedisType' /\ RestInv'
  <1>1. /\ UNCHANGED <<queue, processing, scheduled, dlq, client, stranded, done, dedup, scan, alive, due>>
        /\ Ends(j) /\ j.pc \in {"settle", "push"} /\ dropped \subseteq dropped'
    BY DEF Finish, SettleFails, redisVars
  <1>2. /\ Queued' = Queued /\ Scheduled' = Scheduled /\ DeadLettered' = DeadLettered /\ Processing' = Processing
    BY <1>1, Frame
  <1>3. j.m.id \in Processing' \cup done' \cup dropped' /\ dropped' \subseteq Task
    <2>1. CASE Finish(j)
      BY <1>1, <2>1 DEF Finish, RestInv, JobInv, RedisType, TypeOK
    <2>2. CASE SettleFails(j)
      <3>1. dropped' = dropped \cup InNoList({j}) /\ j.plan # "success"
        BY <2>2 DEF SettleFails
      <3>2. j.item \notin Range(processing[j.w]) => j.m.id \in InNoList({j})
        BY <1>1, <3>1 DEF InNoList
      <3>3. j.item \in Range(processing[j.w]) => j.m.id \in Processing
        BY InHand, ProcessingIs
      <3>4. InNoList({j}) \subseteq Task
        BY InHand DEF InNoList
      <3> QED
        BY <1>2, <3>1, <3>2, <3>3, <3>4 DEF RedisType, TypeOK
    <2> QED
      BY <2>1, <2>2
  <1>4. /\ JobInv' /\ FollowInv' /\ OwnInv' /\ DoubleInv' /\ NothingLeaks' /\ NoTaskVanishes'
        /\ jobs' \subseteq Job
    BY <1>1, <1>2, <1>3, EndKeeps
  <1>5. PlaceInv'
    <2>1. jobs' \subseteq jobs
      BY <1>1 DEF Ends
    <2>2. \A i, l \in jobs : i.m.id = l.m.id => i = l
      BY DEF RestInv, PlaceInv, ExclusiveExecution
    <2> QED
      BY <1>1, <2>1, <2>2, PlaceStays DEF RestInv
  <1> QED
    BY <1>1, <1>3, <1>4, <1>5 DEF RestInv, RedisType, TypeOK

\* LPUSH to the dead-letter queue.
LEMMA BuryKeeps ==
  ASSUME RedisType, RestInv, NEW j \in jobs, Bury(j)
  PROVE  RedisType' /\ RestInv'
  <1>1. /\ UNCHANGED <<queue, processing, scheduled, client, stranded, done, dropped, dedup, scan, alive, due>>
        /\ Ends(j) /\ j.pc \in {"settle", "push"}
    BY DEF Bury
  <1> DEFINE q == QueueOf[j.m.id]
             r == <<j.m>> \o dlq[q]
  <1>2. q \in Queue /\ j.m \in Message
    BY InHand, RedisAssumption
  <1>3. dlq' = [dlq EXCEPT ![q] = r] /\ dlq[q] \in Seq(Message) /\ dlq \in [Queue -> Seq(Message)]
    BY <1>2 DEF Bury, RedisType, TypeOK
  <1>4. r \in Seq(Message) /\ Range(r) = Range(dlq[q]) \cup {j.m}
    BY <1>2, <1>3, PushFacts, PushRange
  <1> HIDE DEF r
  <1>5. dlq' \in [Queue -> Seq(Message)] /\ dlq'[q] = r /\ \A p \in Queue : p # q => dlq'[p] = dlq[p]
    BY <1>2, <1>3, <1>4
  <1>6. \A p \in Queue : Range(dlq[p]) \subseteq Range(dlq'[p])
    BY <1>4, <1>5
  <1>7. DeadLettered \subseteq DeadLettered' /\ j.m.id \in DeadLettered'
    <2>1. \A s : Ids(s) = {x.id : x \in Range(s)}
      BY DEF Ids, Range
    <2>2. \A p \in Queue : Ids(dlq[p]) \subseteq Ids(dlq'[p])
      BY <1>6, <2>1
    <2>3. j.m.id \in Ids(dlq'[q])
      BY <1>4, <1>5, <2>1
    <2>4. DeadLettered' = UNION {Ids(dlq'[p]) : p \in Queue}
      BY DEF DeadLettered, Ids
    <2> QED
      BY <1>2, <2>2, <2>3, <2>4 DEF DeadLettered
  <1>8. Queued' = Queued /\ Scheduled' = Scheduled
    BY <1>1, Frame
  <1>9. /\ JobInv' /\ FollowInv' /\ OwnInv' /\ DoubleInv' /\ NothingLeaks' /\ NoTaskVanishes'
        /\ jobs' \subseteq Job
    BY <1>1, <1>7, <1>8, EndKeeps
  <1>10. PlaceInv'
    <2>1. jobs' \subseteq jobs
      BY <1>1 DEF Ends
    <2>2. \A i, l \in jobs : i.m.id = l.m.id => i = l
      BY DEF RestInv, PlaceInv, ExclusiveExecution
    <2> QED
      BY <1>1, <2>1, <2>2, PlaceStays DEF RestInv
  <1> QED
    BY <1>1, <1>5, <1>9, <1>10 DEF RestInv, RedisType, TypeOK

\* ZADD
LEMMA ScheduleKeeps ==
  ASSUME RedisType, RestInv, NEW j \in jobs, Schedule(j)
  PROVE  RedisType' /\ RestInv'
  <1>1. /\ UNCHANGED <<queue, processing, dlq, client, stranded, done, dropped, dedup, scan, alive, due>>
        /\ Ends(j) /\ j.pc \in {"settle", "push"} /\ j.plan = "reschedule"
        /\ scheduled' = scheduled \cup {j.m}
    BY DEF Schedule
  <1>2. /\ j.m \in Message /\ j.m.id \in Sent /\ j.m.id \notin Queued /\ j.m.id \notin Scheduled /\ j.m.id \notin done
        /\ \A i \in jobs : i.m.id = j.m.id => i = j
    BY <1>1, InHand
  <1>3. Scheduled' = Scheduled \cup {j.m.id}
    BY <1>1 DEF Scheduled
  <1>4. Queued' = Queued /\ DeadLettered' = DeadLettered /\ Sent' = Sent /\ QueueInv'
    BY <1>1, Frame DEF RestInv, PlaceInv
  <1>5. /\ JobInv' /\ FollowInv' /\ OwnInv' /\ DoubleInv' /\ NothingLeaks' /\ NoTaskVanishes'
        /\ jobs' \subseteq Job
    BY <1>1, <1>3, <1>4, EndKeeps
  <1>6. jobs' = jobs \ {j}
    BY <1>1 DEF Ends
  <1>7. \A m, n \in scheduled' : m.id = n.id => m = n
    <2>1. \A m \in scheduled : m.id # j.m.id
      BY <1>2 DEF Scheduled
    <2> QED
      BY <1>1, <2>1 DEF RestInv, PlaceInv
  <1>8. ExclusiveExecution'
    <2>1. \A i, l \in jobs' : i.m.id = l.m.id => i = l
      BY <1>6 DEF RestInv, PlaceInv, ExclusiveExecution
    <2>2. \A i \in jobs' : i.m.id \notin Queued' \cup Scheduled'
      BY <1>2, <1>3, <1>4, <1>6 DEF RestInv, PlaceInv, ExclusiveExecution
    <2>3. Queued' \cap Scheduled' = {}
      BY <1>2, <1>3, <1>4 DEF RestInv, PlaceInv, ExclusiveExecution
    <2> QED
      BY <2>1, <2>2, <2>3 DEF ExclusiveExecution
  <1>9. PlaceInv'
    <2>1. Queued' \subseteq Sent' /\ Scheduled' \subseteq Sent'
      BY <1>2, <1>3, <1>4 DEF RestInv, PlaceInv
    <2>2. \A t \in done' : t \notin Queued' /\ t \notin Scheduled'
      BY <1>1, <1>2, <1>3, <1>4 DEF RestInv, PlaceInv
    <2> QED
      BY <1>4, <1>7, <1>8, <2>1, <2>2 DEF PlaceInv
  <1>10. scheduled' \subseteq Message /\ IsFiniteSet(scheduled')
    BY <1>1, <1>2, FS_AddElement DEF RedisType, TypeOK
  <1> QED
    BY <1>1, <1>5, <1>9, <1>10 DEF RestInv, RedisType, TypeOK

\* LPUSH of a message that was nowhere but in the hands of the one who pushes it.
LEMMA PushPlace ==
  ASSUME RedisType, PlaceInv, NEW m \in Message, Push(m), UNCHANGED <<scheduled, done>>,
         m.id \notin Queued, m.id \notin Scheduled, m.id \notin done,
         jobs' \subseteq jobs, \A i \in jobs' : i.m.id # m.id, Sent \subseteq Sent', m.id \in Sent'
  PROVE  PlaceInv' /\ Queued' = Queued \cup {m.id} /\ queue' \in [Queue -> Seq(Message)]
  <1>1. QueuesTyped' /\ QueueInv' /\ Queued' = Queued \cup {m.id}
    BY PushQueued DEF RedisType, TypeOK, QueuesTyped, PlaceInv
  <1>2. Scheduled' = Scheduled
    BY Frame
  <1>3. ExclusiveExecution'
    <2>1. \A i, l \in jobs' : i.m.id = l.m.id => i = l
      BY DEF PlaceInv, ExclusiveExecution
    <2>2. \A i \in jobs' : i.m.id \notin Queued' \cup Scheduled'
      BY <1>1, <1>2 DEF PlaceInv, ExclusiveExecution
    <2>3. Queued' \cap Scheduled' = {}
      BY <1>1, <1>2 DEF PlaceInv, ExclusiveExecution
    <2> QED
      BY <2>1, <2>2, <2>3 DEF ExclusiveExecution
  <1>4. PlaceInv'
    <2>1. Queued' \subseteq Sent' /\ Scheduled' \subseteq Sent'
      BY <1>1, <1>2 DEF PlaceInv
    <2>2. \A t \in done' : t \notin Queued' /\ t \notin Scheduled'
      BY <1>1, <1>2 DEF PlaceInv
    <2>3. \A x, n \in scheduled' : x.id = n.id => x = n
      BY DEF PlaceInv
    <2> QED
      BY <1>1, <1>3, <2>1, <2>2, <2>3 DEF PlaceInv
  <1> QED
    BY <1>1, <1>4 DEF QueuesTyped

LEMMA RequeuePushKeeps ==
  ASSUME RedisType, RestInv, NEW j \in jobs, RequeuePush(j)
  PROVE  RedisType' /\ RestInv'
  <1>1. /\ UNCHANGED <<processing, scheduled, dlq, client, stranded, done, dropped, dedup, scan, alive, due>>
        /\ Ends(j) /\ j.pc = "push" /\ Push(j.m)
    BY DEF RequeuePush
  <1>2. /\ j.m \in Message /\ j.m.id \in Sent /\ j.m.id \notin Queued /\ j.m.id \notin Scheduled /\ j.m.id \notin done
        /\ \A i \in jobs : i.m.id = j.m.id => i = j
    <2>1. j.plan # "success"
      BY <1>1 DEF RestInv, JobInv
    <2> QED
      BY <2>1, InHand
  <1>3. Scheduled' = Scheduled /\ DeadLettered' = DeadLettered /\ Sent' = Sent
    BY <1>1, Frame
  <1>4. jobs' = jobs \ {j}
    BY <1>1 DEF Ends
  <1>5. PlaceInv' /\ Queued' = Queued \cup {j.m.id} /\ queue' \in [Queue -> Seq(Message)]
    BY <1>1, <1>2, <1>3, <1>4, PushPlace DEF RestInv
  <1>6. /\ JobInv' /\ FollowInv' /\ OwnInv' /\ DoubleInv' /\ NothingLeaks' /\ NoTaskVanishes'
        /\ jobs' \subseteq Job
    BY <1>1, <1>3, <1>5, EndKeeps
  <1> QED
    BY <1>1, <1>5, <1>6 DEF RestInv, RedisType, TypeOK

\* The deduplication key is set, or taken and the message dropped.
LEMMA RequeueDedupKeeps ==
  ASSUME RedisType, RestInv, NEW j \in jobs, RequeueDedup(j)
  PROVE  RedisType' /\ RestInv'
  <1>1. /\ UNCHANGED <<queue, processing, scheduled, dlq, client, stranded, done, scan, alive, due>>
        /\ j.pc = "settle" /\ j.plan = "retry" /\ j \in Job /\ j.m.id \in Task
    BY InHand DEF RequeueDedup
  <1>2. dedup' \subseteq Keys
    BY <1>1 DEF RequeueDedup, Keys, RedisType, TypeOK
  <1>3. \/ Becomes(j, [j EXCEPT !.pc = "push"]) /\ UNCHANGED dropped
        \/ Ends(j) /\ dropped' = dropped \cup {j.m.id}
    BY DEF RequeueDedup
  <1>4. CASE Becomes(j, [j EXCEPT !.pc = "push"]) /\ UNCHANGED dropped
    <2>1. PICK k : k = [j EXCEPT !.pc = "push"] /\ Becomes(j, k)
      BY <1>4
    <2>2. Updated(j, k) /\ k.plan = j.plan /\ k.pc = "push"
      BY <1>1, <2>1 DEF Job, Steps, Updated
    <2>3. JobOK(k)'
      <3>1. k.m.id = k.item.id /\ k.m.id \in Sent' /\ k.m.id = j.m.id
        BY <1>1, <2>2, InHand, Frame DEF Updated
      <3>2. k.m.id \notin done'
        BY <1>1, <3>1, InHand
      <3> QED
        BY <1>1, <2>2, <3>1, <3>2 DEF JobOK
    <2>4. RestInv'
      BY <1>1, <1>4, <2>1, <2>2, <2>3, BecomesKeeps
    <2>5. jobs' \subseteq Job
      BY <2>1, <2>2 DEF Becomes, Updated, RedisType, TypeOK
    <2> QED
      BY <1>1, <1>2, <1>4, <2>4, <2>5 DEF RedisType, TypeOK
  <1>5. CASE Ends(j) /\ dropped' = dropped \cup {j.m.id}
    <2>1. Queued' = Queued /\ Scheduled' = Scheduled /\ DeadLettered' = DeadLettered
      BY <1>1, Frame
    <2>2. /\ JobInv' /\ FollowInv' /\ OwnInv' /\ DoubleInv' /\ NothingLeaks' /\ NoTaskVanishes'
          /\ jobs' \subseteq Job
      BY <1>1, <1>5, <2>1, EndKeeps
    <2>3. PlaceInv'
      <3>1. jobs' \subseteq jobs
        BY <1>5 DEF Ends
      <3>2. \A i, l \in jobs : i.m.id = l.m.id => i = l
        BY DEF RestInv, PlaceInv, ExclusiveExecution
      <3> QED
        BY <1>1, <3>1, <3>2, PlaceStays DEF RestInv
    <2> QED
      BY <1>1, <1>2, <1>5, <2>2, <2>3 DEF RestInv, RedisType, TypeOK
  <1> QED
    BY <1>3, <1>4, <1>5

-----------------------------------------------------------------------------
(* dequeue *)

\* BLMOVE: the message is executed, or stranded with the reply that got lost.
LEMMA DequeueKeeps ==
  ASSUME RedisType, RestInv, NEW w \in Worker, Dequeue(w)
  PROVE  RedisType' /\ RestInv'
  <1> DEFINE q == Order[scan[w]]
             x == Last(queue[q])
             s == processing[w]
             r == <<x>> \o s
  <1>0. PICK new : new = Started(w, x)
    OBVIOUS
  <1>1. q \in Queue /\ 1 \in DOMAIN Order
    BY RedisAssumption DEF RedisType, TypeOK
  <1>2. /\ queue[q] # <<>> /\ queue' = [queue EXCEPT ![q] = Front(@)]
        /\ processing' = [processing EXCEPT ![w] = r]
        /\ UNCHANGED <<scheduled, dlq, dedup, client, alive, due, done, dropped>>
    BY DEF Dequeue, TakeFrom
  <1>3. \/ jobs' = jobs \cup {new} /\ stranded' = stranded
        \/ jobs' = jobs /\ stranded' = stranded \cup {<<w, x>>}
    BY <1>0 DEF Dequeue
  <1>4. scan' \in [Worker -> DOMAIN Order]
    BY <1>1 DEF Dequeue, RedisType, TypeOK
  <1> HIDE DEF q
  <1>5. /\ QueuesTyped' /\ QueueInv' /\ x \in Message /\ x.id \in Queued /\ x.id \notin Queued'
        /\ Queued = Queued' \cup {x.id}
    BY <1>1, <1>2, TakeQueued DEF RedisType, TypeOK, QueuesTyped, RestInv, PlaceInv
  <1> HIDE DEF x
  <1>6. s \in Seq(Message) /\ processing'[w] = r /\ \A v \in Worker : v # w => processing'[v] = processing[v]
    BY <1>2 DEF RedisType, TypeOK
  <1>7. /\ r \in Seq(Message) /\ Range(r) = Range(s) \cup {x} /\ Len(r) = Len(s) + 1 /\ Len(s) \in Nat /\ r[1] = x
        /\ \A i \in 2..(Len(s) + 1) : r[i] = s[i - 1] /\ i - 1 \in 1..Len(s)
    BY <1>5, <1>6, PushFacts, PushRange
  <1>8. Scheduled' = Scheduled /\ DeadLettered' = DeadLettered /\ Sent' = Sent
    BY <1>2, Frame
  <1>9. x.id \in Task /\ x.id \in Sent /\ x.id \notin Scheduled /\ x.id \notin done
    BY <1>5 DEF RestInv, PlaceInv, ExclusiveExecution, Message
  <1>10. \A i \in jobs : i.m.id # x.id /\ i.m.id \in Task /\ i.m.id \in Sent /\ i.m.id = i.item.id
    BY <1>5, InHand
  <1>11. new \in Job /\ new.w = w /\ new.item = x /\ new.m = x /\ new.plan = None /\ new.pc = "run"
    BY <1>0, <1>5 DEF Started, Job, Steps
  <1>12. ExclusiveExecution'
    <2>1. \A i, l \in jobs' : i.m.id = l.m.id => i = l
      BY <1>3, <1>10, <1>11 DEF RestInv, PlaceInv, ExclusiveExecution
    <2>2. \A i \in jobs' : i.m.id \notin Queued' \cup Scheduled'
      BY <1>3, <1>5, <1>8, <1>9, <1>11 DEF RestInv, PlaceInv, ExclusiveExecution
    <2>3. Queued' \cap Scheduled' = {}
      BY <1>5, <1>8 DEF RestInv, PlaceInv, ExclusiveExecution
    <2> QED
      BY <2>1, <2>2, <2>3 DEF ExclusiveExecution
  <1>13. PlaceInv'
    <2>1. Queued' \subseteq Sent' /\ Scheduled' \subseteq Sent'
      BY <1>5, <1>8 DEF RestInv, PlaceInv
    <2>2. \A t \in done' : t \notin Queued' /\ t \notin Scheduled'
      BY <1>2, <1>5, <1>8 DEF RestInv, PlaceInv
    <2>3. \A m, n \in scheduled' : m.id = n.id => m = n
      BY <1>2 DEF RestInv, PlaceInv
    <2> QED
      BY <1>5, <1>12, <2>1, <2>2, <2>3 DEF PlaceInv
  <1>14. JobInv'
    <2>1. new.plan # "success"
      BY <1>11, NoneAssumption DEF Plans
    <2>2. JobOK(new)'
      BY <1>2, <1>8, <1>9, <1>11, <2>1 DEF JobOK
    <2> QED
      BY <1>2, <1>3, <2>2, JobsStay DEF RestInv
  <1>15. FollowInv'
    BY <1>2 DEF RestInv, FollowInv
  <1>16. Unacked \subseteq Unacked' /\ Unacked' \subseteq Unacked \cup {new} /\ (new \in jobs' => new \in Unacked')
    BY <1>3, <1>11 DEF Unacked
  <1>17. ASSUME NEW i \in Unacked
         PROVE  ~TextContains(x, i.m.id)
    <2>1. i \in jobs
      BY DEF Unacked
    <2>2. i.m.id # x.id /\ i.m.id \in Task /\ client[i.m.id] = "sent"
      BY <1>10, <2>1 DEF Sent
    <2>3. i.m.id \notin Mentions[x.id]
      BY <1>9, <2>2 DEF RestInv, FollowInv
    <2> QED
      BY <2>2, <2>3 DEF TextContains
  <1>18. OwnInv'
    <2>1. ASSUME NEW i \in Unacked PROVE OwnFirst(processing'[i.w], i.item, i.m.id)
      <3>1. OwnFirst(processing[i.w], i.item, i.m.id) /\ i.w \in Worker
        BY DEF RestInv, OwnInv, Unacked, RedisType, TypeOK, Job
      <3>2. CASE i.w = w
        BY <1>5, <1>6, <1>17, <3>1, <3>2, OwnFirstPush
      <3>3. CASE i.w # w
        BY <1>6, <3>1, <3>3
      <3> QED
        BY <3>2, <3>3
    <2>2. OwnFirst(processing'[new.w], new.item, new.m.id)
      BY <1>5, <1>6, <1>11, OwnFirstNew
    <2> QED
      BY <1>16, <2>1, <2>2 DEF OwnInv, OwnFirst, TextContains
  <1>19. x \in Range(s) => <<w, x>> \in stranded
    <2>1. \A i \in Unacked : i.item # x
      BY <1>10 DEF Unacked
    <2> QED
      BY <2>1 DEF RestInv, NothingLeaks
  <1>20. stranded \subseteq stranded'
    BY <1>3
  <1>21. DoubleInv'
    <2> SUFFICES ASSUME NEW v \in Worker, NEW i \in 1..Len(processing'[v]), NEW l \in 1..Len(processing'[v]),
                        i # l, processing'[v][i] = processing'[v][l]
                 PROVE  <<v, processing'[v][i]>> \in stranded
      BY <1>20 DEF DoubleInv
    <2>1. CASE v # w
      BY <1>6, <2>1 DEF RestInv, DoubleInv
    <2>2. CASE v = w
      <3>1. i \in 1..(Len(s) + 1) /\ l \in 1..(Len(s) + 1) /\ r[i] = r[l]
        BY <1>6, <1>7, <2>2
      <3>2. \A n \in 1..Len(s) : s[n] \in Range(s)
        BY <1>6 DEF Range
      <3>3. CASE i = 1
        <4>1. l \in 2..(Len(s) + 1)
          BY <1>7, <3>1, <3>3
        <4>2. r[l] = s[l - 1] /\ l - 1 \in 1..Len(s)
          BY <1>7, <4>1
        <4>3. x \in Range(s)
          BY <1>7, <3>1, <3>2, <3>3, <4>2
        <4> QED
          BY <1>6, <1>7, <1>19, <2>2, <3>3, <4>3
      <3>4. CASE l = 1
        <4>1. i \in 2..(Len(s) + 1)
          BY <1>7, <3>1, <3>4
        <4>2. r[i] = s[i - 1] /\ i - 1 \in 1..Len(s)
          BY <1>7, <4>1
        <4>3. x \in Range(s) /\ r[i] = x
          BY <1>7, <3>1, <3>2, <3>4, <4>2
        <4> QED
          BY <1>6, <1>19, <2>2, <4>3
      <3>5. CASE i # 1 /\ l # 1
        <4>1. i \in 2..(Len(s) + 1) /\ l \in 2..(Len(s) + 1)
          BY <1>7, <3>1, <3>5
        <4>2. /\ r[i] = s[i - 1] /\ i - 1 \in 1..Len(s) /\ r[l] = s[l - 1] /\ l - 1 \in 1..Len(s)
          BY <1>7, <4>1
        <4>3. i - 1 # l - 1
          BY <4>1
        <4>4. <<w, s[i - 1]>> \in stranded
          BY <3>1, <4>2, <4>3 DEF RestInv, DoubleInv
        <4> QED
          BY <1>6, <2>2, <4>2, <4>4
      <3> QED
        BY <3>3, <3>4, <3>5
    <2> QED
      BY <2>1, <2>2
  <1>22. NothingLeaks'
    <2> SUFFICES ASSUME NEW v \in Worker, NEW y \in Range(processing'[v]), <<v, y>> \notin stranded'
                 PROVE  \E i \in Unacked' : i.w = v /\ i.item = y
      BY DEF NothingLeaks
    <2>1. CASE v = w /\ y = x
      <3>1. new \in jobs'
        BY <1>3, <2>1
      <3> QED
        BY <1>11, <1>16, <2>1, <3>1
    <2>2. CASE ~(v = w /\ y = x)
      <3>0. <<v, y>> \notin stranded
        BY <1>20
      <3>1. y \in Range(processing[v])
        <4>1. CASE v = w
          <5>1. processing'[v] = r /\ y # x
            BY <1>6, <2>2, <4>1
          <5>2. y \in Range(r)
            BY <5>1
          <5>3. Range(r) = Range(s) \cup {x}
            BY <1>7
          <5> HIDE DEF r
          <5> QED
            BY <4>1, <5>1, <5>2, <5>3
        <4>2. CASE v # w
          BY <1>6, <4>2
        <4> QED
          BY <4>1, <4>2
      <3>2. \E i \in Unacked : i.w = v /\ i.item = y
        BY <3>0, <3>1 DEF RestInv, NothingLeaks
      <3> QED
        BY <1>16, <3>2
    <2> QED
      BY <2>1, <2>2
  <1>23. NoTaskVanishes'
    <2>1. Processing \subseteq Processing' /\ x.id \in Processing'
      <3>1. \A v \in Worker : Range(processing[v]) \subseteq Range(processing'[v])
        BY <1>6, <1>7
      <3>2. x \in Range(processing'[w])
        BY <1>6, <1>7
      <3> QED
        BY <3>1, <3>2, ProcessingIs, ProcessingIsNext
    <2>2. Moving \subseteq Moving'
      BY <1>3, <1>10, <1>11, <1>16 DEF Moving, Unacked
    <2> QED
      BY <1>2, <1>5, <1>8, <2>1, <2>2 DEF RestInv, NoTaskVanishes
  <1>24. processing' \in [Worker -> Seq(Message)] /\ jobs' \subseteq Job /\ stranded' \subseteq Worker \X Message
    BY <1>2, <1>3, <1>5, <1>7, <1>11 DEF RedisType, TypeOK
  <1>25. RedisType'
    BY <1>2, <1>4, <1>5, <1>24 DEF RedisType, TypeOK, QueuesTyped
  <1> QED
    BY <1>13, <1>14, <1>15, <1>18, <1>21, <1>22, <1>23, <1>25 DEF RestInv

-----------------------------------------------------------------------------
(* enqueue by a client, time and crashes *)

\* SET NX
LEMMA ClientDedupKeeps ==
  ASSUME RedisType, RestInv, NEW t \in Task, ClientDedup(t)
  PROVE  RedisType' /\ RestInv'
  <1>1. /\ UNCHANGED <<queue, processing, scheduled, dlq, scan, jobs, alive, due, stranded, done, dropped>>
        /\ client[t] = "new" /\ Follows(t) /\ client \in [Task -> {"new", "push", "sent", "filtered"}]
    BY DEF ClientDedup, RedisType, TypeOK
  <1>2. \/ client' = [client EXCEPT ![t] = "push"]
        \/ client' = [client EXCEPT ![t] = "filtered"]
    BY DEF ClientDedup
  <1>3. dedup' \subseteq Keys
    BY DEF ClientDedup, Keys, RedisType, TypeOK
  <1>4. /\ client' \in [Task -> {"new", "push", "sent", "filtered"}] /\ client'[t] # "sent"
        /\ \A s \in Task : s # t => client'[s] = client[s]
    BY <1>1, <1>2
  <1>5. Sent' = Sent
    BY <1>1, <1>4 DEF Sent
  <1>6. /\ Queued' = Queued /\ Scheduled' = Scheduled /\ Processing' = Processing
        /\ DeadLettered' = DeadLettered /\ (QueueInv => QueueInv')
    BY <1>1, Frame
  <1>7. Unacked' = Unacked /\ Moving' = Moving
    BY <1>1 DEF Unacked, Moving
  <1>8. PlaceInv'
    BY <1>1, <1>5, <1>6 DEF RestInv, PlaceInv, ExclusiveExecution
  <1>9. JobInv'
    BY <1>1, <1>5 DEF RestInv, JobInv
  <1>10. FollowInv'
    <2>1. \A s \in Task : t \in Mentions[s] => s \in done
      BY <1>1 DEF Follows
    <2>2. t \notin done
      BY <1>1 DEF RestInv, FollowInv
    <2>3. \A s \in done : s \in Task
      BY DEF RedisType, TypeOK
    <2> QED
      BY <1>1, <1>4, <2>1, <2>2, <2>3 DEF RestInv, FollowInv
  <1>11. OwnInv'
    BY <1>1, <1>7 DEF RestInv, OwnInv, OwnFirst, TextContains
  <1>12. DoubleInv'
    BY <1>1 DEF RestInv, DoubleInv
  <1>13. NothingLeaks'
    BY <1>1, <1>7 DEF RestInv, NothingLeaks
  <1>14. NoTaskVanishes'
    BY <1>1, <1>5, <1>6, <1>7 DEF RestInv, NoTaskVanishes
  <1> QED
    BY <1>1, <1>3, <1>4, <1>8, <1>9, <1>10, <1>11, <1>12, <1>13, <1>14 DEF RestInv, RedisType, TypeOK

\* LPUSH of a new message.
LEMMA ClientPushKeeps ==
  ASSUME RedisType, RestInv, NEW t \in Task, ClientPush(t)
  PROVE  RedisType' /\ RestInv'
  <1>1. /\ UNCHANGED <<processing, scheduled, dlq, dedup, scan, jobs, alive, due, stranded, done, dropped>>
        /\ client' = [client EXCEPT ![t] = "sent"] /\ client \in [Task -> {"new", "push", "sent", "filtered"}]
    BY DEF ClientPush, RedisType, TypeOK
  <1>2. PICK m : m = [id |-> t, retries |-> 0] /\ Push(m)
    BY DEF ClientPush
  <1>3. m \in Message /\ m.id = t
    BY <1>2 DEF Message
  <1>4. t \notin Sent
    BY DEF ClientPush, Sent
  <1>5. t \notin Queued /\ t \notin Scheduled /\ \A i \in jobs : i.m.id # t
    BY <1>4, InHand DEF RestInv, PlaceInv
  <1>6. t \notin done
    BY <1>4 DEF RestInv, FollowInv, Sent, RedisType, TypeOK
  <1>7. Sent' = Sent \cup {t} /\ client' \in [Task -> {"new", "push", "sent", "filtered"}]
    BY <1>1 DEF Sent
  <1>8. PlaceInv' /\ Queued' = Queued \cup {t} /\ queue' \in [Queue -> Seq(Message)]
    BY <1>1, <1>2, <1>3, <1>5, <1>6, <1>7, PushPlace DEF RestInv
  <1>9. JobInv'
    BY <1>1, <1>7 DEF RestInv, JobInv
  <1>10. FollowInv'
    <2>1. client[t] = "push" \/ Follows(t)
      BY DEF ClientPush
    <2>2. \A s \in Task : t \in Mentions[s] => s \in done
      BY <2>1 DEF Follows, RestInv, FollowInv
    <2>3. client'[t] = "sent" /\ \A s \in Task : s # t => client'[s] = client[s]
      BY <1>1
    <2>4. \A s \in done : s \in Task
      BY DEF RedisType, TypeOK
    <2> QED
      BY <1>1, <2>2, <2>3, <2>4 DEF RestInv, FollowInv
  <1>11. Unacked' = Unacked /\ Moving' = Moving
    BY <1>1 DEF Unacked, Moving
  <1>12. OwnInv'
    BY <1>1, <1>11 DEF RestInv, OwnInv, OwnFirst, TextContains
  <1>13. DoubleInv'
    BY <1>1 DEF RestInv, DoubleInv
  <1>14. NothingLeaks'
    BY <1>1, <1>11 DEF RestInv, NothingLeaks
  <1>15. NoTaskVanishes'
    <2>1. Scheduled' = Scheduled /\ Processing' = Processing /\ DeadLettered' = DeadLettered
      BY <1>1, Frame
    <2> QED
      BY <1>1, <1>7, <1>8, <1>11, <2>1 DEF RestInv, NoTaskVanishes
  <1> QED
    BY <1>1, <1>7, <1>8, <1>9, <1>10, <1>12, <1>13, <1>14, <1>15 DEF RestInv, RedisType, TypeOK

\* The invariant speaks of these variables only.
LEMMA RestFrame ==
  ASSUME RestInv, UNCHANGED <<queue, processing, scheduled, dlq, client, jobs, stranded, done, dropped>>
  PROVE  RestInv'
  <1>1. /\ Queued' = Queued /\ Scheduled' = Scheduled /\ Sent' = Sent /\ Processing' = Processing
        /\ DeadLettered' = DeadLettered /\ (QueueInv => QueueInv')
    BY Frame
  <1>2. Unacked' = Unacked /\ Moving' = Moving
    BY DEF Unacked, Moving
  <1>3. PlaceInv'
    BY <1>1 DEF RestInv, PlaceInv, ExclusiveExecution
  <1>4. JobInv' /\ FollowInv' /\ DoubleInv'
    BY <1>1 DEF RestInv, JobInv, FollowInv, DoubleInv
  <1>5. OwnInv'
    BY <1>2 DEF RestInv, OwnInv, OwnFirst, TextContains
  <1>6. NothingLeaks'
    BY <1>2 DEF RestInv, NothingLeaks
  <1>7. NoTaskVanishes'
    BY <1>1, <1>2 DEF RestInv, NoTaskVanishes
  <1> QED
    BY <1>3, <1>4, <1>5, <1>6, <1>7 DEF RestInv

\* A key expires, an eta passes, BLMOVE times out.
LEMMA TimeKeeps ==
  ASSUME RedisType, RestInv,
         \/ \E k \in Keys : KeyExpires(k)
         \/ \E t \in Task : EtaPasses(t)
         \/ \E w \in Worker : DequeueTimeout(w)
  PROVE  RedisType' /\ RestInv'
  <1>1. UNCHANGED <<queue, processing, scheduled, dlq, client, jobs, stranded, done, dropped, alive>>
    BY DEF KeyExpires, EtaPasses, DequeueTimeout, redisVars
  <1>2. RestInv'
    BY <1>1, RestFrame
  <1>3. dedup' \subseteq Keys /\ due' \subseteq EtaTask
    BY DEF KeyExpires, EtaPasses, DequeueTimeout, redisVars, RedisType, TypeOK
  <1>4. scan' \in [Worker -> DOMAIN Order]
    <2>1. CASE UNCHANGED scan
      BY <2>1 DEF RedisType, TypeOK
    <2>2. CASE \E w \in Worker : DequeueTimeout(w)
      <3>1. DOMAIN Order = 1..Len(Order) /\ Len(Order) \in Nat /\ Len(Order) >= 1
        BY RedisAssumption
      <3>2. PICK w \in Worker : scan' = [scan EXCEPT ![w] = IF @ = Len(Order) THEN 1 ELSE @ + 1]
        BY <2>2 DEF DequeueTimeout
      <3>3. scan \in [Worker -> 1..Len(Order)]
        BY <3>1 DEF RedisType, TypeOK
      <3>4. scan[w] \in 1..Len(Order)
        BY <3>3
      <3>5. (IF scan[w] = Len(Order) THEN 1 ELSE scan[w] + 1) \in 1..Len(Order)
        BY <3>1, <3>4
      <3> QED
        BY <3>1, <3>2, <3>3, <3>5
    <2> QED
      BY <2>1, <2>2 DEF KeyExpires, EtaPasses
  <1> QED
    BY <1>1, <1>2, <1>3, <1>4 DEF RedisType, TypeOK

\* The worker's executions are gone, its list is stranded.
LEMMA CrashKeeps ==
  ASSUME RedisType, RestInv, NEW w \in Worker, Crash(w)
  PROVE  RedisType' /\ RestInv'
  <1> DEFINE J == {j \in jobs : j.w = w}
  <1>1. /\ UNCHANGED <<queue, processing, scheduled, dlq, dedup, client, scan, due, done>>
        /\ alive' = alive \ {w} /\ jobs' = {j \in jobs : j.w # w}
        /\ dropped' = dropped \cup InNoList(J)
        /\ stranded' = stranded \cup {<<w, item>> : item \in Range(processing[w])}
    BY DEF Crash, redisVars
  <1>2. jobs' \subseteq jobs
    BY <1>1
  <1>3. /\ Queued' = Queued /\ Scheduled' = Scheduled /\ Sent' = Sent /\ Processing' = Processing
        /\ DeadLettered' = DeadLettered
    BY <1>1, Frame
  <1>4. PlaceInv'
    <2>1. \A i, l \in jobs : i.m.id = l.m.id => i = l
      BY DEF RestInv, PlaceInv, ExclusiveExecution
    <2> QED
      BY <1>1, <1>2, <2>1, PlaceStays DEF RestInv
  <1>5. JobInv'
    BY <1>1, <1>2, JobsStay DEF RestInv
  <1>6. FollowInv' /\ DoubleInv'
    BY <1>1 DEF RestInv, FollowInv, DoubleInv
  <1>7. Unacked' = {j \in Unacked : j.w # w}
    BY <1>1 DEF Unacked
  <1>8. OwnInv'
    BY <1>1, <1>7 DEF RestInv, OwnInv, OwnFirst, TextContains
  <1>9. NothingLeaks'
    <2> SUFFICES ASSUME NEW v \in Worker, NEW x \in Range(processing[v]), <<v, x>> \notin stranded'
                 PROVE  \E i \in Unacked' : i.w = v /\ i.item = x
      BY <1>1 DEF NothingLeaks
    <2>1. v # w /\ <<v, x>> \notin stranded
      BY <1>1
    <2>2. PICK i \in Unacked : i.w = v /\ i.item = x
      BY <2>1 DEF RestInv, NothingLeaks
    <2> QED
      BY <1>7, <2>1, <2>2
  <1>10. Moving \subseteq Moving' \cup Processing \cup done \cup InNoList(J)
    <2> SUFFICES ASSUME NEW j \in jobs \ Unacked, j.w = w, j.m.id \notin done, j.m.id \notin Processing
                 PROVE  j.m.id \in InNoList(J)
      BY <1>1, <1>7 DEF Moving
    <2>1. j \in J /\ j.pc \in {"settle", "push"}
      BY DEF Unacked, RedisType, TypeOK, Job, Steps
    <2>2. j.plan # "success"
      BY DEF RestInv, JobInv
    <2>3. j.item \notin Range(processing[j.w])
      BY InHand, ProcessingIs
    <2> QED
      BY <2>1, <2>2, <2>3 DEF InNoList
  <1>11. NoTaskVanishes'
    BY <1>1, <1>3, <1>10 DEF RestInv, NoTaskVanishes
  <1>12. InNoList(J) \subseteq Task
    BY InHand DEF InNoList
  <1>13. {<<w, item>> : item \in Range(processing[w])} \subseteq Worker \X Message
    <2>1. Range(processing[w]) \subseteq Message
      BY DEF RedisType, TypeOK, Range
    <2> QED
      BY <2>1
  <1>14. jobs' \subseteq Job /\ alive' \subseteq Worker /\ dropped' \subseteq Task /\ stranded' \subseteq Worker \X Message
    BY <1>1, <1>2, <1>12, <1>13 DEF RedisType, TypeOK
  <1> QED
    BY <1>1, <1>4, <1>5, <1>6, <1>8, <1>9, <1>11, <1>14 DEF RestInv, RedisType, TypeOK

\* Due messages go to their queues; those past the limit are dropped.
LEMMA PollKeeps ==
  ASSUME RedisType, RestInv, PollScheduled
  PROVE  RedisType' /\ RestInv'
  <1> DEFINE ready == {m \in scheduled : m.id \in due}
  <1>1. /\ UNCHANGED <<processing, dlq, dedup, client, scan, jobs, alive, due, stranded, done>>
        /\ scheduled' = scheduled \ ready
    BY DEF PollScheduled
  <1>2. PICK batch \in SUBSET ready :
           /\ \E front \in Pushed(batch) : queue' = [q \in Queue |-> front[q] \o queue[q]]
           /\ dropped' = dropped \cup {m.id : m \in ready \ batch}
    BY DEF PollScheduled
  <1>3. PICK front \in Pushed(batch) : queue' = [q \in Queue |-> front[q] \o queue[q]]
    BY <1>2
  <1>4. ready \subseteq scheduled /\ batch \subseteq scheduled /\ scheduled \subseteq Message /\ IsFiniteSet(scheduled)
    BY DEF RedisType, TypeOK
  <1>5. IsFiniteSet(batch) /\ IsFiniteSet(scheduled')
    BY <1>1, <1>4, FS_Subset
  <1>6. \A m \in scheduled : m.id \in Scheduled /\ m.id \notin Queued /\ m.id \in Sent /\ m.id \notin done /\ m.id \in Task
    BY <1>4 DEF Scheduled, RestInv, PlaceInv, ExclusiveExecution, Message
  <1>7. \A m, n \in scheduled : m.id = n.id => m = n
    BY DEF RestInv, PlaceInv
  <1>8. QueuesTyped' /\ QueueInv' /\ Queued' = Queued \cup {m.id : m \in batch}
    <2>1. \A m, n \in batch : m.id = n.id => m = n
      BY <1>4, <1>7
    <2>2. \A m \in batch : m.id \notin Queued
      BY <1>4, <1>6
    <2>3. QueuesTyped /\ QueueInv /\ batch \in SUBSET Message
      BY <1>4 DEF RedisType, TypeOK, QueuesTyped, RestInv, PlaceInv
    <2> QED
      BY <1>3, <1>5, <2>1, <2>2, <2>3, PollQueued
  <1>9. /\ Sent' = Sent /\ Processing' = Processing /\ DeadLettered' = DeadLettered
        /\ Unacked' = Unacked /\ Moving' = Moving
    BY <1>1, Frame DEF Unacked, Moving
  <1>10. /\ Scheduled' \subseteq Scheduled
         /\ \A t \in Scheduled' : t \notin {m.id : m \in batch}
         /\ Scheduled \subseteq Scheduled' \cup {m.id : m \in ready}
    <2>1. \A m \in scheduled' : m \in scheduled /\ m \notin batch
      BY <1>1
    <2> HIDE DEF ready
    <2> QED
      BY <1>1, <1>4, <1>7, <2>1 DEF Scheduled
  <1>11. {m.id : m \in batch} \subseteq Scheduled
    BY <1>4, <1>6
  <1>12. ExclusiveExecution'
    <2>1. \A i, l \in jobs' : i.m.id = l.m.id => i = l
      BY <1>1 DEF RestInv, PlaceInv, ExclusiveExecution
    <2>2. \A i \in jobs' : i.m.id \notin Queued' \cup Scheduled'
      BY <1>1, <1>8, <1>10, <1>11 DEF RestInv, PlaceInv, ExclusiveExecution
    <2>3. Queued' \cap Scheduled' = {}
      BY <1>8, <1>10 DEF RestInv, PlaceInv, ExclusiveExecution
    <2> QED
      BY <2>1, <2>2, <2>3 DEF ExclusiveExecution
  <1>13. PlaceInv'
    <2>1. Queued' \subseteq Sent' /\ Scheduled' \subseteq Sent'
      BY <1>8, <1>9, <1>10, <1>11 DEF RestInv, PlaceInv
    <2>2. \A t \in done' : t \notin Queued' /\ t \notin Scheduled'
      BY <1>1, <1>8, <1>10, <1>11 DEF RestInv, PlaceInv
    <2>3. \A m, n \in scheduled' : m.id = n.id => m = n
      BY <1>1, <1>7
    <2> QED
      BY <1>8, <1>12, <2>1, <2>2, <2>3 DEF PlaceInv
  <1>14. JobInv' /\ FollowInv' /\ DoubleInv'
    BY <1>1, <1>9 DEF RestInv, JobInv, FollowInv, DoubleInv
  <1>15. OwnInv'
    BY <1>1, <1>9 DEF RestInv, OwnInv, OwnFirst, TextContains
  <1>16. NothingLeaks'
    BY <1>1, <1>9 DEF RestInv, NothingLeaks
  <1>17. NoTaskVanishes'
    <2>1. {m.id : m \in ready} \subseteq Queued' \cup dropped'
      <3>1. \A m \in ready : m \in batch \/ m \in ready \ batch
        OBVIOUS
      <3> HIDE DEF ready
      <3> QED
        BY <1>2, <1>8, <3>1
    <2> HIDE DEF ready
    <2>2. Queued \subseteq Queued' /\ dropped \subseteq dropped'
      BY <1>2, <1>8
    <2> QED
      BY <1>1, <1>9, <1>10, <2>1, <2>2 DEF RestInv, NoTaskVanishes
  <1>18. dropped' \subseteq Task /\ scheduled' \subseteq Message
    <2>1. {m.id : m \in ready \ batch} \subseteq Task
      BY <1>4, <1>6
    <2> HIDE DEF ready
    <2> QED
      BY <1>1, <1>2, <1>4, <2>1 DEF RedisType, TypeOK
  <1> HIDE DEF ready
  <1>19. RedisType'
    BY <1>1, <1>5, <1>8, <1>18 DEF RedisType, TypeOK, QueuesTyped
  <1> QED
    BY <1>13, <1>14, <1>15, <1>16, <1>17, <1>19 DEF RestInv

-----------------------------------------------------------------------------
(* The theorems *)

LEMMA InitInv ==
  Init => RedisInv
  <1> SUFFICES ASSUME Init PROVE RedisInv
    OBVIOUS
  <1>1. <<>> \in Seq(Message) /\ Len(<<>>) = 0 /\ 1..0 = {} /\ Range(<<>>) = {} /\ Ids(<<>>) = {}
    BY DEF Range, Ids
  <1>2. IsFiniteSet({})
    BY FS_EmptySet
  <1>3. 1 \in DOMAIN Order
    BY RedisAssumption
  <1>4. RedisType
    BY <1>1, <1>2, <1>3 DEF Init, RedisType, TypeOK
  <1>5. /\ \A q \in Queue : queue[q] = <<>> /\ dlq[q] = <<>>
        /\ \A w \in Worker : processing[w] = <<>>
        /\ scheduled = {} /\ jobs = {} /\ done = {} /\ stranded = {}
        /\ \A t \in Task : client[t] = "new"
    BY DEF Init
  <1>6. Queued = {} /\ Scheduled = {} /\ Sent = {} /\ Unacked = {}
    BY <1>1, <1>5 DEF Queued, Scheduled, Sent, Unacked
  <1>7. QueueInv
    BY <1>1, <1>5 DEF QueueInv, IdUnique
  <1>8. PlaceInv
    BY <1>5, <1>6, <1>7 DEF PlaceInv, ExclusiveExecution
  <1>9. JobInv /\ FollowInv /\ OwnInv /\ NoTaskVanishes
    BY <1>5, <1>6 DEF JobInv, FollowInv, OwnInv, NoTaskVanishes
  <1>10. DoubleInv
    BY <1>1, <1>5 DEF DoubleInv
  <1>11. NothingLeaks
    BY <1>1, <1>5 DEF NothingLeaks
  <1> QED
    BY <1>4, <1>8, <1>9, <1>10, <1>11 DEF RedisInv

\* One step, of a client, of time, of a worker or of one of its executions.
LEMMA StepInv ==
  RedisInv /\ [Next]_vars => RedisInv'
  <1> SUFFICES ASSUME RedisInv, [Next]_vars PROVE RedisInv'
    OBVIOUS
  <1>1. RedisType /\ RestInv
    BY DEF RedisInv, RestInv
  <1>2. RedisType' /\ RestInv' => RedisInv'
    BY DEF RedisInv, RestInv
  <1>3. CASE \E t \in Task : ClientDedup(t)
    BY <1>1, <1>2, <1>3, ClientDedupKeeps
  <1>4. CASE \E t \in Task : ClientPush(t)
    BY <1>1, <1>2, <1>4, ClientPushKeeps
  <1>5. CASE \/ \E k \in Keys : KeyExpires(k)
             \/ \E t \in Task : EtaPasses(t)
             \/ \E w \in Worker : DequeueTimeout(w)
    BY <1>1, <1>2, <1>5, TimeKeeps
  <1>6. CASE \E w \in Worker : Dequeue(w)
    BY <1>1, <1>2, <1>6, DequeueKeeps
  <1>7. CASE \E w \in Worker : Crash(w)
    BY <1>1, <1>2, <1>7, CrashKeeps
  <1>8. ASSUME NEW j \in jobs, Execute(j)
        PROVE  RedisInv'
    <2>1. CASE NotDue(j) \/ Succeed(j) \/ Fail(j)
      BY <1>1, <1>2, <2>1, RunKeeps
    <2>2. CASE Find(j)
      BY <1>1, <1>2, <2>2, FindKeeps
    <2>3. CASE RemoveFound(j)
      BY <1>1, <1>2, <2>3, RemoveKeeps
    <2>4. CASE AckFails(j)
      BY <1>1, <1>2, <2>4, AckFailsKeeps
    <2>5. CASE Finish(j) \/ SettleFails(j)
      BY <1>1, <1>2, <2>5, FinishKeeps
    <2>6. CASE Schedule(j)
      BY <1>1, <1>2, <2>6, ScheduleKeeps
    <2>7. CASE RequeueDedup(j)
      BY <1>1, <1>2, <2>7, RequeueDedupKeeps
    <2>8. CASE RequeuePush(j)
      BY <1>1, <1>2, <2>8, RequeuePushKeeps
    <2>9. CASE Bury(j)
      BY <1>1, <1>2, <2>9, BuryKeeps
    <2> QED
      BY <1>8, <2>1, <2>2, <2>3, <2>4, <2>5, <2>6, <2>7, <2>8, <2>9 DEF Execute
  <1>9. CASE PollScheduled
    BY <1>1, <1>2, <1>9, PollKeeps
  <1>10. CASE UNCHANGED vars
    <2>1. UNCHANGED <<queue, processing, scheduled, dlq, dedup, client, scan, jobs, alive, due, stranded, done, dropped>>
      BY <1>10 DEF vars, redisVars
    <2>2. RestInv'
      BY <1>1, <2>1, RestFrame
    <2> QED
      BY <1>1, <1>2, <2>1, <2>2 DEF RedisType, TypeOK
  <1> QED
    BY <1>3, <1>4, <1>5, <1>6, <1>7, <1>8, <1>9, <1>10 DEF Next

LEMMA InvAlways ==
  Spec => []RedisInv
  BY InitInv, StepInv, PTL DEF Spec

\* ack finds the item it is meant for, because the text of no item to its left
\* contains the id.
LEMMA FindsOwn ==
  RedisInv => AckRemovesOwn
  <1> SUFFICES ASSUME RedisInv, NEW j \in Unacked
               PROVE  /\ j.item \in Range(processing[j.w])
                      /\ j.pc = "remove" => j.found = j.item
    BY DEF AckRemovesOwn
  <1>1. j \in jobs /\ j.w \in Worker
    BY DEF Unacked, RedisInv, RedisType, TypeOK, Job
  <1>2. processing[j.w] \in Seq(Message) /\ OwnFirst(processing[j.w], j.item, j.m.id)
    BY <1>1 DEF RedisInv, RedisType, TypeOK, OwnInv
  <1>3. j.item \in Range(processing[j.w])
    BY <1>2, OwnFirstIn
  <1> QED
    BY <1>1, <1>3 DEF RedisInv, JobInv

\* Whatever the workers, the crashes and the commands that fail: an enqueued
\* message is in a list, in the hands of a live worker, successful or accounted
\* for as dropped; one execution at a time has it, and no queue meanwhile; and a
\* processing list holds only what is executed or was left by a crash or an error
\* (enqueue, dequeue, ack, nack, dead_letter and poll_scheduled).
THEOREM RedisSafe ==
  Spec => []NeitherLostNorDoubled
  <1>1. RedisInv => NeitherLostNorDoubled
    BY DEF RedisInv, RedisType, PlaceInv, NeitherLostNorDoubled
  <1> QED
    BY <1>1, InvAlways, PTL

\* The substring search of ack never takes another message's item, whichever
\* messages mention the ids of others, as long as a message that is mentioned is
\* enqueued after the success of those that mention it; and an execution's item is
\* in the list until its ack takes it.
THEOREM RedisAcks ==
  Spec => []AckRemovesOwn
  BY FindsOwn, InvAlways, PTL

-----------------------------------------------------------------------------
(* What is dropped, and why *)

\* What is needed for a poll to drop a message: more delayed ones than its limit.
PollOverflows == ~(IsFiniteSet(EtaTask) /\ Cardinality(EtaTask) <= PollLimit)

\* A dropped message was retried with a deduplication key, or a command failed, or
\* a worker has crashed, or it was delayed with more others than a poll takes.
DropsAreNamed ==
    \A t \in dropped :
        \/ DedupKey[t] # None /\ MaxRetries[t] > 0
        \/ Faults
        \/ alive # Worker
        \/ t \in EtaTask /\ PollOverflows

\* Only a message that has retries is retried.
RetriedInv == \A j \in jobs : j.plan = "retry" => MaxRetries[j.m.id] > 0

DropInv == RedisInv /\ DropsAreNamed /\ RetriedInv

\* A poll takes all that is due while no more messages are delayed than its limit.
LEMMA PollTakesAll ==
  ASSUME RedisInv, PollScheduled, ~PollOverflows
  PROVE  dropped' = dropped
  <1> DEFINE ready == {m \in scheduled : m.id \in due}
             ids == [m \in ready |-> m.id]
  <1>1. PICK batch \in SUBSET ready :
           /\ Cardinality(batch) = IF Cardinality(ready) < PollLimit
                                   THEN Cardinality(ready) ELSE PollLimit
           /\ dropped' = dropped \cup {m.id : m \in ready \ batch}
    BY DEF PollScheduled
  <1>2. /\ IsFiniteSet(EtaTask) /\ Cardinality(EtaTask) <= PollLimit
        /\ Cardinality(EtaTask) \in Nat /\ PollLimit \in Nat
    BY FS_CardinalityType, RedisAssumption DEF PollOverflows
  <1>3. ids \in Injection(ready, EtaTask)
    <2>1. \A m \in ready : m.id \in EtaTask
      BY DEF RedisInv, RedisType, TypeOK
    <2>2. \A m, n \in ready : m.id = n.id => m = n
      BY DEF RedisInv, PlaceInv
    <2> QED
      BY <2>1, <2>2 DEF Injection, IsInjective
  <1> HIDE DEF ids, ready
  <1>4. IsFiniteSet(ready) /\ Cardinality(ready) <= Cardinality(EtaTask)
    BY <1>2, <1>3, FS_Injection
  <1>5. Cardinality(ready) \in Nat
    BY <1>4, FS_CardinalityType
  <1>6. Cardinality(batch) = Cardinality(ready)
    BY <1>1, <1>2, <1>4, <1>5
  <1>7. batch = ready
    BY <1>4, <1>6, FS_Subset
  <1> QED
    BY <1>1, <1>7

LEMMA DropStep ==
  DropInv /\ [Next]_vars => DropInv'
  <1> SUFFICES ASSUME DropInv, [Next]_vars PROVE DropInv'
    OBVIOUS
  <1>1. RedisInv /\ DropsAreNamed /\ RetriedInv
    BY DEF DropInv
  <1>2. RedisInv'
    BY <1>1, StepInv
  <1>3. alive' \subseteq alive /\ alive \subseteq Worker
    <2>1. alive' = alive \/ \E w \in Worker : alive' = alive \ {w}
      BY DEF Next, vars, redisVars, ClientDedup, ClientPush, EtaPasses, KeyExpires, Dequeue, DequeueTimeout, Crash,
             Execute, NotDue, Succeed, Fail, Find, RemoveFound, AckFails, Finish, Schedule, RequeueDedup, RequeuePush,
             Bury, SettleFails, PollScheduled
    <2> QED
      BY <1>1, <2>1 DEF RedisInv, RedisType, TypeOK
  <1>4. ASSUME \A t \in dropped' : \/ t \in dropped
                                   \/ DedupKey[t] # None /\ MaxRetries[t] > 0
                                   \/ Faults \/ alive' # Worker
                                   \/ t \in EtaTask /\ PollOverflows
        PROVE  DropsAreNamed'
    BY <1>1, <1>3, <1>4 DEF DropsAreNamed, PollOverflows
  <1>5. CASE \E t \in Task : ClientDedup(t) \/ ClientPush(t) \/ EtaPasses(t)
    <2>1. dropped' = dropped /\ jobs' = jobs
      BY <1>5 DEF ClientDedup, ClientPush, EtaPasses
    <2> QED
      BY <1>1, <1>2, <1>4, <2>1 DEF DropInv, RetriedInv
  <1>6. CASE \E k \in Keys : KeyExpires(k)
    BY <1>1, <1>2, <1>4, <1>6 DEF KeyExpires, DropInv, RetriedInv
  <1>7. CASE \E w \in Worker : DequeueTimeout(w)
    BY <1>1, <1>2, <1>4, <1>7 DEF DequeueTimeout, DropInv, RetriedInv
  <1>8. CASE \E w \in Worker : Dequeue(w)
    <2>1. PICK w \in Worker : Dequeue(w)
      BY <1>8
    <2>2. dropped' = dropped /\ \A j \in jobs' : j \in jobs \/ j.plan = None
      BY <2>1 DEF Dequeue, Started
    <2>3. RetriedInv'
      BY <1>1, <2>2, NoneAssumption DEF RetriedInv, Plans
    <2> QED
      BY <1>2, <1>4, <2>2, <2>3 DEF DropInv
  <1>9. CASE \E w \in Worker : Crash(w)
    <2>1. alive' # Worker /\ jobs' \subseteq jobs
      BY <1>9 DEF Crash
    <2> QED
      BY <1>1, <1>2, <1>4, <2>1 DEF DropInv, RetriedInv
  <1>10. CASE PollScheduled
    <2>1. jobs' = jobs
      BY <1>10 DEF PollScheduled
    <2>2. \A t \in dropped' : t \in dropped \/ t \in EtaTask
      <3>1. PICK batch : dropped' = dropped \cup {m.id : m \in {n \in scheduled : n.id \in due} \ batch}
        BY <1>10 DEF PollScheduled
      <3> QED
        BY <1>1, <3>1 DEF RedisInv, RedisType, TypeOK
    <2>3. PollOverflows \/ dropped' = dropped
      BY <1>1, <1>10, PollTakesAll
    <2> QED
      BY <1>1, <1>2, <1>4, <2>1, <2>2, <2>3 DEF DropInv, RetriedInv
  <1>11. ASSUME NEW j \in jobs, Execute(j)
         PROVE  DropInv'
    <2>1. j \in Job /\ j.m.id = j.item.id /\ (j.pc = "push" => j.plan = "retry")
      BY <1>1 DEF RedisInv, RedisType, TypeOK, JobInv
    <2>2. CASE RequeueDedup(j)
      <3>1. /\ \A t \in dropped' : t \in dropped \/ (t = j.m.id /\ DedupKey[t] # None)
            /\ \A l \in jobs' : l \in jobs \/ l = [j EXCEPT !.pc = "push"]
            /\ j.plan = "retry"
        BY <2>2 DEF RequeueDedup, Becomes, Ends
      <3>2. MaxRetries[j.m.id] > 0
        BY <1>1, <3>1 DEF RetriedInv
      <3>3. RetriedInv'
        BY <1>1, <2>1, <3>1, <3>2 DEF RetriedInv, Job
      <3> QED
        BY <1>2, <1>4, <3>1, <3>2, <3>3 DEF DropInv
    <2>3. CASE SettleFails(j)
      BY <1>1, <1>2, <1>4, <2>3 DEF SettleFails, Ends, DropInv, RetriedInv
    <2>4. CASE Fail(j)
      <3>1. dropped' = dropped
        BY <2>4 DEF Fail
      <3>2. MaxRetries[j.m.id] \in Nat /\ j.item.retries \in Nat
        BY <2>1, RedisAssumption DEF Job, Message
      <3>3. \A l \in jobs' : l \in jobs \/ l.plan = "bury" \/ (l.m.id = j.m.id /\ j.item.retries < MaxRetries[j.m.id])
        <4>1. CASE j.item.retries < MaxRetries[j.item.id]
          <5>1. jobs' = (jobs \ {j}) \cup {[j EXCEPT !.plan = "retry", !.pc = "find", !.m.retries = @ + 1]}
            BY <2>4, <4>1 DEF Fail, Becomes
          <5>2. [j EXCEPT !.plan = "retry", !.pc = "find", !.m.retries = @ + 1].m.id = j.m.id
            BY <2>1 DEF Job, Message
          <5> QED
            BY <2>1, <4>1, <5>1, <5>2
        <4>2. CASE ~(j.item.retries < MaxRetries[j.item.id])
          <5>1. jobs' = (jobs \ {j}) \cup {[j EXCEPT !.plan = "bury", !.pc = "find"]}
            BY <2>4, <4>2 DEF Fail, Becomes
          <5> QED
            BY <2>1, <5>1 DEF Job
        <4> QED
          BY <4>1, <4>2
      <3>4. RetriedInv'
        BY <1>1, <3>2, <3>3 DEF RetriedInv
      <3> QED
        BY <1>2, <1>4, <3>1, <3>4 DEF DropInv
    <2>5. CASE NotDue(j) \/ Succeed(j) \/ Find(j) \/ RemoveFound(j) \/ AckFails(j)
      <3>1. dropped' = dropped
        BY <2>5 DEF NotDue, Succeed, Find, RemoveFound, AckFails
      <3>2. \A l \in jobs' : l \in jobs \/ (l.m.id = j.m.id /\ (l.plan = "retry" => j.plan = "retry"))
        <4>1. \A l \in jobs' : \/ l \in jobs
                               \/ l \in {[j EXCEPT !.plan = "reschedule", !.pc = "find"], [j EXCEPT !.plan = "success", !.pc = "find"]}
                               \/ l \in {[j EXCEPT !.pc = "settle"], [j EXCEPT !.pc = "settle", !.found = None]}
                               \/ \E x : l = [j EXCEPT !.found = x, !.pc = "remove"]
          BY <2>5 DEF NotDue, Succeed, Find, RemoveFound, AckFails, Becomes, Ends
        <4> QED
          BY <2>1, <4>1 DEF Job
      <3>3. RetriedInv'
        BY <1>1, <3>2 DEF RetriedInv
      <3> QED
        BY <1>2, <1>4, <3>1, <3>3 DEF DropInv
    <2>6. CASE Finish(j) \/ Schedule(j) \/ RequeuePush(j) \/ Bury(j)
      <3>1. dropped' = dropped /\ jobs' \subseteq jobs
        BY <2>6 DEF Finish, Schedule, RequeuePush, Bury, Ends
      <3> QED
        BY <1>1, <1>2, <1>4, <3>1 DEF DropInv, RetriedInv
    <2> QED
      BY <1>11, <2>2, <2>3, <2>4, <2>5, <2>6 DEF Execute
  <1>12. CASE UNCHANGED vars
    BY <1>1, <1>2, <1>4, <1>12 DEF vars, DropInv, RetriedInv
  <1> QED
    BY <1>5, <1>6, <1>7, <1>8, <1>9, <1>10, <1>11, <1>12 DEF Next

\* A message that Redis has lost was filtered by its own deduplication key when it
\* was retried (nack), or a command failed, or a worker crashed between two
\* commands, or the poll script removed it beyond its limit, which takes more
\* delayed messages than the limit is: otherwise every message that was enqueued
\* is kept until it is successful or dead-lettered.
THEOREM RedisDropsAreNamed ==
  Spec => []DropsAreNamed
  <1>1. Init => DropInv
    BY InitInv DEF Init, DropInv, DropsAreNamed, RetriedInv
  <1>2. DropInv => DropsAreNamed
    BY DEF DropInv
  <1> QED
    BY <1>1, <1>2, DropStep, PTL DEF Spec

-----------------------------------------------------------------------------
(* What is settled stays settled *)

\* Messages that may still be executed.
InPlay == Queued \cup Scheduled \cup {j.m.id : j \in jobs}

\* A dead letter is in no queue, not scheduled, not executed and not successful; a
\* successful message is in no queue, and only its own execution still has it.
SettledIsFinal ==
    /\ DeadLettered \cap (InPlay \cup done) = {}
    /\ done \cap (Queued \cup Scheduled) = {}
    /\ \A j \in jobs : j.m.id \in done => j.plan = "success"

\* A dead letter remains one, and so does a success.
SettledStays == DeadLettered \subseteq DeadLettered' /\ done \subseteq done'

FinalInv ==
    /\ RedisInv
    /\ DeadLettered \subseteq Sent
    /\ DeadLettered \cap (InPlay \cup done) = {}

\* What one step may do to the messages that are in play or settled: it brings in
\* only what was not sent, and settles only what was in play.
Settles ==
    /\ \A t \in InPlay' : t \in InPlay \/ t \notin Sent
    /\ \A t \in done' : t \in done \/ t \in InPlay
    /\ \A t \in DeadLettered' : t \in DeadLettered \/ (t \notin InPlay' /\ t \notin done' /\ t \in Sent)
    /\ Sent \subseteq Sent' /\ SettledStays

\* An execution, or a client, goes on without moving its message.
LEMMA QuietSettles ==
  ASSUME UNCHANGED <<queue, scheduled, dlq, client>>, done \subseteq done',
         \A t \in done' : t \in done \/ t \in InPlay,
         \A l \in jobs' : \E i \in jobs : l.m.id = i.m.id
  PROVE  Settles
  <1>1. Queued' = Queued /\ Scheduled' = Scheduled /\ DeadLettered' = DeadLettered /\ Sent' = Sent
    BY Frame
  <1>2. \A t \in InPlay' : t \in InPlay
    BY <1>1 DEF InPlay
  <1> QED
    BY <1>1, <1>2 DEF Settles, SettledStays

\* dead_letter: the execution that had the message is over, and it was the only one.
LEMMA BurySettles ==
  ASSUME RedisInv, NEW j \in jobs, Bury(j)
  PROVE  Settles
  <1>1. UNCHANGED <<queue, scheduled, client, done>> /\ jobs' = jobs \ {j} /\ j.plan = "bury"
    BY DEF Bury, Ends
  <1>2. Queued' = Queued /\ Scheduled' = Scheduled /\ Sent' = Sent
    BY <1>1, Frame
  <1>3. j.m \in Message /\ j.m.id \in Sent /\ j.m.id \notin done
    BY <1>1 DEF RedisInv, RedisType, TypeOK, Job, JobInv
  <1>4. \A t \in InPlay' : t \in InPlay /\ t # j.m.id
    BY <1>1, <1>2 DEF InPlay, RedisInv, PlaceInv, ExclusiveExecution
  <1>5. DeadLettered' = DeadLettered \cup {j.m.id}
    <2> DEFINE q == QueueOf[j.m.id]
               r == <<j.m>> \o dlq[q]
    <2>1. q \in Queue
      BY <1>3, RedisAssumption DEF Message
    <2>2. dlq' = [dlq EXCEPT ![q] = r] /\ dlq[q] \in Seq(Message) /\ dlq \in [Queue -> Seq(Message)]
      BY <2>1 DEF Bury, RedisInv, RedisType, TypeOK
    <2>3. Range(r) = Range(dlq[q]) \cup {j.m}
      BY <1>3, <2>2, PushRange
    <2> HIDE DEF r
    <2>4. dlq'[q] = r /\ \A p \in Queue : p # q => dlq'[p] = dlq[p]
      BY <2>1, <2>2
    <2>5. \A s : Ids(s) = {x.id : x \in Range(s)}
      BY DEF Ids, Range
    <2>6. Ids(r) = Ids(dlq[q]) \cup {j.m.id}
      BY <2>3, <2>5
    <2>7. DeadLettered' = UNION {Ids(dlq'[p]) : p \in Queue}
      BY DEF DeadLettered, Ids
    <2> HIDE DEF q
    <2> QED
      BY <2>1, <2>4, <2>6, <2>7 DEF DeadLettered
  <1> QED
    BY <1>1, <1>2, <1>3, <1>4, <1>5 DEF Settles, SettledStays

\* enqueue, by a client or by nack.
LEMMA PushSettles ==
  ASSUME RedisInv, NEW m \in Message, Push(m), m.id \notin Queued,
         m.id \in InPlay \/ m.id \notin Sent,
         UNCHANGED <<scheduled, dlq, done>>, jobs' \subseteq jobs, Sent \subseteq Sent'
  PROVE  Settles
  <1>1. Scheduled' = Scheduled /\ DeadLettered' = DeadLettered
    BY Frame
  <1>2. Queued' = Queued \cup {m.id}
    BY PushQueued DEF RedisInv, RedisType, TypeOK, QueuesTyped, PlaceInv
  <1>3. \A t \in InPlay' : t \in InPlay \/ t = m.id
    BY <1>1, <1>2 DEF InPlay
  <1> QED
    BY <1>1, <1>3 DEF Settles, SettledStays

LEMMA DequeueSettles ==
  ASSUME RedisInv, NEW w \in Worker, Dequeue(w)
  PROVE  Settles
  <1> DEFINE q == Order[scan[w]]
             x == Last(queue[q])
  <1>1. q \in Queue
    BY RedisAssumption DEF RedisInv, RedisType, TypeOK
  <1>2. /\ queue[q] # <<>> /\ queue' = [queue EXCEPT ![q] = Front(@)]
        /\ UNCHANGED <<scheduled, dlq, client, done>>
        /\ \A l \in jobs' : l \in jobs \/ l.m = x
    BY DEF Dequeue, TakeFrom, Started
  <1> HIDE DEF q
  <1>3. x.id \in Queued /\ Queued' \subseteq Queued
    BY <1>1, <1>2, TakeQueued DEF RedisInv, RedisType, TypeOK, QueuesTyped, PlaceInv
  <1> HIDE DEF x
  <1>4. Scheduled' = Scheduled /\ DeadLettered' = DeadLettered /\ Sent' = Sent
    BY <1>2, Frame
  <1>5. \A t \in InPlay' : t \in InPlay
    BY <1>2, <1>3, <1>4 DEF InPlay
  <1> QED
    BY <1>2, <1>4, <1>5 DEF Settles, SettledStays

LEMMA PollSettles ==
  ASSUME RedisInv, PollScheduled
  PROVE  Settles
  <1>1. UNCHANGED <<dlq, client, jobs, done>> /\ scheduled' \subseteq scheduled
    BY DEF PollScheduled
  <1>2. PICK batch \in SUBSET scheduled :
          \E front \in Pushed(batch) : queue' = [q \in Queue |-> front[q] \o queue[q]]
    BY DEF PollScheduled
  <1>3. PICK front \in Pushed(batch) : queue' = [q \in Queue |-> front[q] \o queue[q]]
    BY <1>2
  <1>4. batch \in SUBSET Message /\ IsFiniteSet(batch)
    BY <1>2, FS_Subset DEF RedisInv, RedisType, TypeOK
  <1>5. \A m \in batch : m.id \in Scheduled /\ m.id \notin Queued
    BY <1>2 DEF Scheduled, RedisInv, PlaceInv, ExclusiveExecution
  <1>6. \A m, n \in batch : m.id = n.id => m = n
    BY <1>2 DEF RedisInv, PlaceInv
  <1>7. Queued' = Queued \cup {m.id : m \in batch}
    BY <1>3, <1>4, <1>5, <1>6, PollQueued DEF RedisInv, RedisType, TypeOK, QueuesTyped, PlaceInv
  <1>8. DeadLettered' = DeadLettered /\ Sent' = Sent /\ Scheduled' \subseteq Scheduled
    BY <1>1, Frame DEF Scheduled
  <1>9. \A t \in InPlay' : t \in InPlay
    BY <1>1, <1>5, <1>7, <1>8 DEF InPlay
  <1> QED
    BY <1>1, <1>8, <1>9 DEF Settles, SettledStays

LEMMA StepSettles ==
  ASSUME RedisInv, [Next]_vars
  PROVE  Settles
  <1>1. CASE \E t \in Task : ClientDedup(t)
    <2>1. PICK t \in Task : ClientDedup(t)
      BY <1>1
    <2>2. UNCHANGED <<queue, scheduled, dlq, jobs, done>>
      BY <2>1 DEF ClientDedup
    <2>3. Sent' = Sent
      <3>1. /\ client \in [Task -> {"new", "push", "sent", "filtered"}] /\ client[t] = "new"
            /\ client' = [client EXCEPT ![t] = "push"] \/ client' = [client EXCEPT ![t] = "filtered"]
        BY <2>1 DEF ClientDedup, RedisInv, RedisType, TypeOK
      <3> QED
        BY <3>1 DEF Sent
    <2>4. Queued' = Queued /\ Scheduled' = Scheduled /\ DeadLettered' = DeadLettered
      BY <2>2, Frame
    <2>5. InPlay' = InPlay
      BY <2>2, <2>4 DEF InPlay
    <2> QED
      BY <2>2, <2>3, <2>4, <2>5 DEF Settles, SettledStays
  <1>2. CASE \E t \in Task : ClientPush(t)
    <2>1. PICK t \in Task : ClientPush(t)
      BY <1>2
    <2>2. PICK m : m = [id |-> t, retries |-> 0] /\ Push(m)
      BY <2>1 DEF ClientPush
    <2>3. m \in Message /\ m.id = t
      BY <2>2 DEF Message
    <2>4. t \notin Sent
      BY <2>1 DEF ClientPush, Sent
    <2>5. t \notin Queued
      BY <2>4 DEF RedisInv, PlaceInv
    <2>6. UNCHANGED <<scheduled, dlq, jobs, done>> /\ client' = [client EXCEPT ![t] = "sent"]
      BY <2>1 DEF ClientPush
    <2>7. Sent \subseteq Sent'
      BY <2>6 DEF Sent, RedisInv, RedisType, TypeOK
    <2> QED
      BY <2>2, <2>3, <2>4, <2>5, <2>6, <2>7, PushSettles
  <1>3. CASE \/ \E k \in Keys : KeyExpires(k)
             \/ \E t \in Task : EtaPasses(t)
             \/ \E w \in Worker : DequeueTimeout(w)
    <2>1. UNCHANGED <<queue, scheduled, dlq, client, done, jobs>>
      BY <1>3 DEF KeyExpires, EtaPasses, DequeueTimeout, redisVars
    <2> QED
      BY <2>1, QuietSettles
  <1>4. CASE \E w \in Worker : Dequeue(w)
    BY <1>4, DequeueSettles
  <1>5. CASE \E w \in Worker : Crash(w)
    <2>1. UNCHANGED <<queue, scheduled, dlq, client, done>> /\ jobs' \subseteq jobs
      BY <1>5 DEF Crash, redisVars
    <2> QED
      BY <2>1, QuietSettles
  <1>6. CASE PollScheduled
    BY <1>6, PollSettles
  <1>7. ASSUME NEW j \in jobs, Execute(j)
        PROVE  Settles
    <2>1. /\ j \in Job /\ j.m \in Message /\ j.m.id = j.item.id /\ j.m.id \in InPlay
          /\ j.m.id \notin Queued
      BY DEF RedisInv, RedisType, TypeOK, Job, JobInv, InPlay, PlaceInv, ExclusiveExecution
    <2>2. CASE Bury(j)
      BY <2>2, BurySettles
    <2>3. CASE RequeuePush(j)
      <3>1. Push(j.m) /\ UNCHANGED <<scheduled, dlq, done, client>> /\ jobs' \subseteq jobs
        BY <2>3 DEF RequeuePush, Ends
      <3>2. Sent' = Sent
        BY <3>1, Frame
      <3> QED
        BY <2>1, <3>1, <3>2, PushSettles
    <2>4. CASE Schedule(j)
      <3>1. scheduled' = scheduled \cup {j.m} /\ UNCHANGED <<queue, dlq, client, done>> /\ jobs' \subseteq jobs
        BY <2>4 DEF Schedule, Ends
      <3>2. Queued' = Queued /\ DeadLettered' = DeadLettered /\ Sent' = Sent
        BY <3>1, Frame
      <3>3. Scheduled' = Scheduled \cup {j.m.id}
        BY <3>1 DEF Scheduled
      <3>4. \A t \in InPlay' : t \in InPlay
        BY <2>1, <3>1, <3>2, <3>3 DEF InPlay
      <3> QED
        BY <3>1, <3>2, <3>4 DEF Settles, SettledStays
    <2>5. CASE Succeed(j)
      <3>1. UNCHANGED <<queue, scheduled, dlq, client>> /\ done' = done \cup {j.item.id}
        BY <2>5 DEF Succeed, redisVars
      <3>2. \A l \in jobs' : l \in jobs \/ l = [j EXCEPT !.plan = "success", !.pc = "find"]
        BY <2>5 DEF Succeed, Becomes
      <3>3. \A l \in jobs' : \E i \in jobs : l.m.id = i.m.id
        BY <2>1, <3>2 DEF Job
      <3> QED
        BY <2>1, <3>1, <3>3, QuietSettles
    <2>6. CASE Fail(j)
      <3>1. UNCHANGED <<queue, scheduled, dlq, client, done>>
        BY <2>6 DEF Fail, redisVars
      <3>2. \A l \in jobs' : \/ l \in jobs
                             \/ l = [j EXCEPT !.plan = "retry", !.pc = "find", !.m.retries = @ + 1]
                             \/ l = [j EXCEPT !.plan = "bury", !.pc = "find"]
        BY <2>6 DEF Fail, Becomes
      <3>3. /\ [j EXCEPT !.plan = "retry", !.pc = "find", !.m.retries = @ + 1].m.id = j.m.id
            /\ [j EXCEPT !.plan = "bury", !.pc = "find"].m.id = j.m.id
        BY <2>1 DEF Job, Message
      <3>4. \A l \in jobs' : \E i \in jobs : l.m.id = i.m.id
        BY <3>2, <3>3
      <3> QED
        BY <3>1, <3>4, QuietSettles
    <2>7. CASE NotDue(j) \/ Find(j) \/ RemoveFound(j) \/ AckFails(j) \/ RequeueDedup(j)
      <3>1. UNCHANGED <<queue, scheduled, dlq, client, done>>
        BY <2>7 DEF NotDue, Find, RemoveFound, AckFails, RequeueDedup, redisVars
      <3>2. \A l \in jobs' : \/ l \in jobs
                             \/ l \in {[j EXCEPT !.plan = "reschedule", !.pc = "find"], [j EXCEPT !.pc = "push"]}
                             \/ l \in {[j EXCEPT !.pc = "settle"], [j EXCEPT !.pc = "settle", !.found = None]}
                             \/ \E x : l = [j EXCEPT !.found = x, !.pc = "remove"]
        BY <2>7 DEF NotDue, Find, RemoveFound, AckFails, RequeueDedup, Becomes, Ends
      <3>3. \A l \in jobs' : \E i \in jobs : l.m.id = i.m.id
        BY <2>1, <3>2 DEF Job
      <3> QED
        BY <3>1, <3>3, QuietSettles
    <2>8. CASE Finish(j) \/ SettleFails(j)
      <3>1. UNCHANGED <<queue, scheduled, dlq, client, done>> /\ jobs' \subseteq jobs
        BY <2>8 DEF Finish, SettleFails, Ends, redisVars
      <3> QED
        BY <3>1, QuietSettles
    <2> QED
      BY <1>7, <2>2, <2>3, <2>4, <2>5, <2>6, <2>7, <2>8 DEF Execute
  <1>8. CASE UNCHANGED vars
    <2>1. UNCHANGED <<queue, scheduled, dlq, client, done, jobs>>
      BY <1>8 DEF vars, redisVars
    <2> QED
      BY <2>1, QuietSettles
  <1> QED
    BY <1>1, <1>2, <1>3, <1>4, <1>5, <1>6, <1>7, <1>8 DEF Next

\* Whatever the workers, the crashes and the commands that fail: a message that
\* dead_letter has buried, or whose handler has succeeded, is never queued,
\* scheduled or executed again, no message is both, and neither is taken back.
THEOREM RedisSettles ==
  Spec => []SettledIsFinal /\ [][SettledStays]_vars
  <1>1. Init => FinalInv
    <2> SUFFICES ASSUME Init PROVE FinalInv
      OBVIOUS
    <2>1. DeadLettered = {}
      BY DEF Init, DeadLettered, Ids
    <2> QED
      BY <2>1, InitInv DEF FinalInv
  <1>2. FinalInv /\ [Next]_vars => FinalInv' /\ [SettledStays]_vars
    <2> SUFFICES ASSUME FinalInv, [Next]_vars PROVE FinalInv' /\ SettledStays
      OBVIOUS
    <2>1. Settles
      BY StepSettles DEF FinalInv
    <2>2. RedisInv'
      BY StepInv DEF FinalInv
    <2>3. SettledStays /\ DeadLettered' \subseteq Sent'
      BY <2>1 DEF Settles, FinalInv
    <2>4. DeadLettered' \cap (InPlay' \cup done') = {}
      BY <2>1 DEF Settles, FinalInv
    <2> QED
      BY <2>2, <2>3, <2>4 DEF FinalInv
  <1>3. FinalInv => SettledIsFinal
    BY DEF FinalInv, SettledIsFinal, RedisInv, PlaceInv, JobInv
  <1> QED
    BY <1>1, <1>2, <1>3, PTL DEF Spec
=============================================================================
