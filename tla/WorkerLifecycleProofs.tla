------------------------ MODULE WorkerLifecycleProofs ------------------------
(***************************************************************************)
(* Proofs of what a message goes through: it is run at most                *)
(* max_retries + 1 times and dead-lettered only when its retries are used  *)
(* up, a continuation follows what it depends on and carries its results,  *)
(* and Worker implements TaskLifecycle.                                    *)
(***************************************************************************)
EXTENDS WorkerProofs, WorkerLifecycle

-----------------------------------------------------------------------------
(* Retry budget *)

QueuedMessages == UNION {{queues[q][i] : i \in DOMAIN queues[q]} : q \in Queue}

DlqMessages == UNION {{dlq[q][i] : i \in DOMAIN dlq[q]} : q \in Queue}

\* A message that waits for its next run has had no more runs than retries.
HasBudget(m) == runs[m.id] <= m.retries /\ m.retries <= MaxRetries[m.id]

BeforeRun == {"start", "resched", "dispatch", "backoff", "requeue"}

RunsInv ==
    \A t \in Task : runs[t] <= MaxRetries[t] + 1 /\ (t \notin sent => runs[t] = 0)

WaitingInv ==
    /\ \A m \in QueuedMessages : HasBudget(m)
    /\ loop = "track" => HasBudget(hand)

ExecInv ==
    \A p \in Permit :
        /\ pc[p] \in BeforeRun => HasBudget(msg[p])
        /\ pc[p] = "fail" =>
              /\ runs[Id(p)] <= msg[p].retries + 1
              /\ msg[p].retries <= MaxRetries[Id(p)]
        /\ pc[p] \in {"bury", "dlq_push"} => msg[p].retries = MaxRetries[Id(p)]

DlqInv == \A m \in DlqMessages : m.retries = MaxRetries[m.id]

RetryInv == CopyInv /\ RunsInv /\ WaitingInv /\ ExecInv /\ DlqInv

\* The messages in the queues are messages, with their ids.
LEMMA QueuedMessagesType ==
  ASSUME TypeOK
  PROVE  \A m \in QueuedMessages : m \in Message /\ m.id \in Queued
  BY DEF TypeOK, QueuedMessages, Queued, Ids

\* Appending to one of the sequences of a function adds one element.
LEMMA AppendElements ==
  ASSUME NEW f \in [Queue -> Seq(Message)], NEW k \in Queue, NEW m \in Message,
         NEW h, h = [f EXCEPT ![k] = Append(@, m)],
         NEW x \in UNION {{h[q][i] : i \in DOMAIN h[q]} : q \in Queue}
  PROVE  x = m \/ x \in UNION {{f[q][i] : i \in DOMAIN f[q]} : q \in Queue}
  <1>1. PICK q \in Queue : \E i \in DOMAIN h[q] : x = h[q][i]
    OBVIOUS
  <1>2. PICK i \in DOMAIN h[q] : x = h[q][i]
    BY <1>1
  <1>3. CASE q # k
    <2>1. h[q] = f[q]
      BY <1>3
    <2> QED
      BY <1>2, <2>1
  <1>4. CASE q = k
    <2>1. h[q] = Append(f[q], m) /\ f[q] \in Seq(Message)
      BY <1>4
    <2>2. i \in 1..(Len(f[q]) + 1) /\ Len(f[q]) \in Nat /\ DOMAIN f[q] = 1..Len(f[q])
      BY <2>1
    <2>3. CASE i = Len(f[q]) + 1
      BY <1>2, <2>1, <2>2, <2>3
    <2>4. CASE i \in 1..Len(f[q])
      <3>1. x = f[q][i]
        BY <1>2, <2>1, <2>2, <2>4
      <3> QED
        BY <2>2, <2>4, <3>1
    <2> QED
      BY <2>2, <2>3, <2>4
  <1> QED
    BY <1>3, <1>4

\* enqueue adds only the message it was given.
LEMMA EnqueueMessages ==
  ASSUME TypeOK, NEW m \in Message, Enqueue(m), NEW x \in QueuedMessages'
  PROVE  x = m \/ x \in QueuedMessages
  <1>1. QueueOf[m.id] \in Queue /\ queues \in [Queue -> Seq(Message)]
    BY ConfigAssumption DEF Message, TypeOK
  <1>2. queues' = [queues EXCEPT ![QueueOf[m.id]] = Append(@, m)]
    BY DEF Enqueue
  <1>3. x \in UNION {{queues'[q][i] : i \in DOMAIN queues'[q]} : q \in Queue}
    BY DEF QueuedMessages
  <1>4. x = m \/ x \in UNION {{queues[q][i] : i \in DOMAIN queues[q]} : q \in Queue}
    BY <1>1, <1>2, <1>3, AppendElements
  <1> QED
    BY <1>4 DEF QueuedMessages

\* dequeue returns a message that was queued, and adds none.
LEMMA PopMessages ==
  ASSUME TypeOK, Pop
  PROVE  hand' \in QueuedMessages /\ QueuedMessages' \subseteq QueuedMessages
  <1>1. PICK n \in DOMAIN Order :
           /\ queues[Order[n]] # <<>>
           /\ hand' = Head(queues[Order[n]])
           /\ queues' = [queues EXCEPT ![Order[n]] = Tail(@)]
    BY DEF Pop
  <1>2. PICK s : s = queues[Order[n]]
    OBVIOUS
  <1>3. Order[n] \in Queue /\ queues \in [Queue -> Seq(Message)]
    BY ConfigAssumption DEF TypeOK
  <1>4. s \in Seq(Message) /\ s # <<>> /\ hand' = Head(s)
    BY <1>1, <1>2, <1>3
  <1>5. /\ 1 \in DOMAIN s /\ hand' = s[1]
        /\ \A i \in DOMAIN Tail(s) : i + 1 \in DOMAIN s /\ Tail(s)[i] = s[i + 1]
    BY <1>4
  <1>6. hand' \in QueuedMessages
    BY <1>2, <1>3, <1>5 DEF QueuedMessages
  <1>7. ASSUME NEW x \in QueuedMessages'
        PROVE  x \in QueuedMessages
    <2>1. PICK q \in Queue : \E i \in DOMAIN queues'[q] : x = queues'[q][i]
      BY DEF QueuedMessages
    <2>2. PICK i \in DOMAIN queues'[q] : x = queues'[q][i]
      BY <2>1
    <2>3. CASE q = Order[n]
      <3>1. queues'[q] = Tail(s)
        BY <1>1, <1>2, <1>3, <2>3
      <3>2. i + 1 \in DOMAIN s /\ x = s[i + 1]
        BY <1>5, <2>2, <3>1
      <3> QED
        BY <1>2, <1>3, <3>2 DEF QueuedMessages
    <2>4. CASE q # Order[n]
      <3>1. queues'[q] = queues[q]
        BY <1>1, <1>3, <2>4
      <3> QED
        BY <2>2, <3>1 DEF QueuedMessages
    <2> QED
      BY <2>3, <2>4
  <1> QED
    BY <1>6, <1>7

\* What a step of one execution spends: at most one run of its own message,
\* and it hands on only messages with a run left.
LEMMA ExecuteBudget ==
  ASSUME RetryInv, NEW p \in Permit, ExecuteTask(p)
  PROVE  /\ \A t \in Task \ {Id(p)} : runs'[t] = runs[t]
         /\ runs'[Id(p)] <= MaxRetries[Id(p)] + 1
         /\ pc'[p] \in BeforeRun => HasBudget(msg[p])'
         /\ pc'[p] = "fail" =>
               /\ Id(p)' = Id(p) /\ runs'[Id(p)] <= msg'[p].retries + 1
               /\ msg'[p].retries <= MaxRetries[Id(p)]
         /\ pc'[p] \in {"bury", "dlq_push"} =>
               Id(p)' = Id(p) /\ msg'[p].retries = MaxRetries[Id(p)]
         /\ \A x \in QueuedMessages' : x \in QueuedMessages \/ HasBudget(x)'
         /\ \A x \in DlqMessages' : x \in DlqMessages \/ x.retries = MaxRetries[x.id]
  <1>1. CopyInv /\ TypeInv /\ TypeOK /\ RunsInv /\ ExecInv
    BY DEF RetryInv, CopyInv, DrainInv, TypeInv
  <1>2. /\ pc[p] # "idle" /\ msg[p] \in Message /\ Id(p) \in Task /\ Id(p) = msg[p].id
        /\ msg[p].retries \in Nat
    BY <1>1, ExecuteFrame DEF TypeOK, Message, Id
  <1>3. /\ pc \in [Permit -> ExecStates] /\ msg \in [Permit -> Message \cup {None}]
        /\ runs \in [Task -> Nat] /\ MaxRetries[Id(p)] \in Nat
    BY <1>1, <1>2, ConfigAssumption DEF TypeOK
  <1>4. runs[Id(p)] <= MaxRetries[Id(p)] + 1
    BY <1>1, <1>2 DEF RunsInv
  <1>5. /\ pc[p] \in BeforeRun => HasBudget(msg[p])
        /\ pc[p] = "fail" => /\ runs[Id(p)] <= msg[p].retries + 1
                             /\ msg[p].retries <= MaxRetries[Id(p)]
        /\ pc[p] \in {"bury", "dlq_push"} => msg[p].retries = MaxRetries[Id(p)]
    BY <1>1 DEF ExecInv
  <1>6. queues' = queues => QueuedMessages' = QueuedMessages
    BY DEF QueuedMessages
  <1>7. dlq' = dlq => DlqMessages' = DlqMessages
    BY DEF DlqMessages
  <1>8. ASSUME NEW m \in Message, Enqueue(m), HasBudget(m), runs' = runs
        PROVE  \A x \in QueuedMessages' : x \in QueuedMessages \/ HasBudget(x)'
    BY <1>1, <1>8, EnqueueMessages DEF HasBudget
  <1> USE DEF BeforeRun, Goto, Return, brokerVars, histVars
  <1>9. CASE EtaGuard(p)
    BY <1>2, <1>3, <1>4, <1>5, <1>6, <1>7, <1>9 DEF EtaGuard, HasBudget
  <1>10. CASE Reschedule(p)
    <2>1. pc'[p] = "idle" /\ runs' = runs /\ dlq' = dlq /\ HasBudget(msg[p])
      BY <1>3, <1>5, <1>10 DEF Reschedule
    <2>2. \A x \in QueuedMessages' : x \in QueuedMessages \/ HasBudget(x)'
      BY <1>2, <1>6, <1>8, <1>10, <2>1 DEF Reschedule
    <2> QED
      BY <1>4, <1>7, <2>1, <2>2
  <1>11. CASE Before(p)
    BY <1>2, <1>3, <1>4, <1>5, <1>6, <1>7, <1>11 DEF Before, HasBudget, Id
  <1>12. CASE DispatchOk(p) \/ DispatchErr(p) \/ DispatchPanic(p)
    <2>1. /\ pc[p] = "dispatch" /\ runs' = [runs EXCEPT ![Id(p)] = @ + 1]
          /\ queues' = queues /\ dlq' = dlq
          /\ pc'[p] \in {"ack", "fail", "idle"}
          /\ pc'[p] = "fail" => msg' = msg
      BY <1>3, <1>12 DEF DispatchOk, DispatchErr, DispatchPanic
    <2>2. runs[Id(p)] <= msg[p].retries /\ msg[p].retries <= MaxRetries[Id(p)]
      BY <1>2, <1>5, <2>1 DEF HasBudget
    <2>3. /\ runs'[Id(p)] = runs[Id(p)] + 1 /\ runs[Id(p)] \in Nat
          /\ \A t \in Task \ {Id(p)} : runs'[t] = runs[t]
      BY <1>2, <1>3, <2>1
    <2>4. runs'[Id(p)] <= msg[p].retries + 1 /\ runs'[Id(p)] <= MaxRetries[Id(p)] + 1
      BY <1>2, <1>3, <2>2, <2>3
    <2>5. pc'[p] = "fail" => msg'[p] = msg[p] /\ Id(p)' = Id(p)
      BY <2>1 DEF Id
    <2> QED
      BY <1>6, <1>7, <2>1, <2>2, <2>3, <2>4, <2>5
  <1>13. CASE Ack(p) \/ Store(p) \/ CompleteGroupMember(p) \/ GetGroupResults(p)
    <2>1. pc'[p] \in {"idle", "store", "group", "gather", "callback", "chain"}
      <3>1. CASE Ack(p)
        BY <1>3, <3>1 DEF Ack, Proceed
      <3>2. CASE Store(p)
        BY <1>3, <3>2, ProceedGroup DEF Store
      <3>3. CASE CompleteGroupMember(p)
        <4>1. Goto(p, "gather") \/ Return(p) \/ Goto(p, "chain")
          BY <3>3, ProceedChain DEF CompleteGroupMember
        <4> QED
          BY <1>3, <4>1
      <3>4. CASE GetGroupResults(p)
        BY <1>3, <3>4 DEF GetGroupResults
      <3> QED
        BY <1>13, <3>1, <3>2, <3>3, <3>4
    <2>2. UNCHANGED <<queues, dlq, runs>>
      BY <1>13 DEF Ack, Store, CompleteGroupMember, GetGroupResults
    <2> QED
      BY <1>4, <1>6, <1>7, <2>1, <2>2
  <1>14. CASE EnqueueCallback(p) \/ EnqueueChainNext(p)
    <2>1. pc'[p] \in {"idle", "chain"} /\ UNCHANGED <<dlq, runs>>
      BY <1>3, <1>14, ProceedChain DEF EnqueueCallback, EnqueueChainNext
    <2>2. ASSUME NEW c \in Task, NEW input \in Seq(Task), Enqueue(NewMessage(c, input)),
                 c \notin sent
          PROVE  \A x \in QueuedMessages' : x \in QueuedMessages \/ HasBudget(x)'
      <3>1. /\ NewMessage(c, input) \in Message /\ NewMessage(c, input).id = c
            /\ NewMessage(c, input).retries = 0
        BY NewMessageType
      <3>2. runs[c] = 0 /\ MaxRetries[c] \in Nat
        BY <1>1, <2>2, ConfigAssumption DEF RunsInv
      <3>3. HasBudget(NewMessage(c, input))
        BY <3>1, <3>2 DEF HasBudget
      <3> QED
        BY <1>8, <2>1, <2>2, <3>1, <3>3
    <2>3. QueuedMessages' = QueuedMessages \/ \E c \in Task, input \in Seq(Task) :
             Enqueue(NewMessage(c, input)) /\ c \notin sent
      <3>1. CASE queues' = queues
        BY <1>6, <3>1
      <3>2. CASE queues' # queues
        <4>1. CASE EnqueueCallback(p)
          <5> DEFINE c == ChordCallback[GroupOf[Id(p)]]
          <5>1. GroupOf[Id(p)] \in Group /\ c \in Task /\ gathered[p] \in Seq(Task)
            BY <1>1, <1>2, <4>1, WorkflowAssumption
               DEF EnqueueCallback, TypeInv, TypeOK, WorkflowTyped
          <5>2. Enqueue(NewMessage(c, gathered[p]))
            BY <3>2, <4>1 DEF EnqueueCallback, Continue
          <5>3. c \notin sent
            BY <1>1, <4>1, <5>1 DEF EnqueueCallback, CopyInv, CallbackFresh, Firing
          <5> QED
            BY <5>1, <5>2, <5>3
        <4>2. CASE EnqueueChainNext(p)
          <5>1. ChainNext[Id(p)] \in Task /\ <<Id(p)>> \in Seq(Task)
            BY <1>1, <1>2, <4>2, WorkflowAssumption DEF EnqueueChainNext, TypeInv, WorkflowTyped
          <5>2. Enqueue(NewMessage(ChainNext[Id(p)], <<Id(p)>>))
            BY <3>2, <4>2 DEF EnqueueChainNext, Continue
          <5>3. ChainNext[Id(p)] \notin sent
            BY <1>1, <1>2 DEF CopyInv, ChainFresh
          <5> QED
            BY <5>1, <5>2, <5>3
        <4> QED
          BY <1>14, <4>1, <4>2
      <3> QED
        BY <3>1, <3>2
    <2> QED
      BY <1>4, <1>7, <2>1, <2>2, <2>3
  <1>15. CASE HandleFailure(p)
    <2>1. UNCHANGED <<queues, dlq, runs>>
      BY <1>15 DEF HandleFailure
    <2>2. CASE MayRetry(msg[p])
      <3>1. /\ pc'[p] = "backoff" /\ msg'[p] = Retried(msg[p])
            /\ msg'[p].id = Id(p) /\ msg'[p].retries = msg[p].retries + 1
        BY <1>2, <1>3, <1>15, <2>2, RetriedType DEF HandleFailure
      <3>2. runs[Id(p)] <= msg[p].retries + 1 /\ msg[p].retries < MaxRetries[Id(p)]
        BY <1>2, <1>5, <1>15, <2>2 DEF HandleFailure, MayRetry
      <3>3. HasBudget(msg[p])'
        BY <1>2, <1>3, <2>1, <3>1, <3>2 DEF HasBudget
      <3> QED
        BY <1>4, <1>6, <1>7, <2>1, <3>1, <3>3
    <2>3. CASE ~MayRetry(msg[p])
      <3>1. pc'[p] = "bury" /\ msg' = msg /\ Id(p)' = Id(p)
        BY <1>3, <1>15, <2>3 DEF HandleFailure, Id
      <3>2. msg[p].retries = MaxRetries[Id(p)]
        BY <1>2, <1>3, <1>5, <1>15, <2>3 DEF HandleFailure, MayRetry
      <3> QED
        BY <1>4, <1>6, <1>7, <2>1, <3>1, <3>2
    <2> QED
      BY <2>2, <2>3
  <1>16. CASE Nack(p)
    BY <1>2, <1>3, <1>4, <1>5, <1>6, <1>7, <1>16 DEF Nack, HasBudget, Id
  <1>17. CASE Requeue(p)
    <2>1. pc'[p] = "idle" /\ runs' = runs /\ dlq' = dlq /\ HasBudget(msg[p])
      BY <1>3, <1>5, <1>17 DEF Requeue
    <2>2. \A x \in QueuedMessages' : x \in QueuedMessages \/ HasBudget(x)'
      BY <1>2, <1>8, <1>17, <2>1 DEF Requeue
    <2> QED
      BY <1>4, <1>7, <2>1, <2>2
  <1>18. CASE DeadLetter(p)
    BY <1>2, <1>3, <1>4, <1>5, <1>6, <1>7, <1>18 DEF DeadLetter, Id
  <1>19. CASE DlqPush(p)
    <2>1. pc'[p] = "idle" /\ runs' = runs /\ queues' = queues
      BY <1>3, <1>19 DEF DlqPush
    <2>2. dlq' = [dlq EXCEPT ![QueueOf[Id(p)]] = Append(@, msg[p])]
      BY <1>19 DEF DlqPush
    <2>3. QueueOf[Id(p)] \in Queue /\ dlq \in [Queue -> Seq(Message)]
      BY <1>1, <1>2, ConfigAssumption DEF TypeOK
    <2>4. ASSUME NEW x \in DlqMessages'
          PROVE  x \in DlqMessages \/ x = msg[p]
      <3>1. x \in UNION {{dlq'[q][i] : i \in DOMAIN dlq'[q]} : q \in Queue}
        BY DEF DlqMessages
      <3>2. x = msg[p] \/ x \in UNION {{dlq[q][i] : i \in DOMAIN dlq[q]} : q \in Queue}
        BY <1>2, <2>2, <2>3, <3>1, AppendElements
      <3> QED
        BY <3>2 DEF DlqMessages
    <2>5. msg[p].retries = MaxRetries[msg[p].id]
      BY <1>2, <1>5, <1>19 DEF DlqPush
    <2> QED
      BY <1>4, <1>6, <2>1, <2>4, <2>5
  <1> QED
    BY <1>9, <1>10, <1>11, <1>12, <1>13, <1>14, <1>15, <1>16, <1>17, <1>18, <1>19
       DEF ExecuteTask

\* The worker forgets no message it has enqueued.
LEMMA ExecuteSent ==
  ASSUME NEW p \in Permit, ExecuteTask(p)
  PROVE  sent \subseteq sent'
  BY DEF ExecuteTask, EtaGuard, Reschedule, Before, DispatchOk, DispatchErr, DispatchPanic,
     Ack, Store, CompleteGroupMember, GetGroupResults, EnqueueCallback, EnqueueChainNext,
     Continue, HandleFailure, Nack, Requeue, DeadLetter, DlqPush, histVars

\* Another message's budget is not touched by an execution.
LEMMA BudgetFrame ==
  ASSUME NEW m \in Message, runs'[m.id] = runs[m.id], HasBudget(m)
  PROVE  HasBudget(m)'
  BY DEF HasBudget

\* A step of an execution keeps every message within its budget.
LEMMA ExecuteRetry ==
  ASSUME RetryInv, NEW p \in Permit, ExecuteTask(p)
  PROVE  RunsInv' /\ WaitingInv' /\ ExecInv' /\ DlqInv'
  <1>1. /\ TypeInv /\ TypeOK /\ RunsInv /\ WaitingInv /\ ExecInv /\ DlqInv
        /\ QueuedPlace /\ FlyingPlace /\ HandPlace
    BY DEF RetryInv, CopyInv, DrainInv, TypeInv, PlaceInv
  <1>2. /\ pc[p] # "idle" /\ loop' = loop /\ hand' = hand
        /\ \A r \in Permit \ {p} : pc'[r] = pc[r] /\ msg'[r] = msg[r]
    BY <1>1, ExecuteFrame
  <1>3. Id(p) \in sent \ Queued /\ Id(p) \in Task
    BY <1>1, <1>2 DEF FlyingPlace, TypeOK, Id, Message
  <1>4. \A t \in Task \ {Id(p)} : runs'[t] = runs[t]
    BY ExecuteBudget
  <1>5. RunsInv'
    <2>1. runs'[Id(p)] <= MaxRetries[Id(p)] + 1
      BY ExecuteBudget
    <2> QED
      BY <1>1, <1>3, <1>4, <2>1, ExecuteSent DEF RunsInv
  <1>6. WaitingInv'
    <2>1. ASSUME NEW x \in QueuedMessages' PROVE HasBudget(x)'
      <3>1. CASE x \in QueuedMessages
        <4>1. x \in Message /\ x.id \in Queued /\ HasBudget(x)
          BY <1>1, <3>1, QueuedMessagesType DEF WaitingInv
        <4>2. x.id \in Task \ {Id(p)}
          BY <1>3, <4>1 DEF Message
        <4> QED
          BY <1>4, <4>1, <4>2, BudgetFrame
      <3> QED
        BY <3>1, ExecuteBudget
    <2>2. ASSUME loop' = "track" PROVE HasBudget(hand)'
      <3>1. loop = "track" /\ hand \in Message /\ HasBudget(hand)
        BY <1>1, <1>2, <2>2 DEF TypeOK, WaitingInv
      <3>2. hand.id \in Task \ {Id(p)}
        BY <1>1, <1>2, <3>1 DEF HandPlace, Message
      <3> QED
        BY <1>2, <1>4, <3>1, <3>2 DEF HasBudget
    <2> QED
      BY <2>1, <2>2 DEF WaitingInv
  <1>7. ExecInv'
    <2>1. ASSUME NEW r \in Permit
          PROVE  /\ pc'[r] \in BeforeRun => HasBudget(msg[r])'
                 /\ pc'[r] = "fail" =>
                       /\ runs'[Id(r)'] <= msg'[r].retries + 1
                       /\ msg'[r].retries <= MaxRetries[Id(r)']
                 /\ pc'[r] \in {"bury", "dlq_push"} => msg'[r].retries = MaxRetries[Id(r)']
      <3>1. CASE r = p
        <4>1. pc'[p] \in BeforeRun => HasBudget(msg[p])'
          BY ExecuteBudget
        <4>2. pc'[p] = "fail" =>
                 /\ Id(p)' = Id(p) /\ runs'[Id(p)] <= msg'[p].retries + 1
                 /\ msg'[p].retries <= MaxRetries[Id(p)]
          BY ExecuteBudget
        <4>3. pc'[p] \in {"bury", "dlq_push"} =>
                 Id(p)' = Id(p) /\ msg'[p].retries = MaxRetries[Id(p)]
          BY ExecuteBudget
        <4> QED
          BY <3>1, <4>1, <4>2, <4>3
      <3>2. CASE r # p
        <4>1. pc'[r] = pc[r] /\ msg'[r] = msg[r] /\ Id(r)' = Id(r)
          BY <1>2, <3>2 DEF Id
        <4>2. CASE pc[r] = "idle"
          BY <4>1, <4>2 DEF BeforeRun
        <4>3. CASE pc[r] # "idle"
          <5>1. Id(r) \in Task \ {Id(p)} /\ Id(r) = msg[r].id
            BY <1>1, <1>2, <3>2, <4>3 DEF FlyingPlace, TypeOK, Id, Message
          <5>2. runs'[Id(r)] = runs[Id(r)]
            BY <1>4, <5>1
          <5>3. /\ pc[r] \in BeforeRun => HasBudget(msg[r])
                /\ pc[r] = "fail" => /\ runs[Id(r)] <= msg[r].retries + 1
                                     /\ msg[r].retries <= MaxRetries[Id(r)]
                /\ pc[r] \in {"bury", "dlq_push"} => msg[r].retries = MaxRetries[Id(r)]
            BY <1>1 DEF ExecInv
          <5>4. pc[r] \in BeforeRun => HasBudget(msg[r])'
            BY <4>1, <5>1, <5>2, <5>3 DEF HasBudget
          <5> QED
            BY <4>1, <5>2, <5>3, <5>4
        <4> QED
          BY <4>2, <4>3
      <3> QED
        BY <3>1, <3>2
    <2> QED
      BY <2>1 DEF ExecInv
  <1>8. DlqInv'
    BY <1>1, ExecuteBudget DEF DlqInv
  <1> QED
    BY <1>5, <1>6, <1>7, <1>8

\* The loop hands a message on as it found it.
LEMMA RunRetry ==
  ASSUME RetryInv, Run
  PROVE  RunsInv' /\ WaitingInv' /\ ExecInv' /\ DlqInv'
  <1>1. TypeOK /\ PermitOwner /\ RunsInv /\ WaitingInv /\ ExecInv /\ DlqInv
    BY DEF RetryInv, CopyInv, DrainInv, TypeInv
  <1> USE DEF brokerVars, loopVars, execVars, backendVars, envVars, histVars
  <1>2. runs' = runs /\ dlq' = dlq /\ sent' = sent
    BY DEF Run, CheckCancel, Acquire, Pop, TrackAndSpawn, FindNothing, Notified,
       DequeueTimeout, DequeueError, EndBackoff, CancelAcquire, CancelDequeue, Drained,
       DrainTimeout
  <1>3. RunsInv'
    BY <1>1, <1>2 DEF RunsInv
  <1>4. DlqInv'
    BY <1>1, <1>2 DEF DlqInv, DlqMessages
  <1>5. queues' = queues => QueuedMessages' = QueuedMessages
    BY DEF QueuedMessages
  <1>6. pc' = pc /\ msg' = msg => ExecInv'
    BY <1>1, <1>2 DEF ExecInv, HasBudget, Id
  <1>7. CASE UNCHANGED <<queues, execVars>> /\ loop' # "track"
    <2>1. WaitingInv'
      BY <1>1, <1>2, <1>5, <1>7 DEF WaitingInv, HasBudget
    <2> QED
      BY <1>3, <1>4, <1>6, <1>7, <2>1
  <1>8. CASE Pop
    <2>1. hand' \in QueuedMessages /\ QueuedMessages' \subseteq QueuedMessages
      BY <1>1, <1>8, PopMessages
    <2>2. WaitingInv'
      BY <1>1, <1>2, <2>1 DEF WaitingInv, HasBudget
    <2> QED
      BY <1>3, <1>4, <1>6, <1>8, <2>2 DEF Pop
  <1>9. CASE TrackAndSpawn
    <2>1. PICK k \in Permit : k = grant
      BY <1>1, <1>9 DEF TrackAndSpawn, TypeOK
    <2>2. /\ pc'[k] = "start" /\ msg'[k] = hand
          /\ \A r \in Permit \ {k} : pc'[r] = pc[r] /\ msg'[r] = msg[r]
      BY <1>1, <1>9, <2>1 DEF TrackAndSpawn, TypeOK
    <2>3. HasBudget(hand) /\ loop' = "check" /\ queues' = queues
      BY <1>1, <1>9 DEF TrackAndSpawn, WaitingInv
    <2>4. ExecInv'
      BY <1>1, <1>2, <2>2, <2>3 DEF ExecInv, HasBudget, Id, BeforeRun
    <2>5. WaitingInv'
      BY <1>1, <1>2, <1>5, <2>3 DEF WaitingInv, HasBudget
    <2> QED
      BY <1>3, <1>4, <2>4, <2>5
  <1>10. CASE \/ CheckCancel \/ Acquire \/ FindNothing \/ Notified \/ DequeueTimeout
              \/ DequeueError \/ EndBackoff \/ CancelAcquire \/ CancelDequeue \/ Drained
              \/ DrainTimeout
    BY <1>7, <1>10 DEF CheckCancel, Acquire, FindNothing, Notified, DequeueTimeout,
       DequeueError, EndBackoff, CancelAcquire, CancelDequeue, Drained, DrainTimeout, DropPermit
  <1> QED
    BY <1>8, <1>9, <1>10 DEF Run

\* A submitted message has not run yet.
LEMMA SubmitRetry ==
  ASSUME RetryInv, NEW t \in Task, Submit(t)
  PROVE  RunsInv' /\ WaitingInv' /\ ExecInv' /\ DlqInv'
  <1>1. TypeOK /\ RunsInv /\ WaitingInv /\ ExecInv /\ DlqInv
    BY DEF RetryInv, CopyInv, DrainInv, TypeInv
  <1>2. /\ UNCHANGED <<loop, hand, pc, msg, dlq, runs>>
        /\ sent' = sent \cup {t} /\ t \notin sent /\ Enqueue(NewMessage(t, <<>>))
    BY DEF Submit, loopVars, execVars
  <1>3. <<>> \in Seq(Task)
    OBVIOUS
  <1>4. /\ NewMessage(t, <<>>) \in Message /\ NewMessage(t, <<>>).id = t
        /\ NewMessage(t, <<>>).retries = 0
    BY <1>3, NewMessageType
  <1>5. runs[t] = 0 /\ MaxRetries[t] \in Nat
    BY <1>1, <1>2, ConfigAssumption DEF RunsInv
  <1>6. HasBudget(NewMessage(t, <<>>))
    BY <1>4, <1>5 DEF HasBudget
  <1>7. \A x \in QueuedMessages' : HasBudget(x)
    BY <1>1, <1>2, <1>4, <1>6, EnqueueMessages DEF WaitingInv
  <1>8. WaitingInv'
    BY <1>1, <1>2, <1>7 DEF WaitingInv, HasBudget
  <1>9. ExecInv' /\ DlqInv'
    BY <1>1, <1>2 DEF ExecInv, DlqInv, DlqMessages, HasBudget, Id
  <1>10. RunsInv'
    BY <1>1, <1>2 DEF RunsInv
  <1> QED
    BY <1>8, <1>9, <1>10

\* The next-state relation keeps every message within its budget.
LEMMA NextRetry ==
  ASSUME RetryInv, [Next]_vars
  PROVE  RetryInv'
  <1>1. CopyInv'
    BY NextCopy DEF RetryInv
  <1>2. CASE UNCHANGED <<queues, dlq, loopVars, execVars, sent, runs>>
    <2>1. QueuedMessages' = QueuedMessages /\ DlqMessages' = DlqMessages
      BY <1>2 DEF QueuedMessages, DlqMessages
    <2> QED
      BY <1>1, <1>2, <2>1 DEF RetryInv, RunsInv, WaitingInv, ExecInv, DlqInv, HasBudget, Id,
         loopVars, execVars
  <1>3. ASSUME NEW t \in Task, Submit(t) PROVE RetryInv'
    BY <1>1, <1>3, SubmitRetry DEF RetryInv
  <1>4. ASSUME NEW t \in Task, EtaPasses(t) PROVE RetryInv'
    BY <1>2, <1>4 DEF EtaPasses, brokerVars, histVars
  <1>5. CASE Cancel
    BY <1>2, <1>5 DEF Cancel, brokerVars, histVars
  <1>6. CASE Run
    BY <1>1, <1>6, RunRetry DEF RetryInv
  <1>7. ASSUME NEW p \in Permit, ExecuteTask(p) PROVE RetryInv'
    BY <1>1, <1>7, ExecuteRetry DEF RetryInv
  <1>8. CASE UNCHANGED vars
    BY <1>2, <1>8 DEF vars, brokerVars, histVars
  <1> QED
    BY <1>3, <1>4, <1>5, <1>6, <1>7, <1>8 DEF Next

\* Initially nothing has run.
LEMMA InitRetry == Init => RetryInv
  <1> SUFFICES ASSUME Init PROVE RetryInv
    OBVIOUS
  <1>1. QueuedMessages = {} /\ DlqMessages = {}
    BY DEF Init, QueuedMessages, DlqMessages
  <1>2. RunsInv
    BY ConfigAssumption DEF Init, RunsInv
  <1>3. ExecInv
    BY DEF Init, ExecInv, BeforeRun
  <1> QED
    BY <1>1, <1>2, <1>3, InitCopy DEF Init, RetryInv, WaitingInv, DlqInv

\* The handler of a message runs at most max_retries + 1 times over all its
\* deliveries, and a message is dead-lettered only with its retries used up.
THEOREM RetriesAreBounded == Spec => []RetryBudget
  <1>1. Init => RetryInv
    BY InitRetry
  <1>2. RetryInv /\ [Next]_vars => RetryInv'
    BY NextRetry
  <1>3. RetryInv => RetryBudget
    BY DEF RetryInv, RunsInv, DlqInv, DlqMessages, RetryBudget
  <1> QED
    BY <1>1, <1>2, <1>3, PTL DEF Spec

-----------------------------------------------------------------------------
(* What continuations carry *)

\* The tasks of a list of results; the list has every member of g once.
Elems(s) == {s[i] : i \in DOMAIN s}

Full(s, g) == Elems(s) = Members(g) /\ Len(s) = GroupTotal(g)

\* The handler returned Ok, and the result is in the backend if store() works.
Settled(t) == t \in done /\ ("store" \notin Faults => t \in results)

\* GroupState.results has one entry per completion, each of another member,
\* which has been settled and is past complete_group_member.
GroupList ==
    \A g \in Group :
        /\ Len(groupResults[g]) = completed[g]
        /\ \A i, k \in DOMAIN groupResults[g] : groupResults[g][i] = groupResults[g][k] => i = k
        /\ \A t \in Elems(groupResults[g]) :
              /\ t \in Members(g) /\ Settled(t)
              /\ \A p \in Permit : pc[p] # "idle" /\ Id(p) = t => pc[p] \in {"gather", "callback", "chain"}

\* Past store(), the message is settled.
StoredInv == \A p \in Permit : pc[p] \in {"group", "gather", "callback", "chain"} => Settled(Id(p))

\* What an execution has gathered for the callback is every result.
GatheredInv ==
    "get_group_results" \notin Faults =>
        \A p \in Permit : pc[p] = "callback" => Full(gathered[p], GroupOf[Id(p)])

\* What an enqueued continuation follows is settled.
FollowInv ==
    /\ \A t \in Task : ChainNext[t] \in sent => Settled(t)
    /\ \A g \in Group : ChordCallback[g] \in sent => \A t \in Members(g) : Settled(t)

\* Wherever it is, a callback carries every result of its group.
InputOK(m) == \A g \in Group : m.id = ChordCallback[g] => Full(m.input, g)

InputInv ==
    "get_group_results" \notin Faults =>
        /\ \A m \in QueuedMessages : InputOK(m)
        /\ loop = "track" => InputOK(hand)
        /\ \A p \in Permit : pc[p] # "idle" => InputOK(msg[p])

ResultInv == RetryInv /\ GroupList /\ StoredInv /\ GatheredInv /\ FollowInv /\ InputInv

\* The steps of an execution that has called store(), and those that follow
\* complete_group_member.
AfterStore == {"group", "gather", "callback", "chain"}
AfterGroup == {"gather", "callback", "chain"}

\* What a step of one execution does to results and groups.
LEMMA ExecuteLists ==
  ASSUME TypeInv, NEW p \in Permit, ExecuteTask(p)
  PROVE  /\ results \subseteq results'
         /\ pc'[p] \in AfterStore =>
               \/ pc[p] \in AfterStore
               \/ pc[p] = "store" /\ ("store" \notin Faults => Id(p) \in results')
         /\ pc[p] \in AfterGroup => pc'[p] \in AfterGroup \cup {"idle"}
         /\ \/ UNCHANGED <<completed, groupResults>>
            \/ /\ pc[p] = "group" /\ GroupOf[Id(p)] \in Group
               /\ completed' = [completed EXCEPT ![GroupOf[Id(p)]] = @ + 1]
               /\ groupResults' = [groupResults EXCEPT ![GroupOf[Id(p)]] = Append(@, Id(p))]
               /\ pc'[p] \in {"gather", "chain", "idle"}
         /\ pc'[p] = "callback" =>
               /\ pc[p] = "gather"
               /\ "get_group_results" \notin Faults => gathered'[p] = groupResults[GroupOf[Id(p)]]
         /\ \A r \in Permit \ {p} : gathered'[r] = gathered[r]
  <1>1. pc[p] # "idle" /\ msg[p] \in Message /\ Id(p) \in Task
    BY ExecuteFrame DEF TypeInv, TypeOK, Id, Message
  <1>2. pc \in [Permit -> ExecStates] /\ gathered \in [Permit -> Seq(Task)]
    BY DEF TypeInv, TypeOK
  <1> USE DEF Goto, Return, backendVars, AfterStore, AfterGroup
  <1>3. CASE Ack(p)
    BY <1>2, <1>3 DEF Ack, Proceed
  <1>4. CASE Store(p)
    <2>1. pc[p] = "store" /\ pc'[p] \in {"group", "chain", "idle"}
      BY <1>2, <1>4, ProceedGroup DEF Store
    <2> QED
      BY <1>4, <2>1 DEF Store, Fails
  <1>5. CASE CompleteGroupMember(p)
    <2> DEFINE g == GroupOf[Id(p)]
    <2>1. g \in Group /\ pc[p] = "group" /\ UNCHANGED <<results, gathered>>
      BY <1>1, <1>5, WorkflowAssumption DEF CompleteGroupMember, TypeInv, WorkflowTyped
    <2>2. pc'[p] \in {"gather", "chain", "idle"}
      <3>1. Goto(p, "gather") \/ Return(p) \/ Goto(p, "chain")
        BY <1>5, ProceedChain DEF CompleteGroupMember
      <3> QED
        BY <1>2, <3>1
    <2>3. \/ UNCHANGED <<completed, groupResults>>
          \/ /\ completed' = [completed EXCEPT ![g] = @ + 1]
             /\ groupResults' = [groupResults EXCEPT ![g] = Append(@, Id(p))]
      BY <1>5 DEF CompleteGroupMember
    <2> QED
      BY <2>1, <2>2, <2>3
  <1>6. CASE GetGroupResults(p)
    BY <1>2, <1>6 DEF GetGroupResults, Fails
  <1>7. CASE EnqueueCallback(p)
    <2>1. pc'[p] \in {"chain", "idle"}
      BY <1>2, <1>7, ProceedChain DEF EnqueueCallback
    <2> QED
      BY <1>2, <1>7, <2>1 DEF EnqueueCallback
  <1>8. CASE \/ EtaGuard(p) \/ Reschedule(p) \/ Before(p) \/ DispatchOk(p) \/ DispatchErr(p)
             \/ DispatchPanic(p) \/ EnqueueChainNext(p) \/ HandleFailure(p) \/ Nack(p)
             \/ Requeue(p) \/ DeadLetter(p) \/ DlqPush(p)
    BY <1>2, <1>8 DEF EtaGuard, Reschedule, Before, DispatchOk, DispatchErr, DispatchPanic,
       EnqueueChainNext, HandleFailure, Nack, Requeue, DeadLetter, DlqPush
  <1> QED
    BY <1>3, <1>4, <1>5, <1>6, <1>7, <1>8 DEF ExecuteTask

\* The messages that a step of one execution enqueues: its own, or a continuation.
NewlyQueued(p, x) ==
    \/ x.id = Id(p) /\ x.input = msg[p].input
    \/ pc[p] = "callback" /\ x.id = ChordCallback[GroupOf[Id(p)]] /\ x.input = gathered[p]
    \/ pc[p] = "chain" /\ x.id = ChainNext[Id(p)]

LEMMA ExecuteMessages ==
  ASSUME TypeInv, NEW p \in Permit, ExecuteTask(p)
  PROVE  /\ pc'[p] # "idle" => msg'[p].id = msg[p].id /\ msg'[p].input = msg[p].input
         /\ \A x \in QueuedMessages' : x \in QueuedMessages \/ NewlyQueued(p, x)
  <1>1. pc[p] # "idle" /\ msg[p] \in Message /\ Id(p) \in Task /\ Id(p) = msg[p].id /\ TypeOK
    BY ExecuteFrame DEF TypeInv, TypeOK, Id, Message
  <1>2. pc \in [Permit -> ExecStates] /\ msg \in [Permit -> Message \cup {None}]
    BY DEF TypeInv, TypeOK
  <1>3. queues' = queues => QueuedMessages' = QueuedMessages
    BY DEF QueuedMessages
  <1>4. ASSUME NEW m \in Message, Enqueue(m), NewlyQueued(p, m), NEW x \in QueuedMessages'
        PROVE  x \in QueuedMessages \/ NewlyQueued(p, x)
    BY <1>1, <1>4, EnqueueMessages
  <1> USE DEF Goto, Return, brokerVars
  <1>5. CASE Reschedule(p) \/ Requeue(p)
    <2>1. pc'[p] = "idle" /\ (queues' = queues \/ Enqueue(msg[p]))
      BY <1>2, <1>5 DEF Reschedule, Requeue
    <2>2. NewlyQueued(p, msg[p])
      BY <1>1 DEF NewlyQueued
    <2> QED
      BY <1>1, <1>3, <1>4, <2>1, <2>2
  <1>6. CASE EnqueueCallback(p)
    <2> DEFINE c == ChordCallback[GroupOf[Id(p)]]
               m == NewMessage(c, gathered[p])
    <2>1. c \in Task /\ gathered[p] \in Seq(Task)
      BY <1>1, <1>6, WorkflowAssumption DEF EnqueueCallback, TypeInv, TypeOK, WorkflowTyped
    <2>2. m \in Message /\ m.id = c /\ m.input = gathered[p]
      BY <2>1, NewMessageType
    <2>3. pc[p] = "callback" /\ (queues' = queues \/ Enqueue(m))
      BY <1>6 DEF EnqueueCallback, Continue
    <2>4. pc'[p] # "idle" => msg'[p] = msg[p]
      BY <1>2, <1>6, ProceedChain DEF EnqueueCallback
    <2> HIDE DEF m
    <2>5. NewlyQueued(p, m)
      BY <2>2, <2>3 DEF NewlyQueued
    <2> QED
      BY <1>3, <1>4, <2>2, <2>3, <2>4, <2>5
  <1>7. CASE EnqueueChainNext(p)
    <2> DEFINE c == ChainNext[Id(p)]
               m == NewMessage(c, <<Id(p)>>)
    <2>1. c \in Task /\ <<Id(p)>> \in Seq(Task)
      BY <1>1, <1>7, WorkflowAssumption DEF EnqueueChainNext, TypeInv, WorkflowTyped
    <2>2. m \in Message /\ m.id = c
      BY <2>1, NewMessageType
    <2>3. pc[p] = "chain" /\ pc'[p] = "idle" /\ (queues' = queues \/ Enqueue(m))
      BY <1>2, <1>7 DEF EnqueueChainNext, Continue
    <2> HIDE DEF m
    <2>5. NewlyQueued(p, m)
      BY <2>2, <2>3 DEF NewlyQueued
    <2> QED
      BY <1>3, <1>4, <2>2, <2>3, <2>5
  <1>8. CASE HandleFailure(p)
    <2>1. queues' = queues
      BY <1>8 DEF HandleFailure
    <2>2. msg'[p] = msg[p] \/ msg'[p] = Retried(msg[p])
      BY <1>2, <1>8 DEF HandleFailure
    <2> QED
      BY <1>1, <1>3, <2>1, <2>2, RetriedType
  <1>9. CASE Ack(p) \/ Store(p) \/ CompleteGroupMember(p) \/ GetGroupResults(p)
    <2>1. queues' = queues
      BY <1>9 DEF Ack, Store, CompleteGroupMember, GetGroupResults
    <2>2. pc'[p] = "idle" \/ msg'[p] = msg[p]
      BY <1>2, <1>9 DEF Ack, Store, CompleteGroupMember, GetGroupResults, Proceed
    <2> QED
      BY <1>3, <2>1, <2>2
  <1>10. CASE \/ EtaGuard(p) \/ Before(p) \/ DispatchOk(p) \/ DispatchErr(p)
              \/ DispatchPanic(p) \/ Nack(p) \/ DeadLetter(p) \/ DlqPush(p)
    BY <1>2, <1>3, <1>10 DEF EtaGuard, Before, DispatchOk, DispatchErr, DispatchPanic,
       Nack, DeadLetter, DlqPush
  <1> QED
    BY <1>5, <1>6, <1>7, <1>8, <1>9, <1>10 DEF ExecuteTask

\* A list of all completions is a list of all members.
LEMMA CompleteList ==
  ASSUME TypeOK, GroupList, NEW g \in Group, completed[g] >= GroupTotal(g)
  PROVE  Full(groupResults[g], g)
  <1> DEFINE s == groupResults[g]
             M == Members(g)
             n == Len(s)
  <1>1. s \in Seq(Task) /\ n \in Nat /\ DOMAIN s = 1..n /\ completed[g] \in Nat
    BY DEF TypeOK
  <1>2. n = completed[g] /\ (\A i, k \in DOMAIN s : s[i] = s[k] => i = k) /\ Elems(s) \subseteq M
    BY DEF GroupList
  <1>3. IsFiniteSet(M) /\ Cardinality(M) \in Nat /\ GroupTotal(g) = Cardinality(M)
    BY FiniteAssumption, FS_Subset, FS_CardinalityType DEF Members, GroupTotal
  <1> HIDE DEF s, M, n
  <1>4. \A i \in 1..n : s[i] \in M
    BY <1>1, <1>2 DEF Elems
  <1> DEFINE f == [i \in 1..n |-> s[i]]
  <1>5. f \in Injection(1..n, M)
    BY <1>1, <1>2, <1>4 DEF Injection, IsInjective
  <1>6. Cardinality(1..n) = n /\ IsFiniteSet(1..n)
    BY <1>1, FS_Interval
  <1>7. /\ Cardinality(1..n) <= Cardinality(M)
        /\ Cardinality(1..n) = Cardinality(M) => f \in Surjection(1..n, M)
    BY <1>3, <1>5, FS_Injection
  <1>8. n = Cardinality(M)
    BY <1>1, <1>2, <1>3, <1>6, <1>7
  <1>9. \A t \in M : \E i \in 1..n : s[i] = t
    BY <1>6, <1>7, <1>8 DEF Surjection
  <1>10. Elems(s) = M
    BY <1>1, <1>2, <1>9 DEF Elems
  <1> QED
    BY <1>3, <1>8, <1>10 DEF Full, s, M, n

\* A step of an execution appends to a group only the result of its own message.
LEMMA ExecuteGroupList ==
  ASSUME ResultInv, NEW p \in Permit, ExecuteTask(p),
         \A t \in Task : Settled(t) => Settled(t)'
  PROVE  GroupList'
  <1>1. /\ TypeInv /\ TypeOK /\ FlyingPlace /\ GroupList /\ StoredInv
    BY DEF ResultInv, RetryInv, CopyInv, DrainInv, TypeInv, PlaceInv
  <1>2. /\ pc[p] # "idle"
        /\ \A r \in Permit \ {p} : pc'[r] = pc[r] /\ msg'[r] = msg[r]
        /\ pc'[p] # "idle" => Id(p)' = Id(p)
    BY <1>1, ExecuteFrame
  <1>3. \A r \in Permit : pc'[r] # "idle" => pc[r] # "idle" /\ Id(r)' = Id(r)
    BY <1>2 DEF Id
  <1>4. \A r \in Permit : pc[r] \in AfterGroup => pc'[r] \in AfterGroup \cup {"idle"}
    BY <1>1, <1>2, ExecuteLists
  <1>5. Id(p) \in Task
    BY <1>1, <1>2 DEF TypeOK, Id, Message
  <1>6. ASSUME NEW g \in Group, NEW t \in Elems(groupResults[g])
        PROVE  /\ t \in Members(g) /\ Settled(t)'
               /\ \A r \in Permit : pc'[r] # "idle" /\ Id(r)' = t => pc'[r] \in AfterGroup
    <2>1. /\ t \in Members(g) /\ Settled(t)
          /\ \A r \in Permit : pc[r] # "idle" /\ Id(r) = t => pc[r] \in AfterGroup
      BY <1>1, <1>6 DEF GroupList, AfterGroup
    <2>2. t \in Task
      BY <2>1 DEF Members
    <2>3. ASSUME NEW r \in Permit, pc'[r] # "idle", Id(r)' = t
          PROVE  pc'[r] \in AfterGroup
      BY <1>3, <1>4, <2>1, <2>3
    <2> QED
      BY <2>1, <2>2, <2>3
  <1>7. CASE UNCHANGED <<completed, groupResults>>
    <2>1. ASSUME NEW g \in Group
          PROVE  /\ Len(groupResults'[g]) = completed'[g]
                 /\ \A i, k \in DOMAIN groupResults'[g] :
                       groupResults'[g][i] = groupResults'[g][k] => i = k
                 /\ Elems(groupResults'[g]) = Elems(groupResults[g])
      BY <1>1, <1>7 DEF GroupList
    <2> QED
      BY <1>6, <2>1 DEF GroupList, AfterGroup
  <1>8. CASE /\ pc[p] = "group" /\ GroupOf[Id(p)] \in Group
             /\ completed' = [completed EXCEPT ![GroupOf[Id(p)]] = @ + 1]
             /\ groupResults' = [groupResults EXCEPT ![GroupOf[Id(p)]] = Append(@, Id(p))]
             /\ pc'[p] \in {"gather", "chain", "idle"}
    <2> DEFINE h == GroupOf[Id(p)]
               s == groupResults[h]
    <2>1. /\ Id(p) \in Members(h) /\ Settled(Id(p)) /\ Id(p) \notin Elems(s)
          /\ \A r \in Permit : pc[r] # "idle" /\ Id(r) = Id(p) => r = p
      <3>1. Id(p) \in Members(h)
        BY <1>5 DEF Members
      <3>2. Settled(Id(p))
        BY <1>1, <1>8 DEF StoredInv
      <3>3. Id(p) \notin Elems(s)
        BY <1>1, <1>2, <1>8 DEF GroupList
      <3> QED
        BY <1>1, <1>2, <3>1, <3>2, <3>3 DEF FlyingPlace
    <2>2. /\ s \in Seq(Task) /\ completed[h] \in Nat /\ Len(s) = completed[h]
          /\ \A i, k \in DOMAIN s : s[i] = s[k] => i = k
      BY <1>1, <1>8 DEF TypeOK, GroupList
    <2>3. groupResults'[h] = Append(s, Id(p)) /\ completed'[h] = completed[h] + 1
      BY <1>1, <1>8 DEF TypeOK
    <2>4. \A g \in Group \ {h} : groupResults'[g] = groupResults[g] /\ completed'[g] = completed[g]
      BY <1>1, <1>8 DEF TypeOK
    <2>5. PICK x \in Task : x = Id(p)
      BY <1>5
    <2>6. /\ Len(Append(s, x)) = Len(s) + 1
          /\ \A i, k \in DOMAIN Append(s, x) : Append(s, x)[i] = Append(s, x)[k] => i = k
          /\ \A y \in Elems(Append(s, x)) : y = x \/ y \in Elems(s)
      <3>1. x \notin Elems(s)
        BY <2>1, <2>5
      <3> HIDE DEF s, h
      <3>2. /\ Len(s) \in Nat /\ DOMAIN s = 1..Len(s) /\ DOMAIN Append(s, x) = 1..(Len(s) + 1)
            /\ Append(s, x)[Len(s) + 1] = x
            /\ \A i \in 1..Len(s) : Append(s, x)[i] = s[i] /\ s[i] \in Elems(s)
        BY <2>2 DEF Elems
      <3>3. \A i \in DOMAIN Append(s, x) : i = Len(s) + 1 \/ i \in 1..Len(s)
        BY <3>2
      <3>4. \A i, k \in DOMAIN Append(s, x) : Append(s, x)[i] = Append(s, x)[k] => i = k
        BY <2>2, <3>1, <3>2, <3>3
      <3>5. \A y \in Elems(Append(s, x)) : y = x \/ y \in Elems(s)
        BY <3>2, <3>3 DEF Elems
      <3> QED
        BY <2>2, <3>4, <3>5
    <2>7. ASSUME NEW r \in Permit, pc'[r] # "idle", Id(r)' = x
          PROVE  pc'[r] \in AfterGroup
      <3>1. r = p
        BY <1>3, <2>1, <2>5, <2>7
      <3> QED
        BY <1>8, <2>7, <3>1 DEF AfterGroup
    <2>8. Settled(x)' /\ x \in Members(h)
      BY <2>1, <2>5
    <2>9. ASSUME NEW g \in Group
          PROVE  /\ Len(groupResults'[g]) = completed'[g]
                 /\ \A i, k \in DOMAIN groupResults'[g] :
                       groupResults'[g][i] = groupResults'[g][k] => i = k
                 /\ \A t \in Elems(groupResults'[g]) :
                       /\ t \in Members(g) /\ Settled(t)'
                       /\ \A r \in Permit : pc'[r] # "idle" /\ Id(r)' = t => pc'[r] \in AfterGroup
      <3>1. CASE g = h
        <4>1. groupResults'[g] = Append(s, x) /\ completed'[g] = completed[h] + 1
          BY <2>3, <2>5, <3>1
        <4>2. \A t \in Elems(Append(s, x)) :
                       /\ t \in Members(g) /\ Settled(t)'
                       /\ \A r \in Permit : pc'[r] # "idle" /\ Id(r)' = t => pc'[r] \in AfterGroup
          BY <1>6, <2>6, <2>7, <2>8, <3>1
        <4> QED
          BY <2>2, <2>6, <4>1, <4>2
      <3>2. CASE g # h
        <4>1. groupResults'[g] = groupResults[g] /\ completed'[g] = completed[g]
          BY <2>4, <3>2
        <4>2. /\ Len(groupResults[g]) = completed[g]
              /\ \A i, k \in DOMAIN groupResults[g] : groupResults[g][i] = groupResults[g][k] => i = k
          BY <1>1 DEF GroupList
        <4> QED
          BY <1>6, <4>1, <4>2
      <3> QED
        BY <3>1, <3>2
    <2> QED
      BY <2>9 DEF GroupList, AfterGroup
  <1> QED
    BY <1>1, <1>7, <1>8, ExecuteLists

\* What an execution about to fire gathers is complete, and all it stands for
\* has been stored.
LEMMA FiringComplete ==
  ASSUME ResultInv, NEW p \in Permit, NEW g \in Group, Firing(p, g)
  PROVE  Full(groupResults[g], g) /\ \A t \in Members(g) : Settled(t)
  <1>1. TypeOK /\ GroupList /\ completed[g] >= GroupTotal(g)
    BY DEF ResultInv, RetryInv, CopyInv, DrainInv, TypeInv, CallbackFresh
  <1>2. Full(groupResults[g], g)
    BY <1>1, CompleteList
  <1> QED
    BY <1>1, <1>2 DEF Full, GroupList

\* A step of an execution enqueues a continuation only after what it follows,
\* and a callback with every result of the group.
LEMMA ExecuteResults ==
  ASSUME ResultInv, NEW p \in Permit, ExecuteTask(p)
  PROVE  GroupList' /\ StoredInv' /\ GatheredInv' /\ FollowInv' /\ InputInv'
  <1>1. /\ CopyInv /\ TypeInv /\ TypeOK /\ FlyingPlace /\ WorkflowTyped
        /\ GroupList /\ StoredInv /\ GatheredInv /\ FollowInv /\ InputInv
    BY DEF ResultInv, RetryInv, CopyInv, DrainInv, TypeInv, PlaceInv
  <1>2. /\ pc[p] # "idle" /\ loop' = loop /\ hand' = hand
        /\ \A r \in Permit \ {p} : pc'[r] = pc[r] /\ msg'[r] = msg[r]
        /\ pc'[p] # "idle" => Id(p)' = Id(p)
    BY <1>1, ExecuteFrame
  <1>3. \A r \in Permit : pc'[r] # "idle" => pc[r] # "idle" /\ Id(r)' = Id(r)
    BY <1>2 DEF Id
  <1>4. done \subseteq done' /\ results \subseteq results'
    BY <1>1, ExecuteKinds, ExecuteLists
       DEF KeepsCopies, Requeues, Buries, Succeeds, Drops, ContinuesWith
  <1>5. \A t \in Task : Settled(t) => Settled(t)'
    BY <1>4 DEF Settled
  <1>6. msg[p] \in Message /\ Id(p) \in Task /\ Id(p) = msg[p].id
    BY <1>1, <1>2 DEF TypeOK, Id, Message
  <1>7. GroupList'
    BY <1>5, ExecuteGroupList
  <1>8. StoredInv'
    <2>1. ASSUME NEW r \in Permit, pc'[r] \in AfterStore
          PROVE  Settled(Id(r))'
      <3>1. pc[r] # "idle" /\ Id(r)' = Id(r) /\ Id(r) \in Task
        BY <1>1, <1>3, <2>1 DEF AfterStore, TypeOK, Id, Message
      <3>2. CASE pc[r] \in AfterStore
        <4>1. Settled(Id(r))
          BY <1>1, <3>2 DEF StoredInv, AfterStore
        <4> QED
          BY <1>5, <3>1, <4>1 DEF Settled
      <3>3. CASE pc[r] \notin AfterStore
        <4>1. r = p
          BY <1>2, <2>1, <3>3
        <4>2. pc[p] = "store" /\ ("store" \notin Faults => Id(p) \in results')
          BY <1>1, <2>1, <3>3, <4>1, ExecuteLists
        <4>3. Id(p) \in done
          BY <1>1, <4>2 DEF FlyingPlace, AfterSuccess
        <4> QED
          BY <1>4, <3>1, <4>1, <4>2, <4>3 DEF Settled
      <3> QED
        BY <3>2, <3>3
    <2> QED
      BY <2>1 DEF StoredInv, AfterStore
  <1>9. GatheredInv'
    <2>1. ASSUME "get_group_results" \notin Faults, NEW r \in Permit, pc'[r] = "callback"
          PROVE  Full(gathered'[r], GroupOf[Id(r)'])
      <3>1. CASE r = p
        <4>1. pc[p] = "gather" /\ gathered'[p] = groupResults[GroupOf[Id(p)]] /\ Id(p)' = Id(p)
          BY <1>1, <1>3, <2>1, <3>1, ExecuteLists
        <4>2. GroupOf[Id(p)] \in Group /\ Firing(p, GroupOf[Id(p)])
          BY <1>1, <1>6, <4>1, WorkflowAssumption DEF WorkflowTyped, Firing
        <4> QED
          BY <3>1, <4>1, <4>2, FiringComplete
      <3>2. CASE r # p
        <4>1. pc[r] = "callback" /\ gathered'[r] = gathered[r] /\ Id(r)' = Id(r)
          BY <1>1, <1>2, <1>3, <2>1, <3>2, ExecuteLists
        <4> QED
          BY <1>1, <2>1, <4>1 DEF GatheredInv
      <3> QED
        BY <3>1, <3>2
    <2> QED
      BY <2>1 DEF GatheredInv, Full
  <1>10. ASSUME NEW c \in sent', c \notin sent
         PROVE  \/ pc[p] = "chain" /\ c = ChainNext[Id(p)] /\ c \in Task
                \/ pc[p] = "callback" /\ c = ChordCallback[GroupOf[Id(p)]] /\ c \in Task
    BY <1>1, <1>10, ExecuteKinds DEF KeepsCopies, Requeues, Buries, Succeeds, Drops, ContinuesWith
  <1>11. FollowInv'
    <2>1. ASSUME NEW t \in Task, ChainNext[t] \in sent'
          PROVE  Settled(t)'
      <3>1. CASE ChainNext[t] \in sent
        BY <1>1, <1>5, <3>1 DEF FollowInv
      <3>2. CASE ChainNext[t] \notin sent
        <4>1. ChainNext[t] \in Task /\ ChainNext[t] # None
          BY <1>10, <2>1, <3>2, NoneAssumption
        <4>2. pc[p] = "chain" /\ t = Id(p)
          <5>1. CASE pc[p] = "chain" /\ ChainNext[t] = ChainNext[Id(p)]
            BY <1>6, <4>1, <5>1, WorkflowAssumption
          <5>2. CASE pc[p] = "callback" /\ ChainNext[t] = ChordCallback[GroupOf[Id(p)]]
            <6>1. GroupOf[Id(p)] \in Group
              BY <1>1, <1>6, <5>2, WorkflowAssumption DEF WorkflowTyped
            <6> QED
              BY <4>1, <5>2, <6>1, WorkflowAssumption
          <5> QED
            BY <1>10, <2>1, <3>2, <5>1, <5>2
        <4>3. Settled(t)
          BY <1>1, <4>2 DEF StoredInv
        <4> QED
          BY <1>5, <4>3
      <3> QED
        BY <3>1, <3>2
    <2>2. ASSUME NEW g \in Group, ChordCallback[g] \in sent', NEW t \in Members(g)
          PROVE  Settled(t)'
      <3>0. t \in Task
        BY DEF Members
      <3>1. CASE ChordCallback[g] \in sent
        BY <1>1, <1>5, <3>0, <3>1 DEF FollowInv
      <3>2. CASE ChordCallback[g] \notin sent
        <4>1. ChordCallback[g] \in Task /\ ChordCallback[g] # None
          BY <1>10, <2>2, <3>2, NoneAssumption
        <4>2. Firing(p, g)
          <5>1. CASE pc[p] = "chain" /\ ChordCallback[g] = ChainNext[Id(p)]
            BY <1>6, <4>1, <5>1, WorkflowAssumption
          <5>2. CASE pc[p] = "callback" /\ ChordCallback[g] = ChordCallback[GroupOf[Id(p)]]
            <6>1. GroupOf[Id(p)] \in Group
              BY <1>1, <1>6, <5>2, WorkflowAssumption DEF WorkflowTyped
            <6>2. GroupOf[Id(p)] = g
              BY <4>1, <5>2, <6>1, WorkflowAssumption
            <6> QED
              BY <5>2, <6>2 DEF Firing
          <5> QED
            BY <1>10, <2>2, <3>2, <5>1, <5>2
        <4>3. Settled(t)
          BY <4>2, FiringComplete
        <4> QED
          BY <1>5, <3>0, <4>3
      <3> QED
        BY <3>1, <3>2
    <2> QED
      BY <2>1, <2>2 DEF FollowInv
  <1>12. InputInv'
    <2> SUFFICES ASSUME "get_group_results" \notin Faults
                 PROVE  /\ \A m \in QueuedMessages' : InputOK(m)
                        /\ loop' = "track" => InputOK(hand')
                        /\ \A r \in Permit : pc'[r] # "idle" => InputOK(msg'[r])
      BY DEF InputInv, InputOK
    <2>1. /\ \A m \in QueuedMessages : InputOK(m)
          /\ loop = "track" => InputOK(hand)
          /\ \A r \in Permit : pc[r] # "idle" => InputOK(msg[r])
      BY <1>1 DEF InputInv
    <2>2. ASSUME NEW x \in QueuedMessages', NewlyQueued(p, x), NEW g \in Group,
                 x.id = ChordCallback[g]
          PROVE  Full(x.input, g)
      <3>1. CASE x.id = Id(p) /\ x.input = msg[p].input
        BY <1>2, <1>6, <2>1, <2>2, <3>1 DEF InputOK
      <3>2. CASE pc[p] = "callback" /\ x.id = ChordCallback[GroupOf[Id(p)]] /\ x.input = gathered[p]
        <4>1. GroupOf[Id(p)] \in Group /\ ChordCallback[GroupOf[Id(p)]] # None
          BY <1>1, <1>6, <3>2, WorkflowAssumption DEF WorkflowTyped
        <4>2. GroupOf[Id(p)] = g
          BY <2>2, <3>2, <4>1, WorkflowAssumption
        <4> QED
          BY <1>1, <3>2, <4>2 DEF GatheredInv
      <3>3. CASE pc[p] = "chain" /\ x.id = ChainNext[Id(p)]
        <4>1. ChainNext[Id(p)] # None
          BY <1>1, <3>3 DEF WorkflowTyped
        <4> QED
          BY <1>6, <2>2, <3>3, <4>1, WorkflowAssumption
      <3> QED
        BY <2>2, <3>1, <3>2, <3>3 DEF NewlyQueued
    <2>3. ASSUME NEW x \in QueuedMessages' PROVE InputOK(x)
      <3>1. x \in QueuedMessages \/ NewlyQueued(p, x)
        BY <1>1, ExecuteMessages
      <3> QED
        BY <2>1, <2>2, <3>1 DEF InputOK
    <2>4. ASSUME NEW r \in Permit, pc'[r] # "idle" PROVE InputOK(msg'[r])
      <3>1. msg'[r].id = msg[r].id /\ msg'[r].input = msg[r].input /\ pc[r] # "idle"
        BY <1>1, <1>2, <1>3, <2>4, ExecuteMessages
      <3> QED
        BY <2>1, <3>1 DEF InputOK
    <2> QED
      BY <1>2, <2>1, <2>3, <2>4
  <1> QED
    BY <1>7, <1>8, <1>9, <1>11, <1>12

\* The loop hands a message on with the input it found.
LEMMA RunResults ==
  ASSUME ResultInv, Run
  PROVE  GroupList' /\ StoredInv' /\ GatheredInv' /\ FollowInv' /\ InputInv'
  <1>1. /\ TypeOK /\ PermitOwner /\ HandPlace
        /\ GroupList /\ StoredInv /\ GatheredInv /\ FollowInv /\ InputInv
    BY DEF ResultInv, RetryInv, CopyInv, DrainInv, TypeInv, PlaceInv
  <1> USE DEF brokerVars, loopVars, execVars, backendVars, envVars, histVars
  <1>2. UNCHANGED <<gathered, results, completed, groupResults, sent, done>>
    BY DEF Run, CheckCancel, Acquire, Pop, TrackAndSpawn, FindNothing, Notified,
       DequeueTimeout, DequeueError, EndBackoff, CancelAcquire, CancelDequeue, Drained,
       DrainTimeout
  <1>3. FollowInv'
    BY <1>1, <1>2 DEF FollowInv, Settled
  <1>4. queues' = queues => QueuedMessages' = QueuedMessages
    BY DEF QueuedMessages
  <1>5. pc' = pc /\ msg' = msg => GroupList' /\ StoredInv' /\ GatheredInv'
    BY <1>1, <1>2 DEF GroupList, StoredInv, GatheredInv, Settled, Id
  <1>6. CASE UNCHANGED <<queues, execVars>> /\ loop' # "track"
    <2>1. InputInv'
      BY <1>1, <1>4, <1>6 DEF InputInv, InputOK
    <2> QED
      BY <1>3, <1>5, <1>6, <2>1
  <1>7. CASE Pop
    <2>1. hand' \in QueuedMessages /\ QueuedMessages' \subseteq QueuedMessages
      BY <1>1, <1>7, PopMessages
    <2>2. pc' = pc /\ msg' = msg
      BY <1>7 DEF Pop
    <2>3. InputInv'
      BY <1>1, <2>1, <2>2 DEF InputInv, InputOK
    <2> QED
      BY <1>3, <1>5, <2>2, <2>3
  <1>8. CASE TrackAndSpawn
    <2>1. PICK k \in Permit : k = grant
      BY <1>1, <1>8 DEF TrackAndSpawn, TypeOK
    <2>2. /\ pc'[k] = "start" /\ msg'[k] = hand
          /\ \A r \in Permit \ {k} : pc'[r] = pc[r] /\ msg'[r] = msg[r]
      BY <1>1, <1>8, <2>1 DEF TrackAndSpawn, TypeOK
    <2>3. loop = "track" /\ loop' = "check" /\ queues' = queues /\ hand.id \notin done
      BY <1>1, <1>8 DEF TrackAndSpawn, HandPlace
    <2>4. \A r \in Permit \ {k} : Id(r)' = Id(r)
      BY <2>2 DEF Id
    <2>5. Id(k)' = hand.id
      BY <2>2 DEF Id
    <2>6. GroupList'
      <3>1. ASSUME NEW g \in Group, NEW t \in Elems(groupResults[g]),
                   NEW r \in Permit, pc'[r] # "idle", Id(r)' = t
            PROVE  pc'[r] \in AfterGroup
        <4>1. Settled(t) /\ (pc[r] # "idle" /\ Id(r) = t => pc[r] \in AfterGroup)
          BY <1>1, <3>1 DEF GroupList, AfterGroup
        <4>2. r # k
          BY <2>3, <2>5, <3>1, <4>1 DEF Settled
        <4> QED
          BY <2>2, <2>4, <3>1, <4>1, <4>2
      <3> QED
        BY <1>1, <1>2, <3>1 DEF GroupList, Settled, AfterGroup
    <2>7. StoredInv'
      BY <1>1, <1>2, <2>2, <2>4 DEF StoredInv, Settled
    <2>8. GatheredInv'
      BY <1>1, <1>2, <2>2, <2>4 DEF GatheredInv
    <2>9. InputInv'
      BY <1>1, <1>4, <2>2, <2>3 DEF InputInv, InputOK
    <2> QED
      BY <1>3, <2>6, <2>7, <2>8, <2>9
  <1>9. CASE \/ CheckCancel \/ Acquire \/ FindNothing \/ Notified \/ DequeueTimeout
             \/ DequeueError \/ EndBackoff \/ CancelAcquire \/ CancelDequeue \/ Drained
             \/ DrainTimeout
    BY <1>6, <1>9 DEF CheckCancel, Acquire, FindNothing, Notified, DequeueTimeout,
       DequeueError, EndBackoff, CancelAcquire, CancelDequeue, Drained, DrainTimeout, DropPermit
  <1> QED
    BY <1>7, <1>8, <1>9 DEF Run

\* A submitted message is no continuation.
LEMMA SubmitResults ==
  ASSUME ResultInv, NEW t \in Task, Submit(t)
  PROVE  GroupList' /\ StoredInv' /\ GatheredInv' /\ FollowInv' /\ InputInv'
  <1>1. TypeOK /\ GroupList /\ StoredInv /\ GatheredInv /\ FollowInv /\ InputInv
    BY DEF ResultInv, RetryInv, CopyInv, DrainInv, TypeInv
  <1>2. /\ UNCHANGED <<loop, hand, pc, msg, gathered, results, completed, groupResults, done>>
        /\ sent' = sent \cup {t} /\ Enqueue(NewMessage(t, <<>>))
    BY DEF Submit, loopVars, execVars, backendVars
  <1>3. (\A s \in Task : ChainNext[s] # t) /\ (\A g \in Group : ChordCallback[g] # t)
    BY DEF Submit, Root, Continuations
  <1>4. <<>> \in Seq(Task)
    OBVIOUS
  <1>5. PICK m \in Message : m = NewMessage(t, <<>>) /\ m.id = t
    BY <1>4, NewMessageType
  <1>6. \A x \in QueuedMessages' : x = m \/ x \in QueuedMessages
    BY <1>1, <1>2, <1>5, EnqueueMessages
  <1>7. InputInv'
    <2> SUFFICES ASSUME "get_group_results" \notin Faults
                 PROVE  /\ \A x \in QueuedMessages' : InputOK(x)
                        /\ loop' = "track" => InputOK(hand')
                        /\ \A r \in Permit : pc'[r] # "idle" => InputOK(msg'[r])
      BY DEF InputInv, InputOK
    <2>1. InputOK(m)
      BY <1>3, <1>5 DEF InputOK
    <2> QED
      BY <1>1, <1>2, <1>6, <2>1 DEF InputInv
  <1>8. GroupList' /\ StoredInv' /\ GatheredInv'
    BY <1>1, <1>2 DEF GroupList, StoredInv, GatheredInv, Settled, Id
  <1>9. FollowInv'
    BY <1>1, <1>2, <1>3 DEF FollowInv, Settled
  <1> QED
    BY <1>7, <1>8, <1>9

\* The next-state relation keeps continuations behind what they follow.
LEMMA NextResults ==
  ASSUME ResultInv, [Next]_vars
  PROVE  ResultInv'
  <1>1. RetryInv'
    BY NextRetry DEF ResultInv
  <1>2. CASE UNCHANGED <<queues, loopVars, execVars, backendVars, histVars>>
    <2>1. QueuedMessages' = QueuedMessages
      BY <1>2 DEF QueuedMessages
    <2>2. UNCHANGED <<loop, hand, pc, msg, gathered, results, completed, groupResults, sent, done>>
      BY <1>2 DEF loopVars, execVars, backendVars, histVars
    <2>3. GroupList' /\ StoredInv' /\ GatheredInv' /\ FollowInv'
      BY <2>2 DEF ResultInv, GroupList, StoredInv, GatheredInv, FollowInv, Settled, Id
    <2>4. InputInv'
      BY <2>1, <2>2 DEF ResultInv, InputInv, InputOK
    <2> QED
      BY <1>1, <2>3, <2>4 DEF ResultInv
  <1>3. ASSUME NEW t \in Task, Submit(t) PROVE ResultInv'
    BY <1>1, <1>3, SubmitResults DEF ResultInv
  <1>4. ASSUME NEW t \in Task, EtaPasses(t) PROVE ResultInv'
    BY <1>2, <1>4 DEF EtaPasses, brokerVars
  <1>5. CASE Cancel
    BY <1>2, <1>5 DEF Cancel, brokerVars
  <1>6. CASE Run
    BY <1>1, <1>6, RunResults DEF ResultInv
  <1>7. ASSUME NEW p \in Permit, ExecuteTask(p) PROVE ResultInv'
    BY <1>1, <1>7, ExecuteResults DEF ResultInv
  <1>8. CASE UNCHANGED vars
    BY <1>2, <1>8 DEF vars, brokerVars
  <1> QED
    BY <1>3, <1>4, <1>5, <1>6, <1>7, <1>8 DEF Next

\* Initially no group has a result and nothing has been enqueued.
LEMMA InitResults == Init => ResultInv
  <1> SUFFICES ASSUME Init PROVE ResultInv
    OBVIOUS
  <1>1. QueuedMessages = {} /\ sent = {} /\ \A p \in Permit : pc[p] = "idle"
    BY DEF Init, QueuedMessages
  <1>2. GroupList
    BY DEF Init, GroupList, Elems
  <1>3. StoredInv /\ GatheredInv /\ FollowInv
    BY <1>1 DEF StoredInv, GatheredInv, FollowInv
  <1>4. InputInv
    BY <1>1 DEF Init, InputInv
  <1> QED
    BY <1>2, <1>3, <1>4, InitRetry DEF ResultInv

\* The copies of a message, by the place they are in.
LEMMA CopiesPlaces ==
  ASSUME NEW t, NEW m \in Copies(t)
  PROVE  /\ m.id = t
         /\ \/ m \in QueuedMessages
            \/ loop = "track" /\ m = hand
            \/ \E p \in Permit : pc[p] # "idle" /\ m = msg[p]
  <1>1. m \in QueuedMessages \cup (IF loop = "track" THEN {hand} ELSE {}) \cup {msg[p] : p \in InFlight}
    BY DEF Copies, QueuedMessages
  <1>2. m.id = t
    BY DEF Copies
  <1> QED
    BY <1>1, <1>2 DEF InFlight

\* When a chain successor or a chord callback has been enqueued, all it follows
\* has succeeded and its results are stored, and the callback carries the result
\* of each member exactly once.
THEOREM ResultsAreSeen == Spec => []ContinuationsSeeResults
  <1>1. Init => ResultInv
    BY InitResults
  <1>2. ResultInv /\ [Next]_vars => ResultInv'
    BY NextResults
  <1>3. ResultInv => ContinuationsSeeResults
    <2> SUFFICES ASSUME ResultInv PROVE ContinuationsSeeResults
      OBVIOUS
    <2>1. FollowInv /\ InputInv
      BY DEF ResultInv
    <2>2. ASSUME NEW g \in Group, "get_group_results" \notin Faults,
                 NEW m \in Copies(ChordCallback[g])
          PROVE  Full(m.input, g)
      <3>1. InputOK(m)
        BY <2>1, <2>2, CopiesPlaces DEF InputInv
      <3> QED
        BY <2>2, <3>1, CopiesPlaces DEF InputOK
    <2>3. CallbackSeesAllResults
      BY <2>1, <2>2 DEF CallbackSeesAllResults, FollowInv, Settled, Full, Elems
    <2>4. ResultsBeforeContinuation
      BY <2>1 DEF ResultsBeforeContinuation, FollowInv, Settled
    <2> QED
      BY <2>3, <2>4 DEF ContinuationsSeeResults
  <1> QED
    BY <1>1, <1>2, <1>3, PTL DEF Spec

-----------------------------------------------------------------------------
(* The refinement of TaskLifecycle *)

\* A message that is enqueued again after a failure has used a retry.
BackoffInv == \A p \in Permit : pc[p] \in {"backoff", "requeue"} => msg[p].retries >= 1

LifeInv == ResultInv /\ BackoffInv

StatusMap == [t \in Task |-> StatusOf(t)]

\* A message that was enqueued and is neither settled nor anywhere.
Gone(t) == t \in sent /\ t \notin done \cup DeadLettered \cup Queued \cup InHand \cup Executing

\* The refinement mapping, read off the place a message is in.
StatusByPlace ==
    /\ \A t \in Task : t \notin sent => StatusOf(t) = Lifecycle!Absent
    /\ \A t \in Task : t \in done => StatusOf(t) = Lifecycle!Success
    /\ \A t \in Task : t \in DeadLettered => StatusOf(t) = Lifecycle!Dead
    /\ \A m \in QueuedMessages : StatusOf(m.id) = Lifecycle!Waiting(m.retries)
    /\ loop = "track" => StatusOf(hand.id) = Lifecycle!Waiting(hand.retries)
    /\ \A p \in Permit : pc[p] \in {"backoff", "requeue"} =>
          StatusOf(Id(p)) = Lifecycle!Retry(msg[p].retries)
    /\ \A p \in Permit : pc[p] \notin {"idle", "backoff", "requeue"} \cup AfterSuccess =>
          StatusOf(Id(p)) = Lifecycle!Active(msg[p].retries)
    /\ \A t \in Task : Gone(t) => StatusOf(t) = Lifecycle!Lost

\* Two queued messages with one id are one.
LEMMA QueuedOnce ==
  ASSUME TypeOK, QueueUnique, NEW m \in QueuedMessages, NEW x \in QueuedMessages, m.id = x.id
  PROVE  m = x
  <1>1. PICK q \in Queue : \E i \in DOMAIN queues[q] : m = queues[q][i]
    BY DEF QueuedMessages
  <1>2. PICK i \in DOMAIN queues[q] : m = queues[q][i]
    BY <1>1
  <1>3. PICK r \in Queue : \E j \in DOMAIN queues[r] : x = queues[r][j]
    BY DEF QueuedMessages
  <1>4. PICK j \in DOMAIN queues[r] : x = queues[r][j]
    BY <1>3
  <1>5. q = r /\ i = j
    BY <1>2, <1>4 DEF QueueUnique
  <1> QED
    BY <1>2, <1>4, <1>5

\* The retries of a message with a single copy are those of that copy.
LEMMA OneCopy ==
  ASSUME NEW t, NEW m, m.id = t,
         \/ m \in QueuedMessages
         \/ loop = "track" /\ m = hand
         \/ \E p \in Permit : pc[p] # "idle" /\ m = msg[p],
         \A x \in QueuedMessages : x.id = t => x = m,
         loop = "track" /\ hand.id = t => hand = m,
         \A p \in Permit : pc[p] # "idle" /\ Id(p) = t => msg[p] = m
  PROVE  RetriesOf(t) = m.retries
  <1>1. m \in Copies(t)
    <2>1. m \in QueuedMessages \cup (IF loop = "track" THEN {hand} ELSE {})
                               \cup {msg[p] : p \in InFlight}
      BY DEF InFlight
    <2> QED
      BY <2>1 DEF Copies, QueuedMessages
  <1>2. \A x \in Copies(t) : x = m
    BY CopiesPlaces DEF Id
  <1>3. Copies(t) = {m}
    BY <1>1, <1>2
  <1>4. (CHOOSE x \in Copies(t) : TRUE) = m
    BY <1>3
  <1> QED
    BY <1>4 DEF RetriesOf

\* A message is in at most one place, so the mapping is well defined.
LEMMA PlaceStatus == LifeInv => StatusByPlace
  <1> SUFFICES ASSUME LifeInv PROVE StatusByPlace
    OBVIOUS
  <1>1. /\ TypeOK /\ QueueUnique /\ QueuedPlace /\ FlyingPlace /\ HandPlace /\ SettledPlace
    BY DEF LifeInv, ResultInv, RetryInv, CopyInv, DrainInv, TypeInv, PlaceInv
  <1>2. ASSUME NEW t \in Executing
        PROVE  \E p \in Permit : pc[p] # "idle" /\ pc[p] \notin AfterSuccess /\ Id(p) = t
    BY DEF Executing, InFlight
  <1>3. ASSUME NEW p \in Permit, pc[p] # "idle", pc[p] \notin AfterSuccess
        PROVE  Id(p) \in Executing
    BY <1>3 DEF Executing, InFlight
  <1>4. Retrying \subseteq Executing
    BY DEF Retrying, Executing, InFlight, AfterSuccess
  <1>5. Executing \subseteq sent \ (done \cup DeadLettered \cup Queued \cup InHand)
    <2> SUFFICES ASSUME NEW t \in Executing
                 PROVE  t \in sent \ (done \cup DeadLettered \cup Queued \cup InHand)
      OBVIOUS
    <2>1. PICK p \in Permit : pc[p] # "idle" /\ pc[p] \notin AfterSuccess /\ Id(p) = t
      BY <1>2
    <2>2. t \notin InHand
      BY <1>1, <2>1 DEF HandPlace, InHand
    <2> QED
      BY <1>1, <2>1, <2>2 DEF FlyingPlace
  <1>6. InHand \subseteq sent \ (done \cup DeadLettered \cup Queued)
    BY <1>1 DEF HandPlace, InHand
  <1>7. Queued \subseteq sent \ (done \cup DeadLettered) /\ done \subseteq sent
        /\ DeadLettered \subseteq sent \ done
    BY <1>1 DEF QueuedPlace, SettledPlace
  <1> USE DEF Lifecycle!Absent, Lifecycle!Success, Lifecycle!Dead, Lifecycle!Lost,
          Lifecycle!Waiting, Lifecycle!Retry, Lifecycle!Active
  <1>8. \A t \in Task : t \notin sent => StatusOf(t) = Lifecycle!Absent
    BY <1>4, <1>5, <1>6, <1>7 DEF StatusOf
  <1>9. \A t \in Task : t \in done => StatusOf(t) = Lifecycle!Success
    BY <1>4, <1>5, <1>6, <1>7 DEF StatusOf
  <1>10. \A t \in Task : t \in DeadLettered => StatusOf(t) = Lifecycle!Dead
    BY <1>4, <1>5, <1>6, <1>7 DEF StatusOf
  <1>11. \A t : t \in Queued \cup InHand => StatusOf(t) = Lifecycle!Waiting(RetriesOf(t))
    BY <1>4, <1>5, <1>6, <1>7 DEF StatusOf
  <1>12. \A t : t \in Retrying => StatusOf(t) = Lifecycle!Retry(RetriesOf(t))
    BY <1>4, <1>5, <1>6, <1>7 DEF StatusOf
  <1>13. \A t : t \in Executing \ Retrying => StatusOf(t) = Lifecycle!Active(RetriesOf(t))
    BY <1>4, <1>5, <1>6, <1>7 DEF StatusOf
  <1>14. \A t \in Task : Gone(t) => StatusOf(t) = Lifecycle!Lost
    BY <1>4, <1>5, <1>6, <1>7 DEF StatusOf, Gone
  <1>15. ASSUME NEW m \in QueuedMessages
         PROVE  StatusOf(m.id) = Lifecycle!Waiting(m.retries)
    <2>1. m.id \in Queued
      BY <1>1, QueuedMessagesType
    <2>2. \A x \in QueuedMessages : x.id = m.id => x = m
      BY <1>1, QueuedOnce
    <2>3. loop = "track" => hand.id # m.id
      BY <1>6, <2>1 DEF InHand
    <2>4. \A p \in Permit : pc[p] # "idle" => Id(p) # m.id
      BY <1>1, <2>1 DEF FlyingPlace
    <2>5. RetriesOf(m.id) = m.retries
      BY <2>2, <2>3, <2>4, OneCopy
    <2> QED
      BY <1>11, <2>1, <2>5
  <1>16. ASSUME loop = "track"
         PROVE  StatusOf(hand.id) = Lifecycle!Waiting(hand.retries)
    <2>1. hand.id \in InHand
      BY <1>16 DEF InHand
    <2>2. \A x \in QueuedMessages : x.id # hand.id
      BY <1>1, <1>6, <2>1, QueuedMessagesType
    <2>3. \A p \in Permit : pc[p] # "idle" => Id(p) # hand.id
      BY <1>1, <1>16 DEF HandPlace
    <2>4. RetriesOf(hand.id) = hand.retries
      BY <1>16, <2>2, <2>3, OneCopy
    <2> QED
      BY <1>11, <2>1, <2>4
  <1>17. ASSUME NEW p \in Permit, pc[p] # "idle"
         PROVE  RetriesOf(Id(p)) = msg[p].retries
    <2>1. Id(p) \notin Queued /\ \A r \in Permit : pc[r] # "idle" /\ Id(r) = Id(p) => r = p
      BY <1>1, <1>17 DEF FlyingPlace
    <2>2. \A x \in QueuedMessages : x.id # Id(p)
      BY <1>1, <2>1, QueuedMessagesType
    <2>3. loop = "track" => hand.id # Id(p)
      BY <1>1, <1>17 DEF HandPlace
    <2>4. msg[p].id = Id(p)
      BY DEF Id
    <2> QED
      BY <1>17, <2>1, <2>2, <2>3, <2>4, OneCopy
  <1>18. ASSUME NEW p \in Permit, pc[p] \in {"backoff", "requeue"}
         PROVE  StatusOf(Id(p)) = Lifecycle!Retry(msg[p].retries)
    <2>1. Id(p) \in Retrying
      BY <1>18 DEF Retrying, InFlight
    <2> QED
      BY <1>12, <1>17, <1>18, <2>1
  <1>19. ASSUME NEW p \in Permit, pc[p] \notin {"idle", "backoff", "requeue"} \cup AfterSuccess
         PROVE  StatusOf(Id(p)) = Lifecycle!Active(msg[p].retries)
    <2>1. Id(p) \in Executing
      BY <1>3, <1>19
    <2>2. Id(p) \notin Retrying
      BY <1>1, <1>19 DEF Retrying, InFlight, FlyingPlace
    <2> QED
      BY <1>13, <1>17, <1>19, <2>1, <2>2
  <1> QED
    BY <1>8, <1>9, <1>10, <1>14, <1>15, <1>16, <1>18, <1>19 DEF StatusByPlace

\* The same in the next state.
LEMMA PlaceStatusNext == LifeInv' => StatusByPlace'
  BY PlaceStatus, PTL

\* A message that stays where it is, with the step and the retries it has,
\* keeps its status.
LEMMA Unmoved ==
  ASSUME LifeInv, LifeInv', NEW t \in Task,
         t \in sent <=> t \in sent',
         t \in done <=> t \in done',
         t \in DeadLettered <=> t \in DeadLettered',
         \A m \in Message : m.id = t => (m \in QueuedMessages <=> m \in QueuedMessages'),
         loop = "track" /\ hand.id = t <=> loop' = "track" /\ hand'.id = t,
         loop = "track" /\ hand.id = t => hand' = hand,
         \A r \in Permit : pc[r] # "idle" /\ Id(r) = t <=> pc'[r] # "idle" /\ Id(r)' = t,
         \A r \in Permit : pc[r] # "idle" /\ Id(r) = t => pc'[r] = pc[r] /\ msg'[r] = msg[r]
  PROVE  StatusOf(t)' = StatusOf(t)
  <1>1. TypeOK /\ TypeOK' /\ FlyingPlace /\ FlyingPlace'
    BY DEF LifeInv, ResultInv, RetryInv, CopyInv, DrainInv, TypeInv, PlaceInv
  <1>2. StatusByPlace /\ StatusByPlace'
    BY PlaceStatus, PlaceStatusNext
  <1>3. CASE t \notin sent
    BY <1>2, <1>3 DEF StatusByPlace, Lifecycle!Absent
  <1>4. CASE t \in done
    BY <1>2, <1>4 DEF StatusByPlace, Lifecycle!Success
  <1>5. CASE t \in DeadLettered
    BY <1>2, <1>5 DEF StatusByPlace, Lifecycle!Dead
  <1>6. ASSUME NEW m \in QueuedMessages, m.id = t
        PROVE  StatusOf(t)' = StatusOf(t)
    <2>1. m \in QueuedMessages'
      BY <1>1, <1>6, QueuedMessagesType
    <2>2. StatusOf(m.id) = Lifecycle!Waiting(m.retries) /\ StatusOf(m.id)' = Lifecycle!Waiting(m.retries)
      BY <1>2, <2>1 DEF StatusByPlace, Lifecycle!Waiting
    <2> QED
      BY <1>6, <2>2
  <1>7. CASE loop = "track" /\ hand.id = t
    <2>1. StatusOf(hand.id) = Lifecycle!Waiting(hand.retries)
      BY <1>2, <1>7 DEF StatusByPlace
    <2>2. StatusOf(hand.id)' = Lifecycle!Waiting(hand'.retries)
      BY <1>2, <1>7 DEF StatusByPlace, Lifecycle!Waiting
    <2>3. hand' = hand
      BY <1>7
    <2> QED
      BY <1>7, <2>1, <2>2, <2>3
  <1>8. ASSUME NEW r \in Permit, pc[r] # "idle", Id(r) = t
        PROVE  StatusOf(t)' = StatusOf(t)
    <2>1. pc'[r] = pc[r] /\ msg'[r] = msg[r] /\ Id(r)' = t
      BY <1>8
    <2>2. CASE pc[r] \in AfterSuccess
      <3>1. t \in done
        BY <1>1, <1>8, <2>2 DEF FlyingPlace
      <3> QED
        BY <1>4, <3>1
    <2>3. CASE pc[r] \in {"backoff", "requeue"}
      <3>1. StatusOf(Id(r)) = Lifecycle!Retry(msg[r].retries)
        BY <1>2, <2>3 DEF StatusByPlace
      <3>2. StatusOf(Id(r))' = Lifecycle!Retry(msg'[r].retries)
        BY <1>2, <2>1, <2>3 DEF StatusByPlace, Lifecycle!Retry
      <3> QED
        BY <1>8, <2>1, <3>1, <3>2
    <2>4. CASE pc[r] \notin {"idle", "backoff", "requeue"} \cup AfterSuccess
      <3>1. StatusOf(Id(r)) = Lifecycle!Active(msg[r].retries)
        BY <1>2, <2>4 DEF StatusByPlace
      <3>2. StatusOf(Id(r))' = Lifecycle!Active(msg'[r].retries)
        BY <1>2, <2>1, <2>4 DEF StatusByPlace, Lifecycle!Active
      <3> QED
        BY <1>8, <2>1, <3>1, <3>2
    <2> QED
      BY <1>8, <2>2, <2>3, <2>4
  <1>9. CASE Gone(t)
    <2>1. t \notin Queued'
      <3>1. SUFFICES ASSUME t \in Queued' PROVE FALSE
        OBVIOUS
      <3>2. PICK q \in Queue : \E i \in DOMAIN queues'[q] : queues'[q][i].id = t
        BY <3>1 DEF Queued, Ids
      <3>3. PICK i \in DOMAIN queues'[q] : queues'[q][i].id = t
        BY <3>2
      <3>4. queues'[q][i] \in Message /\ queues'[q][i] \in QueuedMessages'
        BY <1>1, <3>3 DEF TypeOK, QueuedMessages
      <3>5. queues'[q][i] \in QueuedMessages
        BY <3>3, <3>4
      <3> QED
        BY <1>1, <1>9, <3>3, <3>5, QueuedMessagesType DEF Gone
    <2>2. t \notin InHand'
      BY <1>9 DEF Gone, InHand
    <2>3. t \notin Executing'
      <3>1. SUFFICES ASSUME t \in Executing' PROVE FALSE
        OBVIOUS
      <3>2. PICK r \in Permit : pc'[r] # "idle" /\ pc'[r] \notin AfterSuccess /\ Id(r)' = t
        BY <3>1 DEF Executing, InFlight
      <3>3. pc[r] # "idle" /\ Id(r) = t /\ pc[r] \notin AfterSuccess
        BY <3>2
      <3> QED
        BY <1>9, <3>3 DEF Gone, Executing, InFlight
    <2>4. Gone(t)'
      BY <1>9, <2>1, <2>2, <2>3 DEF Gone
    <2> QED
      BY <1>2, <1>9, <2>4 DEF StatusByPlace, Lifecycle!Lost
  <1>10. t \in Queued => \E m \in QueuedMessages : m.id = t
    BY DEF Queued, Ids, QueuedMessages
  <1>11. t \in InHand => loop = "track" /\ hand.id = t
    BY DEF InHand
  <1>12. t \in Executing => \E r \in Permit : pc[r] # "idle" /\ Id(r) = t
    BY DEF Executing, InFlight
  <1> QED
    BY <1>3, <1>4, <1>5, <1>6, <1>7, <1>8, <1>9, <1>10, <1>11, <1>12 DEF Gone

\* enqueue adds the message it was given, and removes none.
LEMMA EnqueueKeeps ==
  ASSUME TypeOK, NEW m \in Message, Enqueue(m)
  PROVE  QueuedMessages' = QueuedMessages \cup {m}
  <1>1. PICK k \in Queue : k = QueueOf[m.id]
    BY ConfigAssumption DEF Message
  <1>2. queues \in [Queue -> Seq(Message)] /\ queues' = [queues EXCEPT ![k] = Append(@, m)]
    BY <1>1 DEF TypeOK, Enqueue
  <1>3. queues'[k] = Append(queues[k], m) /\ queues[k] \in Seq(Message)
    BY <1>2
  <1>4. /\ Len(queues[k]) + 1 \in DOMAIN queues'[k] /\ queues'[k][Len(queues[k]) + 1] = m
        /\ \A i \in DOMAIN queues[k] : i \in DOMAIN queues'[k] /\ queues'[k][i] = queues[k][i]
    BY <1>3
  <1>5. m \in QueuedMessages'
    BY <1>4 DEF QueuedMessages
  <1>6. ASSUME NEW x \in QueuedMessages PROVE x \in QueuedMessages'
    <2>1. PICK q \in Queue : \E i \in DOMAIN queues[q] : x = queues[q][i]
      BY DEF QueuedMessages
    <2>2. PICK i \in DOMAIN queues[q] : x = queues[q][i]
      BY <2>1
    <2>3. i \in DOMAIN queues'[q] /\ x = queues'[q][i]
      <3>1. CASE q = k
        BY <1>4, <2>2, <3>1
      <3>2. CASE q # k
        <4>1. queues'[q] = queues[q]
          BY <1>2, <3>2
        <4> QED
          BY <2>2, <4>1
      <3> QED
        BY <3>1, <3>2
    <2> QED
      BY <2>3 DEF QueuedMessages
  <1> QED
    BY <1>5, <1>6, EnqueueMessages

\* dequeue takes no other message than the one it returns.
LEMMA PopKeeps ==
  ASSUME TypeOK, Pop, NEW x \in QueuedMessages
  PROVE  x = hand' \/ x \in QueuedMessages'
  <1>1. PICK n \in DOMAIN Order :
           /\ queues[Order[n]] # <<>>
           /\ hand' = Head(queues[Order[n]])
           /\ queues' = [queues EXCEPT ![Order[n]] = Tail(@)]
    BY DEF Pop
  <1>2. PICK k \in Queue : k = Order[n]
    BY ConfigAssumption
  <1>3. PICK s \in Seq(Message) : s = queues[k]
    BY DEF TypeOK
  <1>4. s # <<>> /\ hand' = Head(s) /\ queues'[k] = Tail(s)
    BY <1>1, <1>2, <1>3 DEF TypeOK
  <1>5. \A q \in Queue \ {k} : queues'[q] = queues[q]
    BY <1>1, <1>2 DEF TypeOK
  <1>6. \A i \in DOMAIN s : s[i] = hand' \/ (i - 1 \in DOMAIN Tail(s) /\ s[i] = Tail(s)[i - 1])
    BY <1>4
  <1>7. PICK q \in Queue : \E i \in DOMAIN queues[q] : x = queues[q][i]
    BY DEF QueuedMessages
  <1>8. PICK i \in DOMAIN queues[q] : x = queues[q][i]
    BY <1>7
  <1>9. CASE q = k
    <2>1. x = hand' \/ (i - 1 \in DOMAIN queues'[k] /\ x = queues'[k][i - 1])
      BY <1>3, <1>4, <1>6, <1>8, <1>9
    <2> QED
      BY <2>1 DEF QueuedMessages
  <1>10. CASE q # k
    <2>1. i \in DOMAIN queues'[q] /\ x = queues'[q][i]
      BY <1>5, <1>8, <1>10
    <2> QED
      BY <2>1 DEF QueuedMessages
  <1> QED
    BY <1>9, <1>10

\* A step of an execution moves no message but its own and the one it enqueues.
LEMMA ExecuteOthers ==
  ASSUME LifeInv, LifeInv', NEW p \in Permit, ExecuteTask(p),
         NEW t \in Task, t # Id(p), t \in sent' => t \in sent
  PROVE  StatusOf(t)' = StatusOf(t)
  <1>1. /\ CopyInv /\ TypeInv /\ TypeOK /\ WorkflowTyped /\ FlyingPlace
        /\ QueuedPlace' /\ TypeOK'
    BY DEF LifeInv, ResultInv, RetryInv, CopyInv, DrainInv, TypeInv, PlaceInv
  <1>2. /\ pc[p] # "idle" /\ loop' = loop /\ hand' = hand
        /\ \A r \in Permit \ {p} : pc'[r] = pc[r] /\ msg'[r] = msg[r]
        /\ pc'[p] # "idle" => Id(p)' = Id(p)
    BY <1>1, ExecuteFrame
  <1>3. Id(p) \in Task
    BY <1>1, <1>2 DEF TypeOK, Id, Message
  <1>4. dlq' = dlq => DeadLettered' = DeadLettered
    BY DEF DeadLettered, Ids
  <1>5. queues' = queues => QueuedMessages' = QueuedMessages
    BY DEF QueuedMessages
  <1>6. t \in sent <=> t \in sent'
    BY ExecuteSent
  <1>7. (t \in done <=> t \in done') /\ (t \in DeadLettered <=> t \in DeadLettered')
    BY <1>1, <1>4, ExecuteKinds
       DEF KeepsCopies, Requeues, Buries, Succeeds, Drops, ContinuesWith
  <1>8. QueuedMessages \subseteq QueuedMessages'
    <2>1. queues' = queues \/ \E m \in Message : Enqueue(m)
      BY <1>1, ExecuteKinds DEF KeepsCopies, Requeues, Buries, Succeeds, Drops, ContinuesWith
    <2> QED
      BY <1>1, <1>5, <2>1, EnqueueKeeps
  <1>9. ASSUME NEW m \in Message, m.id = t, m \in QueuedMessages'
        PROVE  m \in QueuedMessages
    <2>1. SUFFICES ASSUME NewlyQueued(p, m) PROVE FALSE
      BY <1>1, <1>9, ExecuteMessages
    <2>2. t \in sent
      <3>1. t \in Queued'
        BY <1>9 DEF QueuedMessages, Queued, Ids
      <3> QED
        BY <1>1, <1>6, <3>1 DEF QueuedPlace
    <2>3. CASE pc[p] = "callback" /\ t = ChordCallback[GroupOf[Id(p)]]
      <3>1. GroupOf[Id(p)] \in Group
        BY <1>1, <1>3, <2>3, WorkflowAssumption DEF WorkflowTyped
      <3> QED
        BY <1>1, <2>2, <2>3, <3>1 DEF CopyInv, CallbackFresh, Firing
    <2>4. CASE pc[p] = "chain" /\ t = ChainNext[Id(p)]
      BY <1>1, <1>2, <1>3, <2>2, <2>4 DEF CopyInv, ChainFresh
    <2> QED
      BY <1>9, <2>1, <2>3, <2>4 DEF NewlyQueued
  <1>10. \A r \in Permit : pc[r] # "idle" /\ Id(r) = t <=> pc'[r] # "idle" /\ Id(r)' = t
    BY <1>2 DEF Id
  <1>11. \A r \in Permit : pc[r] # "idle" /\ Id(r) = t => pc'[r] = pc[r] /\ msg'[r] = msg[r]
    BY <1>2
  <1> QED
    BY <1>2, <1>6, <1>7, <1>8, <1>9, <1>10, <1>11, Unmoved

\* A step that changes the status of one message is that step of TaskLifecycle.
LEMMA SetStatus ==
  ASSUME NEW t \in Task, NEW s, StatusOf(t)' = s,
         \A y \in Task \ {t} : StatusOf(y)' = StatusOf(y)
  PROVE  Lifecycle!Set(t, s)
  BY DEF Lifecycle!Set

\* A first enqueue creates the message, after all it depends on.
LEMMA StepCreates ==
  ASSUME LifeInv, LifeInv', NEW t \in Task, t \notin sent, t \in sent', done' = done,
         NEW m \in QueuedMessages', m.id = t, m.retries = 0,
         \A y \in Task \ {t} : StatusOf(y)' = StatusOf(y)
  PROVE  Lifecycle!Next
  <1>1. StatusByPlace /\ StatusByPlace'
    BY PlaceStatus, PlaceStatusNext
  <1>2. StatusOf(t) = Lifecycle!Absent
    BY <1>1 DEF StatusByPlace
  <1>3. StatusOf(t)' = Lifecycle!Waiting(0)
    <2>1. StatusOf(m.id)' = Lifecycle!Waiting(m.retries)
      BY <1>1 DEF StatusByPlace, Lifecycle!Waiting
    <2> QED
      BY <2>1
  <1>4. ASSUME NEW s \in PrereqOf[t] PROVE s \in Task /\ s \in done
    <2>1. s \in Task /\ (ChainNext[s] = t \/ \E g \in Group : ChordCallback[g] = t /\ s \in Members(g))
      BY DEF PrereqOf, Members
    <2>2. FollowInv'
      BY DEF LifeInv, ResultInv
    <2>3. Settled(s)'
      BY <2>1, <2>2 DEF FollowInv
    <2> QED
      BY <2>1, <2>3 DEF Settled
  <1>5. \A s \in PrereqOf[t] : StatusOf(s) = Lifecycle!Success /\ s \in Task
    BY <1>1, <1>4 DEF StatusByPlace
  <1>6. Lifecycle!Set(t, Lifecycle!Waiting(0))
    BY <1>3, SetStatus
  <1>7. Lifecycle!Create(t)
    BY <1>2, <1>5, <1>6 DEF Lifecycle!Create
  <1> QED
    BY <1>7 DEF Lifecycle!Next

\* An execution that ends with its message unsettled and nowhere has lost it.
LEMMA StepLoses ==
  ASSUME LifeInv, LifeInv', NEW p \in Permit, ExecuteTask(p), pc'[p] = "idle",
         pc[p] \notin AfterSuccess, UNCHANGED <<queues, dlq, done, sent>>
  PROVE  Lifecycle!Next
  <1>1. /\ TypeInv /\ TypeOK /\ FlyingPlace /\ HandPlace
    BY DEF LifeInv, ResultInv, RetryInv, CopyInv, DrainInv, TypeInv, PlaceInv
  <1>2. /\ pc[p] # "idle" /\ loop' = loop /\ hand' = hand
        /\ \A r \in Permit \ {p} : pc'[r] = pc[r] /\ msg'[r] = msg[r]
    BY <1>1, ExecuteFrame
  <1>3. StatusByPlace /\ StatusByPlace'
    BY PlaceStatus, PlaceStatusNext
  <1>4. PICK t \in Task : t = Id(p)
    BY <1>1, <1>2 DEF TypeOK, Id, Message
  <1>5. Gone(t)'
    <2>1. Queued' = Queued /\ DeadLettered' = DeadLettered
      BY DEF Queued, DeadLettered, Ids
    <2>2. t \notin InHand'
      BY <1>1, <1>2, <1>4 DEF HandPlace, InHand
    <2>3. t \notin Executing'
      <3>1. \A r \in Permit : pc'[r] # "idle" => Id(r)' # t
        BY <1>1, <1>2, <1>4 DEF FlyingPlace, Id
      <3> QED
        BY <3>1 DEF Executing, InFlight
    <2>4. t \in sent /\ t \notin done \cup DeadLettered \cup Queued
      BY <1>1, <1>2, <1>4 DEF FlyingPlace
    <2> QED
      BY <2>1, <2>2, <2>3, <2>4 DEF Gone
  <1>6. StatusOf(t)' = Lifecycle!Lost
    BY <1>3, <1>5 DEF StatusByPlace, Lifecycle!Lost
  <1>7. StatusOf(t) = Lifecycle!Retry(msg[p].retries) \/ StatusOf(t) = Lifecycle!Active(msg[p].retries)
    BY <1>2, <1>3, <1>4 DEF StatusByPlace
  <1>8. StatusOf(t).phase \in {"waiting", "active", "retry"}
    BY <1>7 DEF Lifecycle!Retry, Lifecycle!Active
  <1>9. \A y \in Task \ {t} : StatusOf(y)' = StatusOf(y)
    BY <1>4, ExecuteOthers
  <1>10. Lifecycle!Set(t, Lifecycle!Lost)
    BY <1>6, <1>9, SetStatus
  <1>11. Lifecycle!Lose(t)
    BY <1>8, <1>10 DEF Lifecycle!Lose
  <1> QED
    BY <1>11 DEF Lifecycle!Next

\* When no status changes, the step is a stutter.
LEMMA SameStatus ==
  ASSUME \A y \in Task : StatusOf(y)' = StatusOf(y)
  PROVE  StatusMap' = StatusMap
  BY DEF StatusMap

\* The status of the message an execution has.
LEMMA FlyingStatus ==
  ASSUME LifeInv, NEW p \in Permit, pc[p] # "idle"
  PROVE  /\ Id(p) \in Task /\ msg[p].id = Id(p) /\ msg[p].retries \in Nat
         /\ pc[p] \in AfterSuccess => StatusOf(Id(p)) = Lifecycle!Success
         /\ pc[p] \in {"backoff", "requeue"} =>
               /\ StatusOf(Id(p)) = Lifecycle!Retry(msg[p].retries)
               /\ msg[p].retries \in 1..MaxRetries[Id(p)]
         /\ pc[p] \notin {"backoff", "requeue"} \cup AfterSuccess =>
               /\ StatusOf(Id(p)) = Lifecycle!Active(msg[p].retries)
               /\ msg[p].retries \in 0..MaxRetries[Id(p)]
  <1>1. TypeOK /\ FlyingPlace /\ ExecInv /\ BackoffInv /\ StatusByPlace
    BY PlaceStatus DEF LifeInv, ResultInv, RetryInv, CopyInv, DrainInv, TypeInv, PlaceInv
  <1>2. Id(p) \in Task /\ msg[p].id = Id(p) /\ msg[p].retries \in Nat /\ pc[p] \in ExecStates
    BY <1>1 DEF TypeOK, Id, Message
  <1>3. MaxRetries[Id(p)] \in Nat
    BY <1>2, ConfigAssumption
  <1>4. pc[p] \in AfterSuccess => StatusOf(Id(p)) = Lifecycle!Success
    BY <1>1, <1>2 DEF FlyingPlace, StatusByPlace
  <1>5. pc[p] \notin AfterSuccess => msg[p].retries <= MaxRetries[Id(p)]
    <2>1. pc[p] \notin AfterSuccess => pc[p] \in BeforeRun \cup {"fail", "bury", "dlq_push"}
      BY <1>2 DEF ExecStates, AfterSuccess, BeforeRun
    <2>2. pc[p] \in BeforeRun => msg[p].retries <= MaxRetries[Id(p)]
      BY <1>1, <1>2 DEF ExecInv, HasBudget
    <2>3. pc[p] \in {"fail", "bury", "dlq_push"} => msg[p].retries <= MaxRetries[Id(p)]
      BY <1>1, <1>2, <1>3 DEF ExecInv
    <2> QED
      BY <2>1, <2>2, <2>3
  <1>6. pc[p] \in {"backoff", "requeue"} =>
           msg[p].retries >= 1 /\ StatusOf(Id(p)) = Lifecycle!Retry(msg[p].retries)
    BY <1>1 DEF BackoffInv, StatusByPlace
  <1>7. pc[p] \notin {"backoff", "requeue"} \cup AfterSuccess =>
           StatusOf(Id(p)) = Lifecycle!Active(msg[p].retries)
    BY <1>1 DEF StatusByPlace
  <1>8. pc[p] \in {"backoff", "requeue"} => pc[p] \notin AfterSuccess
    BY DEF AfterSuccess
  <1> QED
    BY <1>2, <1>3, <1>4, <1>5, <1>6, <1>7, <1>8

\* The same in the next state, for a message that has not changed its id.
LEMMA FlyingStatusNext ==
  ASSUME LifeInv', NEW p \in Permit, pc'[p] # "idle", Id(p)' = Id(p)
  PROVE  /\ pc'[p] \in AfterSuccess => StatusOf(Id(p))' = Lifecycle!Success
         /\ pc'[p] \in {"backoff", "requeue"} => StatusOf(Id(p))' = Lifecycle!Retry(msg'[p].retries)
         /\ pc'[p] \notin {"backoff", "requeue"} \cup AfterSuccess =>
               StatusOf(Id(p))' = Lifecycle!Active(msg'[p].retries)
  <1>1. StatusByPlace' /\ FlyingPlace' /\ TypeOK'
    BY PlaceStatusNext DEF LifeInv, ResultInv, RetryInv, CopyInv, DrainInv, TypeInv, PlaceInv
  <1>2. Id(p)' \in Task
    BY <1>1 DEF TypeOK, Id, Message
  <1>3. pc'[p] \in AfterSuccess => Id(p)' \in done'
    BY <1>1 DEF FlyingPlace
  <1> QED
    BY <1>1, <1>2, <1>3 DEF StatusByPlace, Lifecycle!Success, Lifecycle!Retry, Lifecycle!Active

\* An execution that goes on without a verdict on its message changes no status.
LEMMA StepStutters ==
  ASSUME LifeInv, LifeInv', NEW p \in Permit, ExecuteTask(p), sent' = sent,
         \/ pc[p] \in AfterSuccess
         \/ /\ pc'[p] # "idle" /\ msg'[p] = msg[p]
            /\ \/ /\ pc[p] \in {"backoff", "requeue"}
                  /\ pc'[p] \in {"backoff", "requeue"}
               \/ /\ pc[p] \notin {"backoff", "requeue"} \cup AfterSuccess
                  /\ pc'[p] \notin {"backoff", "requeue"} \cup AfterSuccess
  PROVE  StatusMap' = StatusMap
  <1>1. TypeInv /\ FlyingPlace /\ FlyingPlace'
    BY DEF LifeInv, ResultInv, RetryInv, CopyInv, DrainInv, TypeInv, PlaceInv
  <1>2. pc[p] # "idle" /\ (pc'[p] # "idle" => Id(p)' = Id(p))
    BY <1>1, ExecuteFrame
  <1>3. PICK t \in Task : t = Id(p)
    BY <1>2, FlyingStatus
  <1>4. \A y \in Task \ {t} : StatusOf(y)' = StatusOf(y)
    BY <1>3, ExecuteOthers
  <1>5. StatusOf(t)' = StatusOf(t)
    <2>1. CASE pc[p] \in AfterSuccess
      <3>1. t \in done /\ done \subseteq done'
        BY <1>1, <1>2, <1>3, <2>1, ExecuteKinds
           DEF FlyingPlace, KeepsCopies, Requeues, Buries, Succeeds, Drops, ContinuesWith
      <3>2. StatusByPlace /\ StatusByPlace'
        BY PlaceStatus, PlaceStatusNext
      <3> QED
        BY <3>1, <3>2 DEF StatusByPlace, Lifecycle!Success
    <2>2. CASE /\ pc'[p] # "idle" /\ msg'[p] = msg[p]
               /\ pc[p] \in {"backoff", "requeue"} /\ pc'[p] \in {"backoff", "requeue"}
      <3>1. StatusOf(Id(p))' = Lifecycle!Retry(msg'[p].retries) /\ Id(p)' = Id(p)
        BY <1>2, <2>2, FlyingStatusNext
      <3>2. StatusOf(t)' = Lifecycle!Retry(msg'[p].retries)
        BY <1>3, <3>1
      <3> QED
        BY <1>2, <1>3, <2>2, <3>2, FlyingStatus
    <2>3. CASE /\ pc'[p] # "idle" /\ msg'[p] = msg[p]
               /\ pc[p] \notin {"backoff", "requeue"} \cup AfterSuccess
               /\ pc'[p] \notin {"backoff", "requeue"} \cup AfterSuccess
      <3>1. StatusOf(Id(p))' = Lifecycle!Active(msg'[p].retries) /\ Id(p)' = Id(p)
        BY <1>2, <2>3, FlyingStatusNext
      <3>2. StatusOf(t)' = Lifecycle!Active(msg'[p].retries)
        BY <1>3, <3>1
      <3> QED
        BY <1>2, <1>3, <2>3, <3>2, FlyingStatus
    <2> QED
      BY <2>1, <2>2, <2>3
  <1> QED
    BY <1>4, <1>5, SameStatus

\* A message handed back to the queues waits again, with the retries it has.
LEMMA StepWaits ==
  ASSUME LifeInv, LifeInv', NEW p \in Permit, ExecuteTask(p), sent' = sent, Enqueue(msg[p])
  PROVE  /\ \A t \in Task : t = Id(p) => StatusOf(t)' = Lifecycle!Waiting(msg[p].retries)
         /\ \A y \in Task \ {Id(p)} : StatusOf(y)' = StatusOf(y)
  <1>1. TypeInv /\ TypeOK
    BY DEF LifeInv, ResultInv, RetryInv, CopyInv, DrainInv, TypeInv, PlaceInv
  <1>2. pc[p] # "idle"
    BY <1>1, ExecuteFrame
  <1>3. PICK m \in Message : m = msg[p]
    BY <1>1, <1>2 DEF TypeOK
  <1>4. m \in QueuedMessages'
    BY <1>1, <1>3, EnqueueKeeps
  <1>5. StatusByPlace'
    BY PlaceStatusNext
  <1>6. StatusOf(m.id)' = Lifecycle!Waiting(m.retries)
    BY <1>4, <1>5 DEF StatusByPlace, Lifecycle!Waiting
  <1>7. PICK t \in Task : t = Id(p) /\ t = m.id
    BY <1>2, <1>3, FlyingStatus
  <1>8. StatusOf(t)' = Lifecycle!Waiting(m.retries)
    BY <1>6, <1>7
  <1>9. \A y \in Task : y # Id(p) => StatusOf(y)' = StatusOf(y)
    BY ExecuteOthers
  <1> QED
    BY <1>3, <1>7, <1>8, <1>9

\* Every step of an execution is a step of its message's life, or changes none.
LEMMA ExecuteStep ==
  ASSUME LifeInv, LifeInv', NEW p \in Permit, ExecuteTask(p)
  PROVE  [Lifecycle!Next]_StatusMap
  <1>1. TypeInv /\ TypeOK /\ ExecInv
    BY DEF LifeInv, ResultInv, RetryInv, CopyInv, DrainInv, TypeInv
  <1>2. pc[p] # "idle" /\ (pc'[p] # "idle" => Id(p)' = Id(p))
    BY <1>1, ExecuteFrame
  <1>3. pc \in [Permit -> ExecStates] /\ msg \in [Permit -> Message \cup {None}]
    BY <1>1 DEF TypeOK
  <1>4. PICK t \in Task : t = Id(p)
    BY <1>2, FlyingStatus
  <1>5. PICK n \in Nat : n = msg[p].retries
    BY <1>2, FlyingStatus
  <1>6. ASSUME sent' = sent PROVE \A y \in Task \ {t} : StatusOf(y)' = StatusOf(y)
    BY <1>4, <1>6, ExecuteOthers
  <1>7. pc[p] \notin {"backoff", "requeue"} \cup AfterSuccess =>
           StatusOf(t) = Lifecycle!Active(n) /\ n \in 0..MaxRetries[t]
    BY <1>2, <1>4, <1>5, FlyingStatus
  <1>8. pc[p] \in {"backoff", "requeue"} =>
           StatusOf(t) = Lifecycle!Retry(n) /\ n \in 1..MaxRetries[t]
    BY <1>2, <1>4, <1>5, FlyingStatus
  <1> USE DEF Goto, Return, AfterSuccess, brokerVars, histVars
  <1>9. CASE EtaGuard(p) \/ Before(p) \/ DispatchErr(p)
    <2>1. /\ sent' = sent /\ msg' = msg /\ pc[p] \in {"start", "dispatch"}
          /\ pc'[p] \in {"resched", "dispatch", "fail"}
      BY <1>3, <1>9 DEF EtaGuard, Before, DispatchErr
    <2> QED
      BY <2>1, StepStutters
  <1>10. CASE Ack(p) \/ Store(p) \/ CompleteGroupMember(p) \/ GetGroupResults(p)
    <2>1. sent' = sent /\ pc[p] \in AfterSuccess
      BY <1>10 DEF Ack, Store, CompleteGroupMember, GetGroupResults
    <2> QED
      BY <2>1, StepStutters
  <1>11. CASE EnqueueCallback(p) \/ EnqueueChainNext(p)
    <2>1. CASE sent' = sent
      <3>1. pc[p] \in AfterSuccess
        BY <1>11 DEF EnqueueCallback, EnqueueChainNext
      <3> QED
        BY <2>1, <3>1, StepStutters
    <2>2. ASSUME NEW c \in Task, NEW input \in Seq(Task), Enqueue(NewMessage(c, input)),
                 sent' = sent \cup {c}, sent' # sent
          PROVE  Lifecycle!Next
      <3>1. PICK m \in Message : m = NewMessage(c, input) /\ m.id = c /\ m.retries = 0
        BY NewMessageType
      <3>2. m \in QueuedMessages'
        BY <1>1, <2>2, <3>1, EnqueueKeeps
      <3>3. done' = done /\ c \notin sent
        BY <1>11, <2>2 DEF EnqueueCallback, EnqueueChainNext
      <3>4. \A y \in Task : y \notin {c, t} => StatusOf(y)' = StatusOf(y)
        BY <1>4, <2>2, ExecuteOthers
      <3>5. StatusOf(t)' = StatusOf(t)
        <4>1. StatusByPlace /\ StatusByPlace' /\ FlyingPlace
          BY PlaceStatus, PlaceStatusNext
             DEF LifeInv, ResultInv, RetryInv, CopyInv, PlaceInv
        <4>2. t \in done /\ t \in done'
          BY <1>2, <1>4, <1>11, <3>3, <4>1 DEF EnqueueCallback, EnqueueChainNext, FlyingPlace
        <4> QED
          BY <4>1, <4>2 DEF StatusByPlace, Lifecycle!Success
      <3>6. \A y \in Task \ {c} : StatusOf(y)' = StatusOf(y)
        BY <3>4, <3>5
      <3> QED
        BY <2>2, <3>1, <3>2, <3>3, <3>6, StepCreates
    <2>3. sent' = sent \/ \E c \in Task, input \in Seq(Task) :
             Enqueue(NewMessage(c, input)) /\ sent' = sent \cup {c}
      <3>1. CASE EnqueueCallback(p)
        <4>1. /\ ChordCallback[GroupOf[Id(p)]] \in Task /\ gathered[p] \in Seq(Task)
              /\ Continue(NewMessage(ChordCallback[GroupOf[Id(p)]], gathered[p]))
          BY <1>1, <1>4, <3>1, WorkflowAssumption DEF EnqueueCallback, TypeInv, TypeOK, WorkflowTyped
        <4> QED
          BY <4>1, NewMessageType DEF Continue
      <3>2. CASE EnqueueChainNext(p)
        <4>1. /\ ChainNext[Id(p)] \in Task /\ <<Id(p)>> \in Seq(Task)
              /\ Continue(NewMessage(ChainNext[Id(p)], <<Id(p)>>))
          BY <1>1, <1>4, <3>2, WorkflowAssumption DEF EnqueueChainNext, TypeInv, WorkflowTyped
        <4> QED
          BY <4>1, NewMessageType DEF Continue
      <3> QED
        BY <1>11, <3>1, <3>2
    <2> QED
      BY <2>1, <2>2, <2>3
  <1>12. CASE Reschedule(p)
    <2>1. sent' = sent /\ pc[p] = "resched" /\ pc'[p] = "idle" /\ UNCHANGED <<dlq, done>>
      BY <1>3, <1>12 DEF Reschedule
    <2>2. CASE Enqueue(msg[p])
      <3>1. Lifecycle!Set(t, Lifecycle!Waiting(n))
        BY <1>4, <1>5, <2>1, <2>2, StepWaits, SetStatus
      <3>2. Lifecycle!Defer(t)
        BY <1>7, <2>1, <3>1 DEF Lifecycle!Defer
      <3> QED
        BY <3>2 DEF Lifecycle!Next
    <2>3. CASE queues' = queues
      BY <2>1, <2>3, StepLoses
    <2> QED
      BY <1>12, <2>2, <2>3 DEF Reschedule
  <1>13. CASE DispatchOk(p)
    <2>1. sent' = sent /\ pc[p] = "dispatch" /\ pc'[p] = "ack"
      BY <1>3, <1>13 DEF DispatchOk
    <2>2. StatusOf(t)' = Lifecycle!Success
      <3>1. StatusOf(Id(p))' = Lifecycle!Success /\ Id(p)' = Id(p)
        BY <1>2, <2>1, FlyingStatusNext
      <3> QED
        BY <1>4, <3>1
    <2>3. Lifecycle!Set(t, Lifecycle!Success)
      BY <1>6, <2>1, <2>2, SetStatus
    <2>4. Lifecycle!Succeed(t)
      BY <1>7, <2>1, <2>3 DEF Lifecycle!Succeed
    <2> QED
      BY <2>4 DEF Lifecycle!Next
  <1>14. CASE DispatchPanic(p)
    <2>1. /\ pc[p] = "dispatch" /\ pc'[p] = "idle" /\ UNCHANGED <<queues, dlq, done, sent>>
      BY <1>3, <1>14 DEF DispatchPanic
    <2> QED
      BY <2>1, StepLoses
  <1>15. CASE HandleFailure(p)
    <2>1. sent' = sent /\ pc[p] = "fail"
      BY <1>15 DEF HandleFailure
    <2>2. CASE MayRetry(msg[p])
      <3>1. pc'[p] = "backoff" /\ msg'[p] = Retried(msg[p]) /\ msg[p] \in Message
        BY <1>1, <1>2, <1>3, <1>15, <2>2 DEF HandleFailure, TypeOK
      <3>2. msg'[p].retries = n + 1 /\ n < MaxRetries[t]
        BY <1>2, <1>4, <1>5, <2>2, <3>1, RetriedType, FlyingStatus DEF MayRetry
      <3>3. StatusOf(t)' = Lifecycle!Retry(n + 1)
        <4>1. StatusOf(Id(p))' = Lifecycle!Retry(msg'[p].retries) /\ Id(p)' = Id(p)
          BY <1>2, <3>1, FlyingStatusNext
        <4> QED
          BY <1>4, <3>2, <4>1
      <3>4. Lifecycle!Set(t, Lifecycle!Retry(n + 1))
        BY <1>6, <2>1, <3>3, SetStatus
      <3>5. Lifecycle!Fail(t)
        BY <1>7, <2>1, <3>2, <3>4 DEF Lifecycle!Fail
      <3> QED
        BY <3>5 DEF Lifecycle!Next
    <2>3. CASE ~MayRetry(msg[p])
      <3>1. pc'[p] = "bury" /\ msg' = msg
        BY <1>3, <1>15, <2>3 DEF HandleFailure
      <3> QED
        BY <2>1, <3>1, StepStutters
    <2> QED
      BY <2>2, <2>3
  <1>16. CASE Nack(p)
    <2>1. pc[p] = "backoff" /\ UNCHANGED <<queues, dlq, done, sent>>
      BY <1>16 DEF Nack
    <2>2. (pc'[p] = "requeue" /\ msg' = msg) \/ pc'[p] = "idle"
      BY <1>3, <1>16 DEF Nack
    <2> QED
      BY <2>1, <2>2, StepStutters, StepLoses
  <1>17. CASE Requeue(p)
    <2>1. sent' = sent /\ pc[p] = "requeue" /\ Enqueue(msg[p])
      BY <1>17 DEF Requeue
    <2>2. Lifecycle!Set(t, Lifecycle!Waiting(n))
      BY <1>4, <1>5, <2>1, StepWaits, SetStatus
    <2>3. Lifecycle!Requeue(t)
      BY <1>8, <2>1, <2>2 DEF Lifecycle!Requeue
    <2> QED
      BY <2>3 DEF Lifecycle!Next
  <1>18. CASE DeadLetter(p)
    <2>1. pc[p] = "bury" /\ UNCHANGED <<queues, dlq, done, sent>>
      BY <1>18 DEF DeadLetter
    <2>2. (pc'[p] = "dlq_push" /\ msg' = msg) \/ pc'[p] = "idle"
      BY <1>3, <1>18 DEF DeadLetter
    <2> QED
      BY <2>1, <2>2, StepStutters, StepLoses
  <1>19. CASE DlqPush(p)
    <2>1. sent' = sent /\ pc[p] = "dlq_push"
      BY <1>19 DEF DlqPush
    <2>2. t \in DeadLettered'
      BY <1>1, <1>2, <1>4, <1>19, DlqIds DEF DlqPush, TypeOK
    <2>3. StatusOf(t)' = Lifecycle!Dead
      BY <2>2, PlaceStatusNext DEF StatusByPlace, Lifecycle!Dead
    <2>4. Lifecycle!Set(t, Lifecycle!Dead)
      BY <1>6, <2>1, <2>3, SetStatus
    <2>5. n = MaxRetries[t]
      BY <1>1, <1>4, <1>5, <2>1 DEF ExecInv
    <2>6. Lifecycle!Bury(t)
      BY <1>7, <2>1, <2>4, <2>5 DEF Lifecycle!Bury
    <2> QED
      BY <2>6 DEF Lifecycle!Next
  <1> QED
    BY <1>9, <1>10, <1>11, <1>12, <1>13, <1>14, <1>15, <1>16, <1>17, <1>18, <1>19
       DEF ExecuteTask

\* A step of the loop starts a message, loses the one in hand, or changes no
\* status.
LEMMA RunStep ==
  ASSUME LifeInv, LifeInv', Run
  PROVE  [Lifecycle!Next]_StatusMap
  <1>1. /\ TypeOK /\ TypeOK' /\ PermitOwner /\ FlyingPlace /\ HandPlace /\ WaitingInv
        /\ StatusByPlace /\ StatusByPlace'
    BY PlaceStatus, PlaceStatusNext
       DEF LifeInv, ResultInv, RetryInv, CopyInv, DrainInv, TypeInv, PlaceInv
  <1> USE DEF brokerVars, loopVars, execVars, backendVars, envVars, histVars
  <1>2. UNCHANGED <<dlq, sent, done>>
    BY DEF Run, CheckCancel, Acquire, Pop, TrackAndSpawn, FindNothing, Notified,
       DequeueTimeout, DequeueError, EndBackoff, CancelAcquire, CancelDequeue, Drained,
       DrainTimeout
  <1>3. DeadLettered' = DeadLettered
    BY <1>2 DEF DeadLettered, Ids
  <1>4. queues' = queues => QueuedMessages' = QueuedMessages /\ Queued' = Queued
    BY DEF QueuedMessages, Queued, Ids
  <1>5. pc' = pc /\ msg' = msg => \A r \in Permit : Id(r)' = Id(r)
    BY DEF Id
  <1>6. CASE UNCHANGED <<queues, pc, msg>> /\ loop # "track" /\ loop' # "track"
    <2>1. \A y \in Task : StatusOf(y)' = StatusOf(y)
      BY <1>2, <1>3, <1>4, <1>5, <1>6, Unmoved
    <2> QED
      BY <2>1, SameStatus
  <1>7. CASE Pop
    <2>1. hand' \in QueuedMessages /\ QueuedMessages' \subseteq QueuedMessages
      BY <1>1, <1>7, PopMessages
    <2>2. loop # "track" /\ loop' = "track" /\ pc' = pc /\ msg' = msg
      BY <1>7 DEF Pop
    <2>3. PICK m \in Message : m = hand' /\ m \in QueuedMessages
      BY <1>1, <2>1, QueuedMessagesType
    <2>4. StatusOf(m.id) = Lifecycle!Waiting(m.retries)
      BY <1>1, <2>3 DEF StatusByPlace
    <2>5. StatusOf(m.id)' = Lifecycle!Waiting(m.retries)
      <3>1. StatusOf(hand.id)' = Lifecycle!Waiting(hand'.retries)
        BY <1>1, <2>2 DEF StatusByPlace, Lifecycle!Waiting
      <3> QED
        BY <2>3, <3>1
    <2>6. ASSUME NEW y \in Task, y # m.id PROVE StatusOf(y)' = StatusOf(y)
      <3>1. \A x \in Message : x.id = y => (x \in QueuedMessages <=> x \in QueuedMessages')
        BY <1>1, <1>7, <2>1, <2>3, <2>6, PopKeeps
      <3> QED
        BY <1>2, <1>3, <1>5, <2>2, <2>3, <2>6, <3>1, Unmoved
    <2>7. \A y \in Task : StatusOf(y)' = StatusOf(y)
      BY <2>4, <2>5, <2>6
    <2> QED
      BY <2>7, SameStatus
  <1>8. CASE TrackAndSpawn
    <2>1. PICK k \in Permit : k = grant
      BY <1>1, <1>8 DEF TrackAndSpawn, TypeOK
    <2>2. /\ pc[k] = "idle" /\ pc'[k] = "start" /\ msg'[k] = hand
          /\ \A r \in Permit \ {k} : pc'[r] = pc[r] /\ msg'[r] = msg[r]
      BY <1>1, <1>8, <2>1 DEF TrackAndSpawn, PermitOwner, TypeOK
    <2>3. loop = "track" /\ loop' = "check" /\ queues' = queues
      BY <1>8 DEF TrackAndSpawn
    <2>4. PICK m \in Message : m = hand
      BY <1>1, <2>3 DEF TypeOK
    <2>5. m.id \in Task /\ m.retries \in 0..MaxRetries[m.id]
      BY <1>1, <2>3, <2>4, ConfigAssumption DEF Message, WaitingInv, HasBudget
    <2>6. StatusOf(m.id) = Lifecycle!Waiting(m.retries)
      BY <1>1, <2>3, <2>4 DEF StatusByPlace
    <2>7. StatusOf(m.id)' = Lifecycle!Active(m.retries)
      <3>1. StatusOf(Id(k))' = Lifecycle!Active(msg'[k].retries)
        BY <1>1, <2>2 DEF StatusByPlace, Lifecycle!Active, AfterSuccess
      <3>2. Id(k)' = m.id /\ msg'[k] = m
        BY <2>2, <2>4 DEF Id
      <3> QED
        BY <3>1, <3>2
    <2>8. ASSUME NEW y \in Task, y # m.id PROVE StatusOf(y)' = StatusOf(y)
      <3>1. \A r \in Permit : pc[r] # "idle" /\ Id(r) = y <=> pc'[r] # "idle" /\ Id(r)' = y
        BY <2>2, <2>4, <2>8 DEF Id
      <3>2. \A r \in Permit : pc[r] # "idle" /\ Id(r) = y => pc'[r] = pc[r] /\ msg'[r] = msg[r]
        BY <2>2
      <3> QED
        BY <1>2, <1>3, <1>4, <2>3, <2>4, <2>8, <3>1, <3>2, Unmoved
    <2>9. Lifecycle!Set(m.id, Lifecycle!Active(m.retries))
      BY <2>5, <2>7, <2>8, SetStatus
    <2>10. Lifecycle!Start(m.id)
      BY <2>5, <2>6, <2>9 DEF Lifecycle!Start
    <2> QED
      BY <2>5, <2>10 DEF Lifecycle!Next
  <1>9. CASE CancelDequeue
    <2>1. CASE loop # "track"
      BY <1>6, <1>9, <2>1 DEF CancelDequeue, DropPermit
    <2>2. CASE loop = "track"
      <3>1. UNCHANGED <<queues, pc, msg>> /\ loop' = "drain"
        BY <1>9 DEF CancelDequeue, DropPermit
      <3>2. PICK m \in Message : m = hand
        BY <1>1, <2>2 DEF TypeOK
      <3>3. m.id \in Task
        BY DEF Message
      <3>4. StatusOf(m.id) = Lifecycle!Waiting(m.retries)
        BY <1>1, <2>2, <3>2 DEF StatusByPlace
      <3>5. Gone(m.id)'
        <4>1. m.id \notin InHand'
          BY <3>1 DEF InHand
        <4>2. m.id \notin Executing'
          BY <1>1, <1>5, <2>2, <3>1, <3>2 DEF HandPlace, Executing, InFlight
        <4>3. m.id \in sent' /\ m.id \notin done' \cup DeadLettered' \cup Queued'
          BY <1>1, <1>2, <1>3, <1>4, <2>2, <3>1, <3>2 DEF HandPlace
        <4> QED
          BY <4>1, <4>2, <4>3 DEF Gone
      <3>6. StatusOf(m.id)' = Lifecycle!Lost
        BY <1>1, <3>3, <3>5 DEF StatusByPlace, Lifecycle!Lost
      <3>7. ASSUME NEW y \in Task, y # m.id PROVE StatusOf(y)' = StatusOf(y)
        BY <1>2, <1>3, <1>4, <1>5, <2>2, <3>1, <3>2, <3>7, Unmoved
      <3>8. Lifecycle!Set(m.id, Lifecycle!Lost)
        BY <3>3, <3>6, <3>7, SetStatus
      <3>9. Lifecycle!Lose(m.id)
        BY <3>3, <3>4, <3>8 DEF Lifecycle!Lose, Lifecycle!Waiting
      <3> QED
        BY <3>3, <3>9 DEF Lifecycle!Next
    <2> QED
      BY <2>1, <2>2
  <1>10. CASE \/ CheckCancel \/ Acquire \/ FindNothing \/ Notified \/ DequeueTimeout
              \/ DequeueError \/ EndBackoff \/ CancelAcquire \/ Drained \/ DrainTimeout
    BY <1>6, <1>10 DEF CheckCancel, Acquire, FindNothing, Notified, DequeueTimeout,
       DequeueError, EndBackoff, CancelAcquire, Drained, DrainTimeout, DropPermit
  <1> QED
    BY <1>7, <1>8, <1>9, <1>10 DEF Run

\* A submission creates the message.
LEMMA SubmitStep ==
  ASSUME LifeInv, LifeInv', NEW t \in Task, Submit(t)
  PROVE  Lifecycle!Next
  <1>1. TypeOK
    BY DEF LifeInv, ResultInv, RetryInv, CopyInv, DrainInv, TypeInv
  <1>2. /\ UNCHANGED <<loop, hand, pc, msg, dlq, done>>
        /\ sent' = sent \cup {t} /\ t \notin sent /\ Enqueue(NewMessage(t, <<>>))
    BY DEF Submit, loopVars, execVars
  <1>3. <<>> \in Seq(Task)
    OBVIOUS
  <1>4. PICK m \in Message : m = NewMessage(t, <<>>) /\ m.id = t /\ m.retries = 0
    BY <1>3, NewMessageType
  <1>5. QueuedMessages' = QueuedMessages \cup {m}
    BY <1>1, <1>2, <1>4, EnqueueKeeps
  <1>6. DeadLettered' = DeadLettered
    BY <1>2 DEF DeadLettered, Ids
  <1>7. \A r \in Permit : Id(r)' = Id(r)
    BY <1>2 DEF Id
  <1>8. ASSUME NEW y \in Task, y # t PROVE StatusOf(y)' = StatusOf(y)
    <2>1. \A x \in Message : x.id = y => (x \in QueuedMessages <=> x \in QueuedMessages')
      BY <1>4, <1>5, <1>8
    <2> QED
      BY <1>2, <1>6, <1>7, <1>8, <2>1, Unmoved
  <1> QED
    BY <1>2, <1>4, <1>5, <1>8, StepCreates

\* Only handle_failure enters the backoff, and it has counted the retry.
LEMMA NextLife ==
  ASSUME LifeInv, [Next]_vars
  PROVE  LifeInv'
  <1>1. ResultInv'
    BY NextResults DEF LifeInv
  <1>2. TypeInv /\ TypeOK /\ BackoffInv
    BY DEF LifeInv, ResultInv, RetryInv, CopyInv, DrainInv, TypeInv
  <1>3. CASE pc' = pc /\ msg' = msg
    BY <1>1, <1>2, <1>3 DEF LifeInv, BackoffInv
  <1>4. CASE Run
    <2>1. CASE TrackAndSpawn
      <3>1. \A r \in Permit : pc'[r] = "start" \/ (pc'[r] = pc[r] /\ msg'[r] = msg[r])
        BY <1>2, <2>1 DEF TrackAndSpawn, TypeOK
      <3> QED
        BY <1>1, <1>2, <3>1 DEF LifeInv, BackoffInv
    <2>2. CASE ~TrackAndSpawn
      BY <1>3, <1>4, <2>2 DEF Run, CheckCancel, Acquire, Pop, FindNothing, Notified,
         DequeueTimeout, DequeueError, EndBackoff, CancelAcquire, CancelDequeue, Drained,
         DrainTimeout, execVars
    <2> QED
      BY <2>1, <2>2
  <1>5. ASSUME NEW p \in Permit, ExecuteTask(p) PROVE LifeInv'
    <2>1. /\ pc[p] # "idle" /\ msg[p] \in Message
          /\ \A r \in Permit \ {p} : pc'[r] = pc[r] /\ msg'[r] = msg[r]
      BY <1>2, <1>5, ExecuteFrame DEF TypeOK
    <2>2. pc \in [Permit -> ExecStates] /\ msg \in [Permit -> Message \cup {None}]
      BY <1>2 DEF TypeOK
    <2>3. pc'[p] \in {"backoff", "requeue"} =>
             \/ pc[p] = "backoff" /\ msg'[p] = msg[p]
             \/ msg'[p] = Retried(msg[p])
      <3> USE DEF Goto, Return
      <3>1. CASE HandleFailure(p) \/ Nack(p)
        BY <2>2, <3>1 DEF HandleFailure, Nack
      <3>2. CASE CompleteGroupMember(p)
        <4>1. Goto(p, "gather") \/ Return(p) \/ Goto(p, "chain")
          BY <3>2, ProceedChain DEF CompleteGroupMember
        <4> QED
          BY <2>2, <4>1
      <3>3. CASE Ack(p) \/ Store(p) \/ EnqueueCallback(p)
        BY <2>2, <3>3, ProceedChain, ProceedGroup DEF Ack, Store, EnqueueCallback, Proceed
      <3>4. CASE \/ EtaGuard(p) \/ Reschedule(p) \/ Before(p) \/ DispatchOk(p) \/ DispatchErr(p)
                 \/ DispatchPanic(p) \/ GetGroupResults(p) \/ EnqueueChainNext(p) \/ Requeue(p)
                 \/ DeadLetter(p) \/ DlqPush(p)
        BY <2>2, <3>4 DEF EtaGuard, Reschedule, Before, DispatchOk, DispatchErr, DispatchPanic,
           GetGroupResults, EnqueueChainNext, Requeue, DeadLetter, DlqPush
      <3> QED
        BY <1>5, <3>1, <3>2, <3>3, <3>4 DEF ExecuteTask
    <2>4. Retried(msg[p]).retries >= 1
      <3>1. msg[p].retries \in Nat /\ Retried(msg[p]).retries = msg[p].retries + 1
        BY <2>1, RetriedType DEF Message
      <3> QED
        BY <3>1
    <2> QED
      BY <1>1, <1>2, <2>1, <2>3, <2>4 DEF LifeInv, BackoffInv
  <1>6. CASE (\E t \in Task : Submit(t) \/ EtaPasses(t)) \/ Cancel \/ UNCHANGED vars
    BY <1>3, <1>6 DEF Submit, EtaPasses, Cancel, vars, execVars
  <1> QED
    BY <1>4, <1>5, <1>6 DEF Next

\* Every behaviour of the worker is, message by message, one of TaskLifecycle:
\* retries are counted one at a time up to the budget, nothing leaves success
\* or the dead-letter queue, and no continuation precedes what it depends on.
THEOREM WorkerImplementsLifecycle == Spec => ImplementsLifecycle
  <1>1. Init => LifeInv
    BY InitResults DEF LifeInv, Init, BackoffInv
  <1>2. LifeInv /\ [Next]_vars => LifeInv'
    BY NextLife
  <1>3. Init => Lifecycle!Init
    <2> SUFFICES ASSUME Init PROVE Lifecycle!Init
      OBVIOUS
    <2>1. \A t \in Task : StatusOf(t) = Lifecycle!Absent
      BY <1>1, PlaceStatus DEF Init, StatusByPlace
    <2> QED
      BY <2>1 DEF Lifecycle!Init
  <1>4. LifeInv /\ [Next]_vars => [Lifecycle!Next]_StatusMap
    <2> SUFFICES ASSUME LifeInv, [Next]_vars PROVE [Lifecycle!Next]_StatusMap
      OBVIOUS
    <2>1. LifeInv'
      BY NextLife
    <2>2. ASSUME UNCHANGED <<queues, dlq, loop, hand, pc, msg, sent, done>>
          PROVE  StatusMap' = StatusMap
      <3>1. UNCHANGED <<QueuedMessages, DeadLettered>> /\ \A r \in Permit : Id(r)' = Id(r)
        BY <2>2 DEF QueuedMessages, DeadLettered, Ids, Id
      <3>2. \A y \in Task : StatusOf(y)' = StatusOf(y)
        BY <2>1, <2>2, <3>1, Unmoved
      <3> QED
        BY <3>2, SameStatus
    <2>3. CASE (\E t \in Task : EtaPasses(t)) \/ Cancel \/ UNCHANGED vars
      <3>1. UNCHANGED <<queues, dlq, loop, hand, pc, msg, sent, done>>
        BY <2>3 DEF EtaPasses, Cancel, vars, brokerVars, loopVars, execVars, histVars
      <3> QED
        BY <2>2, <3>1
    <2>4. ASSUME NEW t \in Task, Submit(t) PROVE Lifecycle!Next
      BY <2>1, <2>4, SubmitStep
    <2>5. CASE Run
      BY <2>1, <2>5, RunStep
    <2>6. ASSUME NEW p \in Permit, ExecuteTask(p) PROVE [Lifecycle!Next]_StatusMap
      BY <2>1, <2>6, ExecuteStep
    <2> QED
      BY <2>3, <2>4, <2>5, <2>6 DEF Next
  <1> QED
    BY <1>1, <1>2, <1>3, <1>4, PTL DEF Spec, ImplementsLifecycle, Lifecycle!Spec, StatusMap
=============================================================================
