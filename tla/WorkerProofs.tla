---------------------------- MODULE WorkerProofs ----------------------------
(***************************************************************************)
(* Proofs about Worker, for any number of tasks, queues, groups, permits   *)
(* and retries, and any set of failing calls: types, the drain, the loss   *)
(* of results, and that no message is duplicated or mislaid.               *)
(***************************************************************************)
EXTENDS Worker, FiniteSetTheorems, TLAPS

-----------------------------------------------------------------------------
(* Type correctness *)

\* The group and chain blocks of execute_task are entered only by messages
\* that have a group, a callback or a successor.
WorkflowTyped ==
    \A p \in Permit :
        /\ pc[p] = "group" => GroupOf[Id(p)] # None
        /\ pc[p] \in {"gather", "callback"} =>
              GroupOf[Id(p)] # None /\ ChordCallback[GroupOf[Id(p)]] # None
        /\ pc[p] = "chain" => ChainNext[Id(p)] # None

TypeInv == TypeOK /\ WorkflowTyped

\* The variables start in their types.
LEMMA InitType == Init => TypeInv
  <1> SUFFICES ASSUME Init PROVE TypeInv
    OBVIOUS
  <1>1. <<>> \in Seq(Message) /\ <<>> \in Seq(Task)
    OBVIOUS
  <1>2. queues \in [Queue -> Seq(Message)] /\ dlq \in [Queue -> Seq(Message)]
    BY <1>1 DEF Init
  <1>3. gathered \in [Permit -> Seq(Task)] /\ groupResults \in [Group -> Seq(Task)]
    BY <1>1 DEF Init
  <1>4. msg \in [Permit -> Message \cup {None}]
    BY DEF Init
  <1>5. pc \in [Permit -> ExecStates] /\ \A p \in Permit : pc[p] = "idle"
    BY DEF Init, ExecStates
  <1>6. completed \in [Group -> Nat] /\ runs \in [Task -> Nat]
    BY DEF Init
  <1>7. loop \in LoopStates /\ loop = "check"
    BY DEF Init, LoopStates
  <1> QED
    BY <1>2, <1>3, <1>4, <1>5, <1>6, <1>7 DEF Init, TypeInv, TypeOK, WorkflowTyped

\* A new message is a message.
LEMMA NewMessageType ==
  ASSUME NEW t \in Task, NEW input \in Seq(Task)
  PROVE  /\ NewMessage(t, input) \in Message
         /\ NewMessage(t, input).id = t
         /\ NewMessage(t, input).retries = 0
         /\ NewMessage(t, input).input = input
  BY DEF NewMessage, Message

\* Counting a retry changes nothing else of a message.
LEMMA RetriedType ==
  ASSUME NEW m \in Message
  PROVE  /\ Retried(m) \in Message
         /\ Retried(m).id = m.id
         /\ Retried(m).retries = m.retries + 1
         /\ Retried(m).input = m.input
  BY DEF Retried, Message

\* What execute_task does after the group block, and after store().
LEMMA ProceedChain ==
  ASSUME NEW p, Proceed(p, ChainStep(Id(p)))
  PROVE  \/ Return(p)
         \/ Goto(p, "chain") /\ ChainNext[Id(p)] # None
  BY DEF Proceed, ChainStep

\* Where Proceed leads after store().
LEMMA ProceedGroup ==
  ASSUME NEW p, Proceed(p, GroupStep(Id(p)))
  PROVE  \/ Return(p)
         \/ Goto(p, "chain") /\ ChainNext[Id(p)] # None
         \/ Goto(p, "group") /\ GroupOf[Id(p)] # None
  BY DEF Proceed, GroupStep, ChainStep

\* enqueue keeps the type of the queues.
LEMMA EnqueueType ==
  ASSUME TypeOK, NEW m \in Message, Enqueue(m)
  PROVE  queues' \in [Queue -> Seq(Message)] /\ notify' \in BOOLEAN
  <1>1. QueueOf[m.id] \in Queue
    BY ConfigAssumption DEF Message
  <1>2. Append(queues[QueueOf[m.id]], m) \in Seq(Message)
    BY <1>1 DEF TypeOK
  <1> QED
    BY <1>1, <1>2 DEF TypeOK, Enqueue

\* A submission and the passing of an eta keep the types.
LEMMA EnvType ==
  ASSUME TypeInv, NEW t \in Task, Submit(t) \/ EtaPasses(t)
  PROVE  TypeInv'
  <1>1. CASE Submit(t)
    <2>1. NewMessage(t, <<>>) \in Message
      <3>1. <<>> \in Seq(Task)
        OBVIOUS
      <3> QED
        BY <3>1, NewMessageType
    <2>2. queues' \in [Queue -> Seq(Message)] /\ notify' \in BOOLEAN
      BY <1>1, <2>1, EnqueueType DEF Submit, TypeInv
    <2> QED
      BY <1>1, <2>2 DEF Submit, TypeInv, TypeOK, WorkflowTyped, Id, loopVars, execVars,
         backendVars, envVars
  <1>2. CASE EtaPasses(t)
    BY <1>2 DEF EtaPasses, TypeInv, TypeOK, WorkflowTyped, Id, brokerVars, loopVars,
       execVars, backendVars, histVars
  <1> QED
    BY <1>1, <1>2

\* Every step of Worker::run keeps the types.
LEMMA RunType ==
  ASSUME TypeInv, Run
  PROVE  TypeInv'
  <1> USE DEF TypeInv, TypeOK, WorkflowTyped, Id, LoopStates, ExecStates, brokerVars,
          loopVars, execVars, backendVars, envVars, histVars
  <1>1. CASE CheckCancel
    BY <1>1 DEF CheckCancel
  <1>2. CASE Acquire
    BY <1>2 DEF Acquire
  <1>3. CASE Pop
    <2>1. PICK i \in DOMAIN Order :
             /\ queues[Order[i]] # <<>>
             /\ hand' = Head(queues[Order[i]])
             /\ queues' = [queues EXCEPT ![Order[i]] = Tail(@)]
      BY <1>3 DEF Pop
    <2>2. Order[i] \in Queue
      BY ConfigAssumption
    <2>3. hand' \in Message /\ queues' \in [Queue -> Seq(Message)]
      BY <2>1, <2>2
    <2> QED
      BY <1>3, <2>3 DEF Pop
  <1>4. CASE TrackAndSpawn
    <2>1. hand \in Message /\ hand.id \in Task /\ grant \in Permit
      BY <1>4 DEF TrackAndSpawn, Message
    <2> QED
      BY <1>4, <2>1 DEF TrackAndSpawn
  <1>5. CASE FindNothing
    BY <1>5 DEF FindNothing
  <1>6. CASE Notified
    BY <1>6 DEF Notified
  <1>7. CASE DequeueTimeout
    BY <1>7 DEF DequeueTimeout, DropPermit
  <1>8. CASE DequeueError
    BY <1>8 DEF DequeueError, DropPermit
  <1>9. CASE EndBackoff
    BY <1>9 DEF EndBackoff
  <1>10. CASE CancelAcquire
    BY <1>10 DEF CancelAcquire
  <1>11. CASE CancelDequeue
    <2>1. loop = "track" => hand.id \in Task
      BY DEF Message
    <2> QED
      BY <1>11, <2>1 DEF CancelDequeue, DropPermit
  <1>12. CASE Drained
    BY <1>12 DEF Drained
  <1>13. CASE DrainTimeout
    BY <1>13 DEF DrainTimeout
  <1> QED
    BY <1>1, <1>2, <1>3, <1>4, <1>5, <1>6, <1>7, <1>8, <1>9, <1>10, <1>11, <1>12, <1>13
       DEF Run

\* Every step of execute_task and handle_failure keeps the types.
LEMMA ExecuteType ==
  ASSUME TypeInv, NEW p \in Permit, ExecuteTask(p)
  PROVE  TypeInv'
  <1>1. ASSUME pc[p] # "idle"
        PROVE  /\ msg[p] \in Message
               /\ Id(p) \in Task
               /\ msg[p].retries \in Nat
    BY <1>1 DEF TypeInv, TypeOK, Id, Message
  <1> USE DEF TypeInv, TypeOK, WorkflowTyped, LoopStates, ExecStates, brokerVars,
          loopVars, execVars, backendVars, envVars, histVars, Goto, Return
  <1>2. CASE EtaGuard(p)
    BY <1>1, <1>2 DEF EtaGuard, TryAck, Remove, Id
  <1>3. CASE Reschedule(p)
    <2>1. CASE Enqueue(msg[p]) /\ UNCHANGED dropped
      <3>1. queues' \in [Queue -> Seq(Message)] /\ notify' \in BOOLEAN
        BY <1>1, <1>3, <2>1, EnqueueType DEF Reschedule
      <3> QED
        BY <1>1, <1>3, <2>1, <3>1 DEF Reschedule, Id
    <2>2. CASE UNCHANGED <<queues, notify>>
      BY <1>1, <1>3, <2>2 DEF Reschedule, Id
    <2> QED
      BY <1>3, <2>1, <2>2 DEF Reschedule
  <1>4. CASE Before(p)
    BY <1>1, <1>4 DEF Before, Id
  <1>5. CASE DispatchOk(p)
    BY <1>1, <1>5 DEF DispatchOk, Id
  <1>6. CASE DispatchErr(p)
    BY <1>1, <1>6 DEF DispatchErr, Id
  <1>7. CASE DispatchPanic(p)
    BY <1>1, <1>7 DEF DispatchPanic, Id
  <1>8. CASE Ack(p)
    BY <1>1, <1>8 DEF Ack, TryAck, Remove, Proceed, Id
  <1>9. CASE Store(p)
    BY <1>1, <1>9 DEF Store, Proceed, GroupStep, ChainStep, Id
  <1>10. CASE CompleteGroupMember(p)
    <2> DEFINE g == GroupOf[Id(p)]
    <2>1. g \in Group
      BY <1>1, <1>10, WorkflowAssumption DEF CompleteGroupMember
    <2>2. CASE /\ completed' = [completed EXCEPT ![g] = @ + 1]
               /\ groupResults' = [groupResults EXCEPT ![g] = Append(@, Id(p))]
               /\ IF IsLastMember(g) /\ ChordCallback[g] # None
                  THEN Goto(p, "gather")
                  ELSE Proceed(p, ChainStep(Id(p)))
      <3>1. completed' \in [Group -> Nat] /\ groupResults' \in [Group -> Seq(Task)]
        BY <1>1, <1>10, <2>1, <2>2 DEF CompleteGroupMember
      <3>2. CASE IsLastMember(g) /\ ChordCallback[g] # None
        <4>1. Goto(p, "gather") /\ g # None
          BY <1>10, <2>2, <3>2 DEF CompleteGroupMember
        <4> QED
          BY <1>1, <1>10, <3>1, <3>2, <4>1 DEF CompleteGroupMember, Id
      <3>3. CASE ~(IsLastMember(g) /\ ChordCallback[g] # None)
        <4>1. Return(p) \/ (Goto(p, "chain") /\ ChainNext[Id(p)] # None)
          BY <2>2, <3>3, ProceedChain
        <4> QED
          BY <1>1, <1>10, <3>1, <4>1 DEF CompleteGroupMember, Id
      <3> QED
        BY <3>2, <3>3
    <2>3. CASE /\ Proceed(p, ChainStep(Id(p)))
               /\ UNCHANGED <<completed, groupResults>>
      <3>1. Return(p) \/ (Goto(p, "chain") /\ ChainNext[Id(p)] # None)
        BY <2>3, ProceedChain
      <3> QED
        BY <1>1, <1>10, <2>3, <3>1 DEF CompleteGroupMember, Id
    <2> QED
      BY <1>10, <2>2, <2>3 DEF CompleteGroupMember
  <1>11. CASE GetGroupResults(p)
    <2>1. GroupOf[Id(p)] \in Group
      BY <1>1, <1>11, WorkflowAssumption DEF GetGroupResults
    <2>2. gathered' \in [Permit -> Seq(Task)]
      BY <1>11, <2>1 DEF GetGroupResults
    <2> QED
      BY <1>1, <1>11, <2>2 DEF GetGroupResults, Id
  <1>12. CASE EnqueueCallback(p)
    <2> DEFINE c == ChordCallback[GroupOf[Id(p)]]
               m == NewMessage(c, gathered[p])
    <2>1. c \in Task
      BY <1>1, <1>12, WorkflowAssumption DEF EnqueueCallback
    <2>2. m \in Message /\ m.id = c
      BY <2>1, NewMessageType
    <2>3. sent' \subseteq Task /\ queues' \in [Queue -> Seq(Message)] /\ notify' \in BOOLEAN
      <3>1. CASE Enqueue(m) /\ sent' = sent \cup {m.id}
        <4> HIDE DEF m
        <4> QED
          BY <2>1, <2>2, <3>1, EnqueueType
      <3>2. CASE UNCHANGED <<queues, notify, sent>>
        BY <3>2
      <3> QED
        BY <1>12, <3>1, <3>2 DEF EnqueueCallback, Continue
    <2>4. gathered' \in [Permit -> Seq(Task)]
      <3>1. <<>> \in Seq(Task)
        OBVIOUS
      <3> QED
        BY <1>12, <3>1 DEF EnqueueCallback
    <2>5. Return(p) \/ (Goto(p, "chain") /\ ChainNext[Id(p)] # None)
      BY <1>12, ProceedChain DEF EnqueueCallback
    <2> HIDE DEF c, m
    <2> QED
      BY <1>1, <1>12, <2>3, <2>4, <2>5 DEF EnqueueCallback, Id
  <1>13. CASE EnqueueChainNext(p)
    <2> DEFINE c == ChainNext[Id(p)]
               m == NewMessage(c, <<Id(p)>>)
    <2>1. c \in Task
      BY <1>1, <1>13, WorkflowAssumption DEF EnqueueChainNext
    <2>2. m \in Message /\ m.id = c
      <3>1. <<Id(p)>> \in Seq(Task)
        BY <1>1, <1>13 DEF EnqueueChainNext
      <3> QED
        BY <2>1, <3>1, NewMessageType
    <2>3. sent' \subseteq Task /\ queues' \in [Queue -> Seq(Message)] /\ notify' \in BOOLEAN
      <3>1. CASE Enqueue(m) /\ sent' = sent \cup {m.id}
        <4> HIDE DEF m
        <4> QED
          BY <2>1, <2>2, <3>1, EnqueueType
      <3>2. CASE UNCHANGED <<queues, notify, sent>>
        BY <3>2
      <3> QED
        BY <1>13, <3>1, <3>2 DEF EnqueueChainNext, Continue
    <2> QED
      BY <1>1, <1>13, <2>3 DEF EnqueueChainNext, Id
  <1>14. CASE HandleFailure(p)
    <2>1. msg' \in [Permit -> Message \cup {None}] /\ msg'[p] \in Message
      BY <1>1, <1>14, RetriedType DEF HandleFailure
    <2> QED
      BY <1>1, <1>14, <2>1 DEF HandleFailure, Id
  <1>15. CASE Nack(p)
    BY <1>1, <1>15 DEF Nack, Remove, Id
  <1>16. CASE Requeue(p)
    <2>1. queues' \in [Queue -> Seq(Message)] /\ notify' \in BOOLEAN
      BY <1>1, <1>16, EnqueueType DEF Requeue
    <2> QED
      BY <1>1, <1>16, <2>1 DEF Requeue, Id
  <1>17. CASE DeadLetter(p)
    BY <1>1, <1>17 DEF DeadLetter, Remove, Id
  <1>18. CASE DlqPush(p)
    <2>1. QueueOf[Id(p)] \in Queue /\ msg[p] \in Message
      BY <1>1, <1>18, ConfigAssumption DEF DlqPush
    <2>2. dlq' \in [Queue -> Seq(Message)]
      BY <1>18, <2>1 DEF DlqPush
    <2> QED
      BY <1>1, <1>18, <2>2 DEF DlqPush, Id
  <1> QED
    BY <1>2, <1>3, <1>4, <1>5, <1>6, <1>7, <1>8, <1>9, <1>10, <1>11, <1>12, <1>13,
       <1>14, <1>15, <1>16, <1>17, <1>18 DEF ExecuteTask

\* A stuttering step keeps the types.
LEMMA StutterType ==
  ASSUME TypeInv, UNCHANGED vars
  PROVE  TypeInv'
  BY DEF TypeInv, TypeOK, WorkflowTyped, Id, vars, brokerVars, loopVars, execVars,
     backendVars, envVars, histVars

\* The next-state relation keeps the types.
LEMMA NextType ==
  ASSUME TypeInv, [Next]_vars
  PROVE  TypeInv'
  <1>1. CASE \E t \in Task : Submit(t) \/ EtaPasses(t)
    BY <1>1, EnvType
  <1>2. CASE Cancel
    BY <1>2 DEF Cancel, TypeInv, TypeOK, WorkflowTyped, Id, brokerVars, loopVars, execVars,
       backendVars, histVars
  <1>3. CASE Run
    BY <1>3, RunType
  <1>4. CASE \E p \in Permit : ExecuteTask(p)
    BY <1>4, ExecuteType
  <1>5. CASE UNCHANGED vars
    BY <1>5, StutterType
  <1> QED
    BY <1>1, <1>2, <1>3, <1>4, <1>5 DEF Next

\* Every variable keeps its type in every reachable state, and the workflow
\* blocks of execute_task only see messages with the workflow data they need.
THEOREM TypeCorrect == Spec => []TypeOK
  <1>1. Init => TypeInv
    BY InitType
  <1>2. TypeInv /\ [Next]_vars => TypeInv'
    BY NextType
  <1>3. TypeInv => TypeOK
    BY DEF TypeInv
  <1> QED
    BY <1>1, <1>2, <1>3, PTL DEF Spec

-----------------------------------------------------------------------------
(* Permits, drain and loss *)

\* Steps of an execution that has its message in `processing'.
Tracked == {"start", "dispatch", "fail", "backoff", "bury", "ack"}

\* Each permit has exactly one owner: the semaphore, the loop, or the
\* execution it was moved into.
PermitOwner ==
    \A p \in Permit :
        /\ p \in avail <=> pc[p] = "idle" /\ grant # p
        /\ grant = p => pc[p] = "idle"

StoppedClean == loop = "stopped" /\ ~timedOut => avail = Permit

\* Nothing is left in `processing' by an execution that has ended.
NoStrandedMessage ==
    PanicTask = {} /\ Faults = {} =>
        \A t \in processing : \E p \in Permit : pc[p] \in Tracked /\ Id(p) = t

DrainInv == TypeInv /\ PermitOwner /\ StoppedClean /\ NoStrandedMessage

\* The inductive invariant holds initially.
LEMMA InitDrain == Init => DrainInv
  <1> SUFFICES ASSUME Init PROVE DrainInv
    OBVIOUS
  <1>1. TypeInv
    BY InitType
  <1> QED
    BY <1>1, NoneAssumption DEF Init, DrainInv, PermitOwner, StoppedClean, NoStrandedMessage

\* The loop moves a permit from the semaphore to itself, back, or into the
\* execution it spawns.
LEMMA RunDrain ==
  ASSUME DrainInv, Run
  PROVE  DrainInv'
  <1>1. TypeInv'
    BY RunType DEF DrainInv
  <1> USE <1>1, NoneAssumption DEF DrainInv, PermitOwner, StoppedClean, NoStrandedMessage,
          TypeInv, TypeOK, Id, brokerVars, loopVars, execVars, backendVars, envVars, histVars
  <1>2. CASE CheckCancel
    BY <1>2 DEF CheckCancel
  <1>3. CASE Acquire
    BY <1>3 DEF Acquire
  <1>4. CASE Pop
    BY <1>4 DEF Pop
  <1>5. CASE TrackAndSpawn
    <2>1. PermitOwner' /\ StoppedClean'
      BY <1>5 DEF TrackAndSpawn, ExecStates
    <2>2. PICK k \in Permit : k = grant
      BY <1>5 DEF TrackAndSpawn
    <2>3. pc[k] = "idle" /\ pc'[k] \in Tracked /\ Id(k)' = hand.id
      BY <1>5, <2>2 DEF TrackAndSpawn, Tracked
    <2>4. ASSUME PanicTask = {}, Faults = {}, NEW t \in processing'
          PROVE  \E p \in Permit : pc'[p] \in Tracked /\ Id(p)' = t
      <3>1. CASE t = hand.id
        BY <1>5, <2>3, <3>1 DEF TrackAndSpawn
      <3>2. CASE t \in processing
        <4>1. PICK p \in Permit : pc[p] \in Tracked /\ Id(p) = t
          BY <2>4, <3>2
        <4>2. p # k
          BY <2>3, <4>1 DEF Tracked
        <4> QED
          BY <1>5, <2>2, <4>1, <4>2 DEF TrackAndSpawn
      <3> QED
        BY <1>5, <2>4, <3>1, <3>2 DEF TrackAndSpawn
    <2> QED
      BY <2>1, <2>4
  <1>6. CASE FindNothing
    BY <1>6 DEF FindNothing
  <1>7. CASE Notified
    BY <1>7 DEF Notified
  <1>8. CASE DequeueTimeout
    BY <1>8 DEF DequeueTimeout, DropPermit
  <1>9. CASE DequeueError
    BY <1>9 DEF DequeueError, DropPermit
  <1>10. CASE EndBackoff
    BY <1>10 DEF EndBackoff
  <1>11. CASE CancelAcquire
    BY <1>11 DEF CancelAcquire
  <1>12. CASE CancelDequeue
    BY <1>12 DEF CancelDequeue, DropPermit
  <1>13. CASE Drained
    BY <1>13 DEF Drained
  <1>14. CASE DrainTimeout
    BY <1>14 DEF DrainTimeout
  <1> QED
    BY <1>2, <1>3, <1>4, <1>5, <1>6, <1>7, <1>8, <1>9, <1>10, <1>11, <1>12, <1>13, <1>14
       DEF Run

\* How one step of the execution that holds p can touch permits and
\* `processing': it goes on to another step or returns, and it leaves the
\* tracked steps only by removing its message (or by a panic or a fault).
LEMMA ExecuteFrame ==
  ASSUME TypeInv, NEW p \in Permit, ExecuteTask(p)
  PROVE  /\ pc[p] # "idle"
         /\ UNCHANGED <<loop, grant, hand, timedOut, cancelled>>
         /\ \A r \in Permit \ {p} : pc'[r] = pc[r] /\ msg'[r] = msg[r]
         /\ \/ pc'[p] # "idle" /\ avail' = avail /\ Id(p)' = Id(p)
            \/ pc'[p] = "idle" /\ avail' = avail \cup {p}
         /\ processing' \subseteq processing
         /\ PanicTask = {} /\ Faults = {} =>
               \/ processing' = processing \ {Id(p)}
               \/ /\ processing' = processing
                  /\ pc[p] \in Tracked => pc'[p] \in Tracked /\ Id(p)' = Id(p)
  <1> USE DEF TypeInv, TypeOK, Id, brokerVars, loopVars, execVars, backendVars, envVars,
          histVars, Goto, Return, ExecStates, Tracked, Fails
  <1>2. CASE EtaGuard(p)
    BY <1>2 DEF EtaGuard, TryAck, Remove
  <1>3. CASE Reschedule(p)
    BY <1>3 DEF Reschedule
  <1>4. CASE Before(p)
    BY <1>4 DEF Before
  <1>5. CASE DispatchOk(p)
    BY <1>5 DEF DispatchOk
  <1>6. CASE DispatchErr(p)
    BY <1>6 DEF DispatchErr
  <1>7. CASE DispatchPanic(p)
    BY <1>7 DEF DispatchPanic
  <1>8. CASE Ack(p)
    BY <1>8 DEF Ack, TryAck, Remove, Proceed
  <1>9. CASE Store(p)
    BY <1>9, ProceedGroup DEF Store
  <1>10. CASE CompleteGroupMember(p)
    <2>1. \/ Goto(p, "gather")
          \/ Return(p)
          \/ Goto(p, "chain") /\ ChainNext[Id(p)] # None
      BY <1>10, ProceedChain DEF CompleteGroupMember
    <2> QED
      BY <1>10, <2>1 DEF CompleteGroupMember
  <1>11. CASE GetGroupResults(p)
    BY <1>11 DEF GetGroupResults
  <1>12. CASE EnqueueCallback(p)
    BY <1>12, ProceedChain DEF EnqueueCallback
  <1>13. CASE EnqueueChainNext(p)
    BY <1>13 DEF EnqueueChainNext
  <1>14. CASE HandleFailure(p)
    <2>1. msg[p] \in Message
      BY <1>14 DEF HandleFailure
    <2> QED
      BY <1>14, <2>1, RetriedType DEF HandleFailure
  <1>15. CASE Nack(p)
    BY <1>15 DEF Nack, Remove
  <1>16. CASE Requeue(p)
    BY <1>16 DEF Requeue
  <1>17. CASE DeadLetter(p)
    BY <1>17 DEF DeadLetter, Remove
  <1>18. CASE DlqPush(p)
    BY <1>18 DEF DlqPush
  <1> QED
    BY <1>2, <1>3, <1>4, <1>5, <1>6, <1>7, <1>8, <1>9, <1>10, <1>11, <1>12, <1>13,
       <1>14, <1>15, <1>16, <1>17, <1>18 DEF ExecuteTask

\* An execution gives its permit back exactly when it ends.
LEMMA ExecuteDrain ==
  ASSUME DrainInv, NEW p \in Permit, ExecuteTask(p)
  PROVE  DrainInv'
  <1>1. TypeInv'
    BY ExecuteType DEF DrainInv
  <1>2. /\ pc[p] # "idle"
        /\ UNCHANGED <<loop, grant, hand, timedOut, cancelled>>
        /\ \A r \in Permit \ {p} : pc'[r] = pc[r] /\ msg'[r] = msg[r]
        /\ \/ pc'[p] # "idle" /\ avail' = avail /\ Id(p)' = Id(p)
           \/ pc'[p] = "idle" /\ avail' = avail \cup {p}
        /\ PanicTask = {} /\ Faults = {} =>
              \/ processing' = processing \ {Id(p)}
              \/ /\ processing' = processing
                 /\ pc[p] \in Tracked => pc'[p] \in Tracked /\ Id(p)' = Id(p)
    BY ExecuteFrame DEF DrainInv
  <1>3. p \notin avail /\ grant # p
    BY <1>2 DEF DrainInv, PermitOwner
  <1>4. PermitOwner'
    BY <1>2, <1>3 DEF DrainInv, PermitOwner
  <1>5. StoppedClean'
    BY <1>2, <1>3 DEF DrainInv, StoppedClean
  <1>6. NoStrandedMessage'
    <2> SUFFICES ASSUME PanicTask = {}, Faults = {}, NEW t \in processing'
                 PROVE  \E r \in Permit : pc'[r] \in Tracked /\ Id(r)' = t
      BY DEF NoStrandedMessage
    <2>1. t \in processing
      BY <1>2
    <2>2. PICK r \in Permit : pc[r] \in Tracked /\ Id(r) = t
      BY <2>1 DEF DrainInv, NoStrandedMessage
    <2>3. CASE r = p
      BY <1>2, <2>2, <2>3
    <2>4. CASE r # p
      BY <1>2, <2>2, <2>4 DEF Id
    <2> QED
      BY <2>3, <2>4
  <1> QED
    BY <1>1, <1>4, <1>5, <1>6 DEF DrainInv

\* The next-state relation keeps the invariant.
LEMMA NextDrain ==
  ASSUME DrainInv, [Next]_vars
  PROVE  DrainInv'
  <1>1. TypeInv'
    BY NextType DEF DrainInv
  <1>2. CASE UNCHANGED <<processing, loopVars, avail, execVars>>
    BY <1>1, <1>2 DEF DrainInv, PermitOwner, StoppedClean, NoStrandedMessage, Id, loopVars,
       execVars
  <1>3. CASE \E t \in Task : Submit(t) \/ EtaPasses(t)
    BY <1>2, <1>3 DEF Submit, EtaPasses, brokerVars
  <1>4. CASE Cancel
    BY <1>2, <1>4 DEF Cancel, brokerVars
  <1>5. CASE Run
    BY <1>5, RunDrain
  <1>6. CASE \E p \in Permit : ExecuteTask(p)
    BY <1>6, ExecuteDrain
  <1>7. CASE UNCHANGED vars
    BY <1>2, <1>7 DEF vars, brokerVars
  <1> QED
    BY <1>3, <1>4, <1>5, <1>6, <1>7 DEF Next

\* With every permit back in the semaphore nothing is in flight.
LEMMA DrainImpliesClean == DrainInv => CleanDrain
  <1> SUFFICES ASSUME DrainInv, loop = "stopped", ~timedOut
               PROVE  /\ InFlight = {}
                      /\ PanicTask = {} /\ Faults = {} => processing = {}
    BY DEF CleanDrain
  <1>1. \A p \in Permit : pc[p] = "idle"
    BY DEF DrainInv, StoppedClean, PermitOwner
  <1> QED
    BY <1>1 DEF InFlight, DrainInv, NoStrandedMessage, Tracked

\* A drain of Worker::run that did not reach its deadline has waited for every
\* execution, and leaves nothing in the broker's `processing' map.
THEOREM DrainIsClean == Spec => []CleanDrain
  <1>1. Init => DrainInv
    BY InitDrain
  <1>2. DrainInv /\ [Next]_vars => DrainInv'
    BY NextDrain
  <1>3. DrainInv => CleanDrain
    BY DrainImpliesClean
  <1> QED
    BY <1>1, <1>2, <1>3, PTL DEF Spec

\* The loss at shutdown is inductive together with the types.
LEMMA NextLoss ==
  ASSUME TypeInv, BoundedLoss, [Next]_vars
  PROVE  BoundedLoss'
  <1> SUFFICES ASSUME "schedule" \notin Faults
               PROVE  BoundedLoss'
    BY DEF BoundedLoss
  <1>1. CASE CancelDequeue
    <2>1. dropped = {}
      BY <1>1 DEF CancelDequeue, BoundedLoss
    <2> QED
      BY <1>1, <2>1 DEF CancelDequeue, DropPermit, BoundedLoss, envVars
  <1>2. CASE /\ dropped' = dropped
             /\ cancelled => cancelled'
             /\ loop \in {"drain", "stopped"} => loop' \in {"drain", "stopped"}
    BY <1>2 DEF BoundedLoss
  <1>3. CASE \E t \in Task : Submit(t) \/ EtaPasses(t)
    BY <1>2, <1>3 DEF Submit, EtaPasses, loopVars, envVars, histVars
  <1>4. CASE Cancel
    BY <1>2, <1>4 DEF Cancel, loopVars, histVars
  <1>5. CASE Run
    BY <1>1, <1>2, <1>5 DEF Run, CheckCancel, Acquire, Pop, TrackAndSpawn, FindNothing,
       Notified, DequeueTimeout, DequeueError, EndBackoff, CancelAcquire, Drained,
       DrainTimeout, DropPermit, envVars, histVars
  <1>6. CASE \E p \in Permit : ExecuteTask(p)
    <2>1. PICK p \in Permit : ExecuteTask(p)
      BY <1>6
    <2>2. UNCHANGED <<loop, cancelled>>
      BY <2>1, ExecuteFrame
    <2>3. dropped' = dropped
      BY <2>1 DEF ExecuteTask, EtaGuard, Reschedule, Fails, Before, DispatchOk,
         DispatchErr, DispatchPanic, Ack, Store, CompleteGroupMember, GetGroupResults,
         EnqueueCallback, EnqueueChainNext, HandleFailure, Nack, Requeue, DeadLetter,
         DlqPush, histVars
    <2> QED
      BY <1>2, <2>2, <2>3
  <1>7. CASE UNCHANGED vars
    BY <1>2, <1>7 DEF vars, loopVars, envVars, histVars
  <1> QED
    BY <1>3, <1>4, <1>5, <1>6, <1>7 DEF Next

\* A worker whose schedule() does not fail loses at most one message in its
\* life, and only by cancelling the dequeue that had popped it.
THEOREM LossIsBounded == Spec => []BoundedLoss
  <1>1. Init => TypeInv /\ BoundedLoss
    BY InitType DEF Init, BoundedLoss
  <1>2. TypeInv /\ BoundedLoss /\ [Next]_vars => (TypeInv /\ BoundedLoss)'
    BY NextType, NextLoss
  <1> QED
    BY <1>1, <1>2, PTL DEF Spec

-----------------------------------------------------------------------------
(* The queues as sets of ids *)

\* enqueue adds one id to the queues.
LEMMA EnqueueIds ==
  ASSUME TypeOK, NEW m \in Message, Enqueue(m), QueueUnique, m.id \notin Queued
  PROVE  Queued' = Queued \cup {m.id} /\ QueueUnique'
  <1> DEFINE k == QueueOf[m.id]
  <1>1. k \in Queue /\ queues \in [Queue -> Seq(Message)]
    BY ConfigAssumption DEF Message, TypeOK
  <1>2. /\ queues'[k] = Append(queues[k], m)
        /\ \A q \in Queue \ {k} : queues'[q] = queues[q]
    BY <1>1 DEF Enqueue
  <1>3. /\ Len(queues'[k]) = Len(queues[k]) + 1
        /\ Len(queues[k]) \in Nat
        /\ \A i \in 1..Len(queues[k]) : queues'[k][i] = queues[k][i]
        /\ queues'[k][Len(queues[k]) + 1] = m
        /\ DOMAIN queues[k] = 1..Len(queues[k])
        /\ DOMAIN queues'[k] = 1..(Len(queues[k]) + 1)
    BY <1>1, <1>2
  <1>4. Ids(queues'[k]) = Ids(queues[k]) \cup {m.id}
    <2>1. ASSUME NEW x \in Ids(queues'[k])
          PROVE  x \in Ids(queues[k]) \cup {m.id}
      <3>1. PICK i \in DOMAIN queues'[k] : x = queues'[k][i].id
        BY DEF Ids
      <3>2. CASE i \in 1..Len(queues[k])
        BY <1>3, <3>1, <3>2 DEF Ids
      <3>3. CASE i = Len(queues[k]) + 1
        BY <1>3, <3>1, <3>3
      <3> QED
        BY <1>3, <3>2, <3>3
    <2>2. ASSUME NEW x \in Ids(queues[k]) \cup {m.id}
          PROVE  x \in Ids(queues'[k])
      <3>1. CASE x = m.id
        <4>1. Len(queues[k]) + 1 \in DOMAIN queues'[k]
          BY <1>3
        <4> QED
          BY <1>3, <3>1, <4>1 DEF Ids
      <3>2. CASE x \in Ids(queues[k])
        <4>1. PICK i \in DOMAIN queues[k] : x = queues[k][i].id
          BY <3>2 DEF Ids
        <4>2. i \in DOMAIN queues'[k] /\ x = queues'[k][i].id
          BY <1>3, <4>1
        <4> QED
          BY <4>2 DEF Ids
      <3> QED
        BY <2>2, <3>1, <3>2
    <2> QED
      BY <2>1, <2>2
  <1>5. Queued' = Queued \cup {m.id}
    <2> HIDE DEF k
    <2>1. Queued' = UNION {Ids(queues'[q]) : q \in Queue}
      BY DEF Queued, Ids
    <2>2. \A q \in Queue \ {k} : Ids(queues'[q]) = Ids(queues[q])
      BY <1>2
    <2> QED
      BY <1>1, <1>4, <2>1, <2>2 DEF Queued
  <1>6. \A q \in Queue : \A i \in DOMAIN queues[q] : queues[q][i].id # m.id
    BY DEF Queued, Ids
  <1>7. ASSUME NEW q \in Queue, NEW r \in Queue,
               NEW i \in DOMAIN queues'[q], NEW j \in DOMAIN queues'[r],
               queues'[q][i].id = queues'[r][j].id
        PROVE  q = r /\ i = j
    <2> HIDE DEF k
    <2>1. ASSUME NEW x \in Queue, NEW l \in DOMAIN queues'[x]
          PROVE  \/ l \in DOMAIN queues[x] /\ queues'[x][l] = queues[x][l]
                 \/ x = k /\ l = Len(queues[k]) + 1 /\ queues'[x][l] = m
      <3>1. CASE x = k
        BY <1>3, <3>1
      <3>2. CASE x # k
        BY <1>2, <3>2
      <3> QED
        BY <3>1, <3>2
    <2>2. \/ i \in DOMAIN queues[q] /\ queues'[q][i] = queues[q][i]
          \/ q = k /\ i = Len(queues[k]) + 1 /\ queues'[q][i] = m
      BY <2>1
    <2>3. \/ j \in DOMAIN queues[r] /\ queues'[r][j] = queues[r][j]
          \/ r = k /\ j = Len(queues[k]) + 1 /\ queues'[r][j] = m
      BY <2>1
    <2> QED
      BY <1>6, <1>7, <2>2, <2>3 DEF QueueUnique
  <1> QED
    BY <1>5, <1>7 DEF QueueUnique

\* dequeue takes one id out of the queues.
LEMMA PopIds ==
  ASSUME TypeOK, Pop, QueueUnique
  PROVE  /\ hand'.id \in Queued
         /\ Queued' = Queued \ {hand'.id}
         /\ QueueUnique'
  <1>1. PICK n \in DOMAIN Order :
           /\ queues[Order[n]] # <<>>
           /\ hand' = Head(queues[Order[n]])
           /\ queues' = [queues EXCEPT ![Order[n]] = Tail(@)]
    BY DEF Pop
  <1> DEFINE k == Order[n]
             s == queues[k]
  <1>2. k \in Queue /\ queues \in [Queue -> Seq(Message)]
    BY ConfigAssumption DEF TypeOK
  <1>3. /\ queues'[k] = Tail(s)
        /\ \A q \in Queue \ {k} : queues'[q] = queues[q]
    BY <1>1, <1>2
  <1>4. /\ s \in Seq(Message)
        /\ s # <<>>
    BY <1>1, <1>2
  <1>5. /\ Len(s) \in Nat
        /\ Len(s) >= 1
        /\ DOMAIN s = 1..Len(s)
        /\ hand' = s[1]
        /\ DOMAIN Tail(s) = 1..(Len(s) - 1)
        /\ \A i \in 1..(Len(s) - 1) : Tail(s)[i] = s[i + 1]
    <2> HIDE DEF s
    <2>1. hand' = Head(s)
      BY <1>1 DEF s
    <2> QED
      BY <1>4, <2>1
  <1>6. hand'.id \in Queued
    BY <1>2, <1>5 DEF Queued, Ids
  <1>7. Ids(Tail(s)) = Ids(s) \ {hand'.id}
    <2>1. ASSUME NEW x \in Ids(Tail(s))
          PROVE  x \in Ids(s) \ {hand'.id}
      <3>1. PICK i \in DOMAIN Tail(s) : x = Tail(s)[i].id
        BY DEF Ids
      <3>2. i + 1 \in DOMAIN s /\ i + 1 # 1 /\ x = s[i + 1].id /\ 1 \in DOMAIN s
        <4> HIDE DEF s
        <4> QED
          BY <1>5, <3>1
      <3>3. x # s[1].id
        BY <1>2, <3>2 DEF QueueUnique
      <3> QED
        BY <1>5, <3>2, <3>3 DEF Ids
    <2>2. ASSUME NEW x \in Ids(s) \ {hand'.id}
          PROVE  x \in Ids(Tail(s))
      <3>1. PICK i \in DOMAIN s : x = s[i].id
        BY DEF Ids
      <3>2. i - 1 \in DOMAIN Tail(s) /\ Tail(s)[i - 1] = s[i]
        <4> HIDE DEF s
        <4>1. i # 1
          BY <1>5, <2>2, <3>1
        <4>2. i - 1 \in 1..(Len(s) - 1) /\ (i - 1) + 1 = i
          BY <1>5, <4>1
        <4> QED
          BY <1>5, <4>2
      <3> QED
        BY <3>1, <3>2 DEF Ids
    <2> QED
      BY <2>1, <2>2
  <1>8. \A q \in Queue \ {k} : hand'.id \notin Ids(queues[q])
    BY <1>2, <1>5 DEF Ids, QueueUnique
  <1>9. Queued' = Queued \ {hand'.id}
    <2> HIDE DEF k, s
    <2>1. Queued' = UNION {Ids(queues'[q]) : q \in Queue}
      BY DEF Queued, Ids
    <2>2. \A q \in Queue : Ids(queues'[q]) = Ids(queues[q]) \ {hand'.id}
      BY <1>3, <1>7, <1>8 DEF s
    <2> QED
      BY <2>1, <2>2 DEF Queued
  <1>10. QueueUnique'
    <2> SUFFICES ASSUME NEW q \in Queue, NEW r \in Queue,
                        NEW i \in DOMAIN queues'[q], NEW j \in DOMAIN queues'[r],
                        queues'[q][i].id = queues'[r][j].id
                 PROVE  q = r /\ i = j
      BY DEF QueueUnique
    <2> DEFINE shift(x, l) == IF x = k THEN l + 1 ELSE l
    <2>1. ASSUME NEW x \in Queue, NEW l \in DOMAIN queues'[x]
          PROVE  /\ shift(x, l) \in DOMAIN queues[x]
                 /\ queues'[x][l] = queues[x][shift(x, l)]
                 /\ x = k => l \in Nat
      <3>1. CASE x = k
        <4>1. queues'[x] = Tail(s) /\ queues[x] = s
          BY <1>3, <3>1
        <4>2. l \in 1..(Len(s) - 1)
          BY <1>5, <4>1
        <4>3. l + 1 \in DOMAIN s /\ Tail(s)[l] = s[l + 1] /\ l \in Nat
          <5> HIDE DEF s
          <5> QED
            BY <1>5, <4>2
        <4> QED
          BY <3>1, <4>1, <4>3
      <3>2. CASE x # k
        BY <1>3, <3>2
      <3> QED
        BY <3>1, <3>2
    <2>2. q = r /\ shift(q, i) = shift(r, j)
      <3> HIDE DEF shift
      <3> QED
        BY <2>1 DEF QueueUnique
    <2> QED
      BY <2>1, <2>2
  <1> QED
    BY <1>6, <1>9, <1>10

\* dead_letter adds one id to the dead-letter queues.
LEMMA DlqIds ==
  ASSUME TypeInv, NEW p \in Permit, DlqPush(p)
  PROVE  DeadLettered' = DeadLettered \cup {Id(p)}
  <1> DEFINE k == QueueOf[Id(p)]
             s == dlq[k]
  <1>1. msg[p] \in Message /\ k \in Queue /\ s \in Seq(Message)
    BY ConfigAssumption DEF DlqPush, TypeInv, TypeOK, Id, Message
  <1>2. dlq'[k] = Append(s, msg[p]) /\ \A q \in Queue \ {k} : dlq'[q] = dlq[q]
    BY <1>1 DEF DlqPush, TypeInv, TypeOK
  <1>3. Ids(Append(s, msg[p])) = Ids(s) \cup {Id(p)}
    <2> HIDE DEF s, k
    <2>1. /\ DOMAIN s = 1..Len(s)
          /\ Len(s) \in Nat
          /\ DOMAIN Append(s, msg[p]) = 1..(Len(s) + 1)
          /\ \A i \in 1..Len(s) : Append(s, msg[p])[i] = s[i]
          /\ Append(s, msg[p])[Len(s) + 1] = msg[p]
      BY <1>1
    <2>2. ASSUME NEW x \in Ids(Append(s, msg[p]))
          PROVE  x \in Ids(s) \cup {Id(p)}
      <3>1. PICK i \in DOMAIN Append(s, msg[p]) : x = Append(s, msg[p])[i].id
        BY DEF Ids
      <3>2. CASE i \in 1..Len(s)
        BY <2>1, <3>1, <3>2 DEF Ids
      <3>3. CASE i = Len(s) + 1
        BY <2>1, <3>1, <3>3 DEF Id
      <3> QED
        BY <2>1, <3>2, <3>3
    <2>3. ASSUME NEW x \in Ids(s) \cup {Id(p)}
          PROVE  x \in Ids(Append(s, msg[p]))
      BY <2>1 DEF Ids, Id
    <2> QED
      BY <2>2, <2>3
  <1> HIDE DEF s, k
  <1>4. DeadLettered' = UNION {Ids(dlq'[q]) : q \in Queue}
    BY DEF DeadLettered, Ids
  <1>5. Ids(dlq'[k]) = Ids(dlq[k]) \cup {Id(p)} /\ \A q \in Queue \ {k} : Ids(dlq'[q]) = Ids(dlq[q])
    BY <1>2, <1>3 DEF s
  <1> QED
    BY <1>1, <1>4, <1>5 DEF DeadLettered

-----------------------------------------------------------------------------
(* What a step of one execution does to the copies of its message *)

\* It goes on with the same message, or ends, and moves no copy.
KeepsCopies(p) ==
    /\ UNCHANGED <<queues, dlq, done, dropped, sent>>
    /\ pc'[p] # "idle" =>
          Id(p)' = Id(p) /\ (pc'[p] \in AfterSuccess <=> pc[p] \in AfterSuccess)

\* It hands the message back to the queues.
Requeues(p) ==
    /\ pc[p] \notin AfterSuccess /\ pc'[p] = "idle"
    /\ \E m \in Message : m.id = Id(p) /\ Enqueue(m)
    /\ UNCHANGED <<dlq, done, dropped, sent>>

\* It moves the message to the dead-letter queue.
Buries(p) ==
    /\ pc[p] \notin AfterSuccess /\ pc'[p] = "idle"
    /\ DeadLettered' = DeadLettered \cup {Id(p)}
    /\ UNCHANGED <<queues, done, dropped, sent>>

\* The handler returned Ok.
Succeeds(p) ==
    /\ pc[p] \notin AfterSuccess /\ pc'[p] = "ack" /\ Id(p)' = Id(p)
    /\ done' = done \cup {Id(p)}
    /\ UNCHANGED <<queues, dlq, dropped, sent>>

\* It discards the message.
Drops(p) ==
    /\ pc[p] \notin AfterSuccess /\ pc'[p] = "idle"
    /\ dropped' = dropped \cup {Id(p)}
    /\ UNCHANGED <<queues, dlq, done, sent>>

\* It enqueues the continuation c.
ContinuesWith(p, c) ==
    /\ \/ pc[p] = "chain" /\ c = ChainNext[Id(p)] /\ pc'[p] = "idle"
       \/ /\ pc[p] = "callback" /\ c = ChordCallback[GroupOf[Id(p)]]
          /\ pc'[p] = "idle" \/ (pc'[p] = "chain" /\ Id(p)' = Id(p))
    /\ \E m \in Message : m.id = c /\ Enqueue(m)
    /\ sent' = sent \cup {c}
    /\ UNCHANGED <<dlq, done, dropped>>

\* Every step of an execution is of one of these kinds.
LEMMA ExecuteKinds ==
  ASSUME TypeInv, NEW p \in Permit, ExecuteTask(p)
  PROVE  \/ KeepsCopies(p) \/ Requeues(p) \/ Buries(p) \/ Succeeds(p) \/ Drops(p)
         \/ \E c \in Task : ContinuesWith(p, c)
  <1>1. pc[p] # "idle" /\ msg[p] \in Message /\ Id(p) \in Task
    BY ExecuteFrame DEF TypeInv, TypeOK, Id, Message
  <1>2. pc \in [Permit -> ExecStates] /\ msg \in [Permit -> Message \cup {None}]
    BY DEF TypeInv, TypeOK
  <1> USE DEF AfterSuccess, Goto, Return, brokerVars, loopVars, execVars, backendVars,
          envVars, histVars
  <1>3. CASE EtaGuard(p)
    BY <1>1, <1>2, <1>3 DEF EtaGuard, KeepsCopies, Id
  <1>4. CASE Reschedule(p)
    <2>1. CASE Enqueue(msg[p]) /\ UNCHANGED dropped
      BY <1>1, <1>2, <1>4, <2>1 DEF Reschedule, Requeues, Id
    <2>2. CASE /\ dropped' = IF Id(p) \in processing THEN dropped ELSE dropped \cup {Id(p)}
               /\ UNCHANGED <<queues, notify>>
      BY <1>1, <1>2, <1>4, <2>2 DEF Reschedule, Drops, KeepsCopies
    <2> QED
      BY <1>4, <2>1, <2>2 DEF Reschedule
  <1>5. CASE Before(p)
    BY <1>1, <1>2, <1>5 DEF Before, KeepsCopies, Id
  <1>6. CASE DispatchOk(p)
    BY <1>1, <1>2, <1>6 DEF DispatchOk, Succeeds, Id
  <1>7. CASE DispatchErr(p)
    BY <1>1, <1>2, <1>7 DEF DispatchErr, KeepsCopies, Id
  <1>8. CASE DispatchPanic(p)
    BY <1>1, <1>2, <1>8 DEF DispatchPanic, KeepsCopies
  <1>9. CASE Ack(p)
    BY <1>1, <1>2, <1>9 DEF Ack, Proceed, KeepsCopies, Id
  <1>10. CASE Store(p)
    BY <1>1, <1>2, <1>10, ProceedGroup DEF Store, KeepsCopies, Id
  <1>11. CASE CompleteGroupMember(p)
    <2>1. Goto(p, "gather") \/ Return(p) \/ Goto(p, "chain")
      BY <1>11, ProceedChain DEF CompleteGroupMember
    <2> QED
      BY <1>1, <1>2, <1>11, <2>1 DEF CompleteGroupMember, KeepsCopies, Id
  <1>12. CASE GetGroupResults(p)
    BY <1>1, <1>2, <1>12 DEF GetGroupResults, KeepsCopies, Id
  <1>13. CASE EnqueueCallback(p)
    <2> DEFINE c == ChordCallback[GroupOf[Id(p)]]
               m == NewMessage(c, gathered[p])
    <2>1. c \in Task /\ gathered[p] \in Seq(Task)
      BY <1>1, <1>13, WorkflowAssumption DEF EnqueueCallback, TypeInv, TypeOK, WorkflowTyped
    <2>2. m \in Message /\ m.id = c
      BY <2>1, NewMessageType
    <2>3. pc'[p] = "idle" \/ (pc'[p] = "chain" /\ Id(p)' = Id(p))
      BY <1>1, <1>2, <1>13, ProceedChain DEF EnqueueCallback, Id
    <2>4. pc[p] = "callback" /\ UNCHANGED <<dlq, done, dropped>> /\ Continue(m)
      BY <1>13 DEF EnqueueCallback
    <2> HIDE DEF c, m
    <2>5. CASE Enqueue(m) /\ sent' = sent \cup {m.id}
      BY <2>1, <2>2, <2>3, <2>4, <2>5 DEF ContinuesWith, c
    <2>6. CASE UNCHANGED <<queues, notify, sent>>
      BY <2>3, <2>4, <2>6 DEF KeepsCopies
    <2> QED
      BY <2>4, <2>5, <2>6 DEF Continue
  <1>14. CASE EnqueueChainNext(p)
    <2> DEFINE c == ChainNext[Id(p)]
               m == NewMessage(c, <<Id(p)>>)
    <2>1. c \in Task /\ <<Id(p)>> \in Seq(Task)
      BY <1>1, <1>14, WorkflowAssumption DEF EnqueueChainNext, TypeInv, WorkflowTyped
    <2>2. m \in Message /\ m.id = c
      BY <2>1, NewMessageType
    <2>3. pc[p] = "chain" /\ UNCHANGED <<dlq, done, dropped>> /\ Continue(m) /\ pc'[p] = "idle"
      BY <1>2, <1>14 DEF EnqueueChainNext
    <2> HIDE DEF c, m
    <2>4. CASE Enqueue(m) /\ sent' = sent \cup {m.id}
      BY <2>1, <2>2, <2>3, <2>4 DEF ContinuesWith, c
    <2>5. CASE UNCHANGED <<queues, notify, sent>>
      BY <2>3, <2>5 DEF KeepsCopies
    <2> QED
      BY <2>3, <2>4, <2>5 DEF Continue
  <1>15. CASE HandleFailure(p)
    BY <1>1, <1>2, <1>15, RetriedType DEF HandleFailure, KeepsCopies, Id
  <1>16. CASE Nack(p)
    BY <1>1, <1>2, <1>16 DEF Nack, KeepsCopies, Id
  <1>17. CASE Requeue(p)
    BY <1>1, <1>2, <1>17 DEF Requeue, Requeues, Id
  <1>18. CASE DeadLetter(p)
    BY <1>1, <1>2, <1>18 DEF DeadLetter, KeepsCopies, Id
  <1>19. CASE DlqPush(p)
    BY <1>1, <1>2, <1>19, DlqIds DEF DlqPush, Buries
  <1> QED
    BY <1>3, <1>4, <1>5, <1>6, <1>7, <1>8, <1>9, <1>10, <1>11, <1>12, <1>13, <1>14,
       <1>15, <1>16, <1>17, <1>18, <1>19 DEF ExecuteTask

-----------------------------------------------------------------------------
(* The inductive invariant *)

QueuedPlace == Queued \subseteq sent \ (DeadLettered \cup done \cup dropped)

FlyingPlace ==
    \A p \in Permit : pc[p] # "idle" =>
        /\ Id(p) \in sent \ (Queued \cup DeadLettered \cup dropped)
        /\ Id(p) \in done <=> pc[p] \in AfterSuccess
        /\ \A r \in Permit : pc[r] # "idle" /\ Id(r) = Id(p) => r = p

HandPlace ==
    loop = "track" =>
        /\ hand.id \in sent \ (Queued \cup DeadLettered \cup done \cup dropped)
        /\ \A p \in Permit : pc[p] # "idle" => Id(p) # hand.id

SettledPlace ==
    /\ DeadLettered \subseteq sent \ (done \cup dropped)
    /\ done \subseteq sent \ dropped
    /\ dropped \subseteq sent

\* A chain successor is enqueued by the last step of its predecessor.
ChainFresh ==
    \A s \in Task : ChainNext[s] \in sent =>
        s \in done /\ \A p \in Permit : pc[p] # "idle" => Id(p) # s

\* The execution is about to enqueue the callback of g.
Firing(p, g) == pc[p] \in {"gather", "callback"} /\ GroupOf[Id(p)] = g

\* The count of completed members reaches group_total once, and only the
\* execution that made it do so fires.
CallbackFresh ==
    \A g \in Group :
        /\ ChordCallback[g] \in sent =>
              completed[g] >= GroupTotal(g) /\ \A p \in Permit : ~Firing(p, g)
        /\ \A p \in Permit : Firing(p, g) => completed[g] >= GroupTotal(g)
        /\ \A p, r \in Permit : Firing(p, g) /\ Firing(r, g) => p = r

PlaceInv == QueueUnique /\ QueuedPlace /\ FlyingPlace /\ HandPlace /\ SettledPlace

CopyInv == DrainInv /\ PlaceInv /\ ChainFresh /\ CallbackFresh

\* group_total is a number.
LEMMA GroupTotalType == \A g \in Group : GroupTotal(g) \in Nat
  <1> SUFFICES ASSUME NEW g \in Group PROVE Cardinality(Members(g)) \in Nat
    BY DEF GroupTotal
  <1>1. Members(g) \subseteq Task
    BY DEF Members
  <1>2. IsFiniteSet(Members(g))
    BY <1>1, FiniteAssumption, FS_Subset
  <1> QED
    BY <1>2, FS_CardinalityType

\* The invariant holds initially.
LEMMA InitCopy == Init => CopyInv
  <1> SUFFICES ASSUME Init PROVE CopyInv
    OBVIOUS
  <1>1. Queued = {} /\ DeadLettered = {}
    BY DEF Init, Queued, DeadLettered, Ids
  <1>2. QueueUnique
    BY DEF Init, QueueUnique
  <1>3. \A p \in Permit : pc[p] = "idle"
    BY DEF Init
  <1> QED
    BY <1>1, <1>2, <1>3, InitDrain DEF Init, CopyInv, PlaceInv, QueuedPlace, FlyingPlace,
       HandPlace, SettledPlace, ChainFresh, CallbackFresh, Firing

\* A continuation has not been enqueued before.
LEMMA ContinuationIsFresh ==
  ASSUME CopyInv, NEW p \in Permit, NEW c \in Task, pc[p] # "idle", ContinuesWith(p, c)
  PROVE  c \notin sent
  <1>1. msg[p] \in Message /\ Id(p) \in Task /\ WorkflowTyped
    BY DEF CopyInv, DrainInv, TypeInv, TypeOK, Id, Message
  <1>2. CASE pc[p] = "chain" /\ c = ChainNext[Id(p)]
    BY <1>1, <1>2 DEF CopyInv, ChainFresh
  <1>3. CASE pc[p] = "callback" /\ c = ChordCallback[GroupOf[Id(p)]]
    <2>1. GroupOf[Id(p)] \in Group
      BY <1>1, <1>3, WorkflowAssumption DEF WorkflowTyped
    <2> QED
      BY <1>3, <2>1 DEF CopyInv, CallbackFresh, Firing
  <1> QED
    BY <1>2, <1>3 DEF ContinuesWith

\* A step of an execution leaves every message in at most one place.
LEMMA ExecutePlace ==
  ASSUME CopyInv, NEW p \in Permit, ExecuteTask(p)
  PROVE  PlaceInv'
  <1>1. /\ pc[p] # "idle"
        /\ UNCHANGED <<loop, grant, hand, timedOut, cancelled>>
        /\ \A r \in Permit \ {p} : pc'[r] = pc[r] /\ msg'[r] = msg[r]
    BY ExecuteFrame DEF CopyInv, DrainInv
  <1>2. \A r \in Permit \ {p} : Id(r)' = Id(r)
    BY <1>1 DEF Id
  <1>3. queues' = queues => Queued' = Queued /\ (QueueUnique => QueueUnique')
    BY DEF Queued, Ids, QueueUnique
  <1>4. dlq' = dlq => DeadLettered' = DeadLettered
    BY DEF DeadLettered, Ids
  <1>5. TypeOK /\ TypeInv
    BY DEF CopyInv, DrainInv, TypeInv
  <1> USE DEF PlaceInv, QueuedPlace, FlyingPlace, HandPlace, SettledPlace
  <1>6. PlaceInv
    BY DEF CopyInv
  <1>7. CASE KeepsCopies(p)
    BY <1>1, <1>2, <1>3, <1>4, <1>6, <1>7 DEF KeepsCopies
  <1>8. CASE Requeues(p)
    <2>1. Id(p) \notin Queued
      BY <1>1, <1>6
    <2>2. Queued' = Queued \cup {Id(p)} /\ QueueUnique'
      BY <1>5, <1>6, <1>8, <2>1, EnqueueIds DEF Requeues
    <2>3. Id(p) \in sent \ (DeadLettered \cup done \cup dropped)
      BY <1>1, <1>6, <1>8 DEF Requeues
    <2>4. \A r \in Permit : pc'[r] # "idle" => r # p /\ pc[r] # "idle" /\ Id(r)' = Id(r) /\ Id(r) # Id(p)
      BY <1>1, <1>2, <1>6, <1>8 DEF Requeues
    <2>5. HandPlace'
      BY <1>1, <1>4, <1>6, <1>8, <2>2, <2>4 DEF Requeues
    <2>6. FlyingPlace'
      BY <1>1, <1>2, <1>4, <1>6, <1>8, <2>2, <2>4 DEF Requeues
    <2> QED
      BY <1>4, <1>6, <1>8, <2>2, <2>3, <2>5, <2>6 DEF Requeues
  <1>9. CASE Buries(p)
    <2>1. Id(p) \in sent \ (Queued \cup done \cup dropped)
      BY <1>1, <1>6, <1>9 DEF Buries
    <2>2. \A r \in Permit : pc'[r] # "idle" => r # p /\ pc[r] # "idle" /\ Id(r)' = Id(r) /\ Id(r) # Id(p)
      BY <1>1, <1>2, <1>6, <1>9 DEF Buries
    <2> QED
      BY <1>1, <1>3, <1>6, <1>9, <2>1, <2>2 DEF Buries
  <1>10. CASE Succeeds(p)
    <2>1. "ack" \in AfterSuccess
      BY DEF AfterSuccess
    <2>2. Id(p) \in sent \ (Queued \cup DeadLettered \cup dropped)
      BY <1>1, <1>6
    <2> QED
      BY <1>1, <1>2, <1>3, <1>4, <1>6, <1>10, <2>1, <2>2 DEF Succeeds
  <1>11. CASE Drops(p)
    <2>1. Id(p) \in sent \ (Queued \cup DeadLettered \cup done)
      BY <1>1, <1>6, <1>11 DEF Drops
    <2>2. \A r \in Permit : pc'[r] # "idle" => r # p /\ pc[r] # "idle" /\ Id(r)' = Id(r) /\ Id(r) # Id(p)
      BY <1>1, <1>2, <1>6, <1>11 DEF Drops
    <2> QED
      BY <1>1, <1>3, <1>4, <1>6, <1>11, <2>1, <2>2 DEF Drops
  <1>12. ASSUME NEW c \in Task, ContinuesWith(p, c)
         PROVE  PlaceInv'
    <2>1. c \notin sent
      BY <1>1, <1>12, ContinuationIsFresh
    <2>2. c \notin Queued \cup DeadLettered \cup done \cup dropped
      BY <1>6, <2>1
    <2>3. Queued' = Queued \cup {c} /\ QueueUnique'
      BY <1>5, <1>6, <1>12, <2>2, EnqueueIds DEF ContinuesWith
    <2>4. \A r \in Permit : pc'[r] # "idle" =>
             /\ pc[r] # "idle" /\ Id(r)' = Id(r) /\ Id(r) # c
             /\ pc'[r] \in AfterSuccess <=> pc[r] \in AfterSuccess
      BY <1>1, <1>2, <1>6, <1>12, <2>1 DEF ContinuesWith, AfterSuccess
    <2>5. loop = "track" => hand.id # c
      BY <1>6, <2>1
    <2> QED
      BY <1>1, <1>4, <1>6, <1>12, <2>1, <2>2, <2>3, <2>4, <2>5 DEF ContinuesWith
  <1> QED
    BY <1>5, <1>7, <1>8, <1>9, <1>10, <1>11, <1>12, ExecuteKinds

\* How a step of an execution moves the count of completed group members, and
\* when it starts to fire.
LEMMA ExecuteGroups ==
  ASSUME TypeInv, NEW p \in Permit, ExecuteTask(p)
  PROVE  \/ /\ completed' = completed
            /\ pc'[p] \in {"gather", "callback"} => pc[p] = "gather" /\ Id(p)' = Id(p)
         \/ /\ pc[p] = "group" /\ GroupOf[Id(p)] \in Group
            /\ completed' = [completed EXCEPT ![GroupOf[Id(p)]] = @ + 1]
            /\ pc'[p] # "callback"
            /\ pc'[p] = "gather" =>
                  Id(p)' = Id(p) /\ completed[GroupOf[Id(p)]] + 1 = GroupTotal(GroupOf[Id(p)])
  <1>1. pc[p] # "idle" /\ msg[p] \in Message /\ Id(p) \in Task
    BY ExecuteFrame DEF TypeInv, TypeOK, Id, Message
  <1>2. pc \in [Permit -> ExecStates] /\ msg \in [Permit -> Message \cup {None}]
    BY DEF TypeInv, TypeOK
  <1> USE DEF Goto, Return, backendVars
  <1>3. CASE Ack(p) \/ Store(p)
    BY <1>2, <1>3, ProceedGroup DEF Ack, Store, Proceed
  <1>4. CASE CompleteGroupMember(p)
    <2> DEFINE g == GroupOf[Id(p)]
    <2>1. g \in Group
      BY <1>1, <1>4, WorkflowAssumption DEF CompleteGroupMember, TypeInv, WorkflowTyped
    <2>2. CASE /\ completed' = [completed EXCEPT ![g] = @ + 1]
               /\ IF IsLastMember(g) /\ ChordCallback[g] # None
                  THEN Goto(p, "gather")
                  ELSE Proceed(p, ChainStep(Id(p)))
      <3>1. CASE IsLastMember(g) /\ ChordCallback[g] # None
        BY <1>2, <1>4, <2>1, <2>2, <3>1 DEF IsLastMember, CompleteGroupMember, Id
      <3>2. CASE ~(IsLastMember(g) /\ ChordCallback[g] # None)
        <4>1. Return(p) \/ Goto(p, "chain")
          BY <2>2, <3>2, ProceedChain
        <4>2. pc'[p] \in {"idle", "chain"}
          BY <1>2, <4>1
        <4> QED
          BY <1>4, <2>1, <2>2, <4>2 DEF CompleteGroupMember
      <3> QED
        BY <3>1, <3>2
    <2>3. CASE Proceed(p, ChainStep(Id(p))) /\ UNCHANGED <<completed, groupResults>>
      BY <1>2, <2>3, ProceedChain
    <2> QED
      BY <1>4, <2>2, <2>3 DEF CompleteGroupMember
  <1>5. CASE EnqueueCallback(p)
    BY <1>2, <1>5, ProceedChain DEF EnqueueCallback
  <1>6. CASE GetGroupResults(p)
    BY <1>2, <1>6 DEF GetGroupResults, Id
  <1>7. CASE \/ EtaGuard(p) \/ Reschedule(p) \/ Before(p) \/ DispatchOk(p) \/ DispatchErr(p)
             \/ DispatchPanic(p) \/ EnqueueChainNext(p) \/ HandleFailure(p) \/ Nack(p)
             \/ Requeue(p) \/ DeadLetter(p) \/ DlqPush(p)
    BY <1>2, <1>7 DEF EtaGuard, Reschedule, Before, DispatchOk, DispatchErr, DispatchPanic,
       EnqueueChainNext, HandleFailure, Nack, Requeue, DeadLetter, DlqPush
  <1> QED
    BY <1>3, <1>4, <1>5, <1>6, <1>7 DEF ExecuteTask

\* A step of an execution enqueues a continuation at most once.
LEMMA ExecuteFresh ==
  ASSUME CopyInv, NEW p \in Permit, ExecuteTask(p)
  PROVE  ChainFresh' /\ CallbackFresh'
  <1>1. TypeInv /\ PlaceInv /\ ChainFresh /\ CallbackFresh /\ TypeInv'
    BY ExecuteType DEF CopyInv, DrainInv
  <1>2. /\ pc[p] # "idle"
        /\ \A r \in Permit \ {p} : pc'[r] = pc[r] /\ msg'[r] = msg[r]
        /\ pc'[p] # "idle" => Id(p)' = Id(p)
    BY <1>1, ExecuteFrame
  <1>3. \A r \in Permit : pc'[r] # "idle" => pc[r] # "idle" /\ Id(r)' = Id(r)
    BY <1>2 DEF Id
  <1>4. done \subseteq done' /\ sent \subseteq sent'
    BY <1>1, ExecuteKinds DEF KeepsCopies, Requeues, Buries, Succeeds, Drops, ContinuesWith
  <1>5. Id(p) \in Task /\ sent' \subseteq Task
    BY <1>1, <1>2 DEF TypeInv, TypeOK, Id, Message
  <1>6. ASSUME NEW s \in Task, ChainNext[s] \in sent'
        PROVE  s \in done' /\ \A r \in Permit : pc'[r] # "idle" => Id(r)' # s
    <2>1. CASE ChainNext[s] \in sent
      BY <1>1, <1>3, <1>4, <2>1 DEF ChainFresh
    <2>2. CASE ChainNext[s] \notin sent
      <3>1. PICK c \in Task : ContinuesWith(p, c)
        BY <1>1, <1>6, <2>2, ExecuteKinds DEF KeepsCopies, Requeues, Buries, Succeeds, Drops
      <3>2. c = ChainNext[s]
        BY <1>6, <2>2, <3>1 DEF ContinuesWith
      <3>3. pc[p] = "chain" /\ c = ChainNext[Id(p)] /\ pc'[p] = "idle"
        <4>1. CASE pc[p] = "callback" /\ c = ChordCallback[GroupOf[Id(p)]]
          <5>1. GroupOf[Id(p)] \in Group
            BY <1>1, <1>5, <4>1, WorkflowAssumption DEF TypeInv, WorkflowTyped
          <5> QED
            BY <3>1, <3>2, <4>1, <5>1, WorkflowAssumption, NoneAssumption
        <4> QED
          BY <3>1, <4>1 DEF ContinuesWith
      <3>4. s = Id(p)
        BY <1>5, <3>1, <3>2, <3>3, WorkflowAssumption, NoneAssumption
      <3>5. s \in done
        BY <1>1, <1>2, <3>3, <3>4 DEF PlaceInv, FlyingPlace, AfterSuccess
      <3>6. ASSUME NEW r \in Permit, pc'[r] # "idle"
            PROVE  Id(r)' # s
        BY <1>1, <1>2, <1>3, <3>3, <3>4, <3>6 DEF PlaceInv, FlyingPlace
      <3> QED
        BY <1>4, <3>5, <3>6
    <2> QED
      BY <2>1, <2>2
  <1>7. \A g \in Group : completed[g] \in Nat /\ completed'[g] \in Nat /\ GroupTotal(g) \in Nat
    BY <1>1, GroupTotalType DEF TypeInv, TypeOK
  <1>8. \A g \in Group : completed'[g] >= completed[g]
    <2>1. completed \in [Group -> Nat]
      BY <1>1 DEF TypeInv, TypeOK
    <2>2. CASE completed' = completed
      BY <1>7, <2>2
    <2>3. CASE completed' = [completed EXCEPT ![GroupOf[Id(p)]] = @ + 1]
      BY <1>7, <2>1, <2>3
    <2> QED
      BY <1>1, <2>2, <2>3, ExecuteGroups
  <1>9. \A g \in Group, r \in Permit \ {p} : Firing(r, g)' <=> Firing(r, g)
    BY <1>2 DEF Firing, Id
  <1>10. ASSUME NEW g \in Group, Firing(p, g)'
         PROVE  \/ Firing(p, g)
                \/ completed[g] + 1 = GroupTotal(g) /\ completed'[g] = GroupTotal(g)
    BY <1>1, <1>7, <1>10, ExecuteGroups DEF Firing, TypeInv, TypeOK
  <1>11. ASSUME NEW g \in Group, ChordCallback[g] \in sent', ChordCallback[g] \notin sent
         PROVE  Firing(p, g) /\ ~Firing(p, g)'
    <2>1. PICK c \in Task : ContinuesWith(p, c)
      BY <1>1, <1>11, ExecuteKinds DEF KeepsCopies, Requeues, Buries, Succeeds, Drops
    <2>2. c = ChordCallback[g]
      BY <1>11, <2>1 DEF ContinuesWith
    <2>3. pc[p] = "callback" /\ c = ChordCallback[GroupOf[Id(p)]] /\ pc'[p] \in {"idle", "chain"}
      <3>1. CASE pc[p] = "chain" /\ c = ChainNext[Id(p)]
        BY <1>5, <2>1, <2>2, <3>1, WorkflowAssumption, NoneAssumption
      <3> QED
        BY <2>1, <3>1 DEF ContinuesWith
    <2>4. GroupOf[Id(p)] \in Group
      BY <1>1, <1>5, <2>3, WorkflowAssumption DEF TypeInv, WorkflowTyped
    <2>5. GroupOf[Id(p)] = g
      BY <2>1, <2>2, <2>3, <2>4, WorkflowAssumption, NoneAssumption
    <2> QED
      BY <2>3, <2>5 DEF Firing
  <1>12. ASSUME NEW g \in Group
         PROVE  /\ ChordCallback[g] \in sent' =>
                      /\ completed'[g] >= GroupTotal(g)
                      /\ \A r \in Permit : ~Firing(r, g)'
                /\ \A r \in Permit : Firing(r, g)' => completed'[g] >= GroupTotal(g)
                /\ \A q, r \in Permit : Firing(q, g)' /\ Firing(r, g)' => q = r
    <2>1. \A r \in Permit : Firing(r, g) => completed[g] >= GroupTotal(g)
      BY <1>1 DEF CallbackFresh
    <2>2. \A q, r \in Permit : Firing(q, g) /\ Firing(r, g) => q = r
      BY <1>1 DEF CallbackFresh
    <2>3. \A r \in Permit : Firing(r, g)' => completed'[g] >= GroupTotal(g)
      BY <1>7, <1>8, <1>9, <1>10, <2>1
    <2>4. \A q, r \in Permit : Firing(q, g)' /\ Firing(r, g)' => q = r
      BY <1>7, <1>9, <1>10, <2>1, <2>2
    <2>5. CASE ChordCallback[g] \in sent
      BY <1>1, <1>7, <1>8, <1>9, <1>10, <2>3, <2>4, <2>5 DEF CallbackFresh
    <2>6. CASE ChordCallback[g] \in sent' /\ ChordCallback[g] \notin sent
      BY <1>7, <1>8, <1>9, <1>11, <2>1, <2>2, <2>3, <2>4, <2>6
    <2> QED
      BY <2>3, <2>4, <2>5, <2>6
  <1> QED
    BY <1>6, <1>12 DEF ChainFresh, CallbackFresh, Firing, Id, GroupTotal, Members

\* The loop moves a message from the queues to an execution, or discards it.
LEMMA RunPlace ==
  ASSUME CopyInv, Run
  PROVE  PlaceInv' /\ ChainFresh' /\ CallbackFresh'
  <1>1. DrainInv /\ TypeInv /\ TypeOK /\ PlaceInv /\ ChainFresh /\ CallbackFresh /\ PermitOwner
    BY DEF CopyInv, DrainInv, TypeInv
  <1>2. queues' = queues => Queued' = Queued /\ (QueueUnique => QueueUnique')
    BY DEF Queued, Ids, QueueUnique
  <1>3. dlq' = dlq => DeadLettered' = DeadLettered
    BY DEF DeadLettered, Ids
  <1> USE DEF PlaceInv, QueuedPlace, FlyingPlace, HandPlace, SettledPlace, ChainFresh,
          CallbackFresh, Firing, Id, brokerVars, loopVars, execVars, backendVars, envVars,
          histVars
  <1>4. CASE /\ UNCHANGED <<queues, dlq, execVars, backendVars, histVars>>
             /\ loop' # "track"
    BY <1>1, <1>2, <1>3, <1>4
  <1>5. CASE Pop
    BY <1>1, <1>3, <1>5, PopIds DEF Pop
  <1>6. CASE TrackAndSpawn
    <2>1. PICK k \in Permit : k = grant
      BY <1>1, <1>6 DEF TrackAndSpawn, TypeOK
    <2>2. /\ pc[k] = "idle" /\ pc'[k] = "start" /\ msg'[k] = hand
          /\ \A r \in Permit \ {k} : pc'[r] = pc[r] /\ msg'[r] = msg[r]
      BY <1>1, <1>6, <2>1 DEF TrackAndSpawn, PermitOwner, TypeOK
    <2>3. Queued' = Queued /\ DeadLettered' = DeadLettered /\ QueueUnique'
      BY <1>1, <1>2, <1>3, <1>6 DEF TrackAndSpawn
    <2>4. UNCHANGED <<sent, done, dropped, completed>> /\ loop = "track" /\ loop' = "check"
      BY <1>6 DEF TrackAndSpawn
    <2>5. FlyingPlace'
      <3>1. hand.id \in sent \ (Queued \cup DeadLettered \cup done \cup dropped)
        BY <1>1, <2>4
      <3>2. \A r \in Permit \ {k} : pc[r] # "idle" => Id(r) # hand.id
        BY <1>1, <2>4
      <3> QED
        BY <1>1, <2>2, <2>3, <2>4, <3>1, <3>2 DEF AfterSuccess
    <2>6. ChainFresh'
      BY <1>1, <2>2, <2>4
    <2>7. CallbackFresh'
      BY <1>1, <2>2, <2>4
    <2> QED
      BY <1>1, <2>3, <2>4, <2>5, <2>6, <2>7
  <1>7. CASE CancelDequeue
    <2>1. CASE loop = "track"
      BY <1>1, <1>2, <1>3, <1>7, <2>1 DEF CancelDequeue, DropPermit
    <2>2. CASE loop # "track"
      BY <1>4, <1>7, <2>2 DEF CancelDequeue, DropPermit
    <2> QED
      BY <2>1, <2>2
  <1>8. CASE \/ CheckCancel \/ Acquire \/ FindNothing \/ Notified \/ DequeueTimeout
             \/ DequeueError \/ EndBackoff \/ CancelAcquire \/ Drained \/ DrainTimeout
    BY <1>4, <1>8 DEF CheckCancel, Acquire, FindNothing, Notified, DequeueTimeout,
       DequeueError, EndBackoff, CancelAcquire, Drained, DrainTimeout, DropPermit
  <1> QED
    BY <1>5, <1>6, <1>7, <1>8 DEF Run

\* A submission enqueues a message nobody has seen.
LEMMA SubmitPlace ==
  ASSUME CopyInv, NEW t \in Task, Submit(t)
  PROVE  PlaceInv' /\ ChainFresh' /\ CallbackFresh'
  <1>1. TypeOK /\ PlaceInv /\ ChainFresh /\ CallbackFresh
    BY DEF CopyInv, DrainInv, TypeInv
  <1>2. t \notin sent /\ t \notin Continuations
    BY DEF Submit, Root
  <1>3. <<>> \in Seq(Task)
    OBVIOUS
  <1>4. NewMessage(t, <<>>) \in Message /\ NewMessage(t, <<>>).id = t
    BY <1>3, NewMessageType
  <1>5. t \notin Queued
    BY <1>1, <1>2 DEF PlaceInv, QueuedPlace
  <1>6. Queued' = Queued \cup {t} /\ QueueUnique'
    BY <1>1, <1>4, <1>5, EnqueueIds DEF Submit, PlaceInv
  <1>7. DeadLettered' = DeadLettered
    BY DEF Submit, DeadLettered, Ids
  <1>8. /\ UNCHANGED <<loop, hand, pc, msg, completed, done, dropped>>
        /\ sent' = sent \cup {t}
    BY DEF Submit, loopVars, execVars, backendVars
  <1>9. PlaceInv'
    BY <1>1, <1>2, <1>6, <1>7, <1>8
       DEF PlaceInv, QueuedPlace, FlyingPlace, HandPlace, SettledPlace, Id
  <1>10. ChainFresh'
    BY <1>1, <1>2, <1>8 DEF ChainFresh, Continuations, Id
  <1>11. CallbackFresh'
    BY <1>1, <1>2, <1>8 DEF CallbackFresh, Continuations, Firing, Id
  <1> QED
    BY <1>9, <1>10, <1>11

\* The next-state relation keeps the invariant.
LEMMA NextCopy ==
  ASSUME CopyInv, [Next]_vars
  PROVE  CopyInv'
  <1>1. DrainInv'
    BY NextDrain DEF CopyInv
  <1>2. CASE UNCHANGED <<queues, dlq, loopVars, execVars, backendVars, histVars>>
    <2> USE DEF loopVars, execVars, backendVars, histVars
    <2>1. Queued' = Queued /\ DeadLettered' = DeadLettered
      BY <1>2 DEF Queued, DeadLettered, Ids
    <2>2. QueueUnique' <=> QueueUnique
      BY <1>2 DEF QueueUnique
    <2>3. PlaceInv'
      BY <1>2, <2>1, <2>2 DEF CopyInv, PlaceInv, QueuedPlace, FlyingPlace, HandPlace,
         SettledPlace, Id
    <2>4. ChainFresh' /\ CallbackFresh'
      BY <1>2 DEF CopyInv, ChainFresh, CallbackFresh, Firing, Id
    <2> QED
      BY <1>1, <2>3, <2>4 DEF CopyInv
  <1>3. ASSUME NEW t \in Task, Submit(t) PROVE CopyInv'
    BY <1>1, <1>3, SubmitPlace DEF CopyInv
  <1>4. ASSUME NEW t \in Task, EtaPasses(t) PROVE CopyInv'
    BY <1>2, <1>4 DEF EtaPasses, brokerVars
  <1>5. CASE Cancel
    BY <1>2, <1>5 DEF Cancel, brokerVars
  <1>6. CASE Run
    BY <1>1, <1>6, RunPlace DEF CopyInv
  <1>7. ASSUME NEW p \in Permit, ExecuteTask(p) PROVE CopyInv'
    BY <1>1, <1>7, ExecutePlace, ExecuteFresh DEF CopyInv
  <1>8. CASE UNCHANGED vars
    BY <1>2, <1>8 DEF vars, brokerVars
  <1> QED
    BY <1>3, <1>4, <1>5, <1>6, <1>7, <1>8 DEF Next

\* The invariant says that a message is in one place.
LEMMA CopyImpliesSingle == CopyInv => SingleCopy
  <1> SUFFICES ASSUME CopyInv PROVE SingleCopy
    OBVIOUS
  <1>1. InHand \subseteq sent \ (Queued \cup DeadLettered \cup done \cup dropped)
    BY DEF CopyInv, DrainInv, TypeInv, TypeOK, PlaceInv, HandPlace, InHand
  <1>2. \A p \in InFlight : Id(p) \notin InHand
    BY DEF CopyInv, DrainInv, TypeInv, TypeOK, PlaceInv, HandPlace, InHand, InFlight
  <1>3. ExecutionUnique
    BY DEF CopyInv, PlaceInv, FlyingPlace, ExecutionUnique, InFlight
  <1>4. Executing \cap (Queued \cup InHand \cup DeadLettered \cup done \cup dropped) = {}
    BY <1>2 DEF CopyInv, PlaceInv, FlyingPlace, Executing, InFlight
  <1> QED
    BY <1>1, <1>3, <1>4 DEF CopyInv, PlaceInv, QueuedPlace, SettledPlace, SingleCopy

\* No message is ever duplicated: two executions never run the same message,
\* nothing settled is queued again, and a chain successor or a chord callback
\* is enqueued at most once, whichever members finish concurrently.
THEOREM NoDuplicates == Spec => []SingleCopy
  <1>1. Init => CopyInv
    BY InitCopy
  <1>2. CopyInv /\ [Next]_vars => CopyInv'
    BY NextCopy
  <1>3. CopyInv => SingleCopy
    BY CopyImpliesSingle
  <1> QED
    BY <1>1, <1>2, <1>3, PTL DEF Spec

-----------------------------------------------------------------------------
(* Conservation *)

\* What an execution does to `processing': it removes at most its own message,
\* keeps it there through the tracked steps, and when it ends without success
\* it has put the message somewhere else or left it there.
LEMMA ExecuteTracks ==
  ASSUME CopyInv, InFlightIsTracked, NEW p \in Permit, ExecuteTask(p)
  PROVE  /\ processing \ {Id(p)} \subseteq processing'
         /\ pc'[p] \in Tracked => Id(p)' = Id(p) /\ Id(p) \in processing'
         /\ pc'[p] = "idle" /\ pc[p] \notin AfterSuccess =>
               Id(p) \in Queued' \cup DeadLettered' \cup dropped' \cup processing'
  <1>1. TypeInv /\ TypeOK /\ PlaceInv
    BY DEF CopyInv, DrainInv, TypeInv
  <1>2. pc[p] # "idle" /\ msg[p] \in Message
    BY <1>1, ExecuteFrame DEF TypeOK
  <1>3. pc \in [Permit -> ExecStates] /\ msg \in [Permit -> Message \cup {None}]
    BY <1>1 DEF TypeOK
  <1>4. pc[p] \in Tracked => Id(p) \in processing
    BY <1>2 DEF InFlightIsTracked, InFlight, Tracked
  <1>5. Id(p) \notin Queued /\ QueueUnique
    BY <1>1, <1>2 DEF PlaceInv, FlyingPlace
  <1>6. Enqueue(msg[p]) => Id(p) \in Queued'
    BY <1>1, <1>2, <1>5, EnqueueIds DEF Id
  <1> USE DEF Tracked, AfterSuccess, Goto, Return, brokerVars, Id
  <1>7. CASE EtaGuard(p)
    BY <1>3, <1>7 DEF EtaGuard, TryAck, Remove
  <1>8. CASE Reschedule(p)
    BY <1>3, <1>6, <1>8 DEF Reschedule
  <1>9. CASE Before(p) \/ DispatchOk(p) \/ DispatchErr(p) \/ DispatchPanic(p)
    BY <1>3, <1>4, <1>9 DEF Before, DispatchOk, DispatchErr, DispatchPanic
  <1>10. CASE Ack(p)
    BY <1>3, <1>10 DEF Ack, TryAck, Remove, Proceed
  <1>11. CASE Store(p)
    BY <1>3, <1>11, ProceedGroup DEF Store
  <1>12. CASE CompleteGroupMember(p)
    <2>1. Goto(p, "gather") \/ Return(p) \/ Goto(p, "chain")
      BY <1>12, ProceedChain DEF CompleteGroupMember
    <2> QED
      BY <1>3, <1>12, <2>1 DEF CompleteGroupMember
  <1>13. CASE GetGroupResults(p) \/ EnqueueChainNext(p)
    BY <1>3, <1>13 DEF GetGroupResults, EnqueueChainNext
  <1>14. CASE EnqueueCallback(p)
    BY <1>3, <1>14, ProceedChain DEF EnqueueCallback
  <1>15. CASE HandleFailure(p)
    BY <1>2, <1>3, <1>4, <1>15, RetriedType DEF HandleFailure
  <1>16. CASE Nack(p) \/ DeadLetter(p)
    BY <1>3, <1>4, <1>16 DEF Nack, DeadLetter, Remove
  <1>17. CASE Requeue(p)
    BY <1>3, <1>6, <1>17 DEF Requeue
  <1>18. CASE DlqPush(p)
    BY <1>1, <1>3, <1>18, DlqIds DEF DlqPush
  <1> QED
    BY <1>7, <1>8, <1>9, <1>10, <1>11, <1>12, <1>13, <1>14, <1>15, <1>16, <1>17, <1>18
       DEF ExecuteTask

KeptInv == CopyInv /\ InFlightIsTracked /\ NoTaskVanishes

\* An execution keeps its message somewhere until it is settled.
LEMMA ExecuteKept ==
  ASSUME KeptInv, NEW p \in Permit, ExecuteTask(p)
  PROVE  InFlightIsTracked' /\ NoTaskVanishes'
  <1>1. CopyInv /\ TypeInv /\ PlaceInv /\ InFlightIsTracked /\ NoTaskVanishes
    BY DEF KeptInv, CopyInv, DrainInv
  <1>2. /\ pc[p] # "idle"
        /\ UNCHANGED <<hand, loop>>
        /\ \A r \in Permit \ {p} : pc'[r] = pc[r] /\ msg'[r] = msg[r]
        /\ pc'[p] # "idle" => Id(p)' = Id(p)
    BY <1>1, ExecuteFrame
  <1>3. /\ processing \ {Id(p)} \subseteq processing'
        /\ pc'[p] \in Tracked => Id(p)' = Id(p) /\ Id(p) \in processing'
        /\ pc'[p] = "idle" /\ pc[p] \notin AfterSuccess =>
              Id(p) \in Queued' \cup DeadLettered' \cup dropped' \cup processing'
    BY <1>1, ExecuteTracks
  <1>4. \A r \in Permit \ {p} : Id(r)' = Id(r) /\ (pc[r] # "idle" => Id(r) # Id(p))
    BY <1>1, <1>2 DEF Id, PlaceInv, FlyingPlace
  <1>5. InFlightIsTracked'
    <2> SUFFICES ASSUME NEW r \in Permit, pc'[r] \in Tracked
                 PROVE  Id(r)' \in processing'
      BY DEF InFlightIsTracked, InFlight, Tracked
    <2>1. CASE r = p
      BY <1>3, <2>1
    <2>2. CASE r # p
      BY <1>1, <1>2, <1>3, <1>4, <2>2 DEF InFlightIsTracked, InFlight, Tracked
    <2> QED
      BY <2>1, <2>2
  <1>6. PlaceInv'
    BY <1>1, ExecutePlace
  <1>7. /\ done \subseteq done' /\ dropped \subseteq dropped'
        /\ Queued \subseteq Queued' /\ DeadLettered \subseteq DeadLettered'
        /\ \A t \in sent' : t \in sent \/ t \in Queued'
    <2>1. queues' = queues => Queued' = Queued
      BY DEF Queued, Ids
    <2>2. dlq' = dlq => DeadLettered' = DeadLettered
      BY DEF DeadLettered, Ids
    <2>3. \A m \in Message : Enqueue(m) /\ m.id \notin Queued => Queued' = Queued \cup {m.id}
      BY <1>1, EnqueueIds DEF TypeInv, PlaceInv
    <2>4. CASE KeepsCopies(p) \/ Succeeds(p) \/ Drops(p)
      BY <2>1, <2>2, <2>4 DEF KeepsCopies, Succeeds, Drops
    <2>5. CASE Buries(p)
      BY <2>1, <2>5 DEF Buries
    <2>6. CASE Requeues(p)
      BY <1>1, <1>2, <2>2, <2>3, <2>6 DEF Requeues, PlaceInv, FlyingPlace
    <2>7. ASSUME NEW c \in Task, ContinuesWith(p, c)
          PROVE  /\ done \subseteq done' /\ dropped \subseteq dropped'
                 /\ Queued \subseteq Queued' /\ DeadLettered \subseteq DeadLettered'
                 /\ \A t \in sent' : t \in sent \/ t \in Queued'
      <3>1. c \notin Queued
        BY <1>1, <1>2, <2>7, ContinuationIsFresh DEF PlaceInv, QueuedPlace
      <3> QED
        BY <2>2, <2>3, <2>7, <3>1 DEF ContinuesWith
    <2> QED
      BY <1>1, <2>4, <2>5, <2>6, <2>7, ExecuteKinds
  <1>8. ASSUME NEW t \in sent'
        PROVE  t \in Queued' \cup InHand' \cup Executing' \cup DeadLettered' \cup done'
                     \cup processing' \cup dropped'
    <2>1. InHand' = InHand
      BY <1>2 DEF InHand
    <2>2. CASE t = Id(p)
      <3>1. CASE pc'[p] = "idle" /\ pc[p] \notin AfterSuccess
        BY <1>3, <2>2, <3>1
      <3>2. CASE pc[p] \in AfterSuccess
        BY <1>1, <1>2, <1>7, <2>2, <3>2 DEF PlaceInv, FlyingPlace
      <3>3. CASE pc'[p] # "idle" /\ pc'[p] \in AfterSuccess
        BY <1>2, <1>6, <2>2, <3>3 DEF PlaceInv, FlyingPlace
      <3>4. CASE pc'[p] # "idle" /\ pc'[p] \notin AfterSuccess
        BY <1>2, <2>2, <3>4 DEF Executing, InFlight, Id
      <3> QED
        BY <3>1, <3>2, <3>3, <3>4
    <2>3. CASE t # Id(p) /\ t \in sent
      <3>1. t \in Executing => t \in Executing'
        BY <1>2, <1>4, <2>3 DEF Executing, InFlight, Id
      <3> QED
        BY <1>1, <1>3, <1>7, <2>1, <2>3, <3>1 DEF NoTaskVanishes
    <2> QED
      BY <1>7, <2>2, <2>3
  <1> QED
    BY <1>5, <1>8 DEF NoTaskVanishes

\* The loop hands a message over, or discards it with the dequeue it cancels.
LEMMA RunKept ==
  ASSUME KeptInv, Run
  PROVE  InFlightIsTracked' /\ NoTaskVanishes'
  <1>1. CopyInv /\ TypeInv /\ TypeOK /\ PlaceInv /\ PermitOwner
    BY DEF KeptInv, CopyInv, DrainInv, TypeInv
  <1>2. InFlightIsTracked /\ NoTaskVanishes
    BY DEF KeptInv
  <1>3. queues' = queues => Queued' = Queued
    BY DEF Queued, Ids
  <1>4. dlq' = dlq => DeadLettered' = DeadLettered
    BY DEF DeadLettered, Ids
  <1> USE DEF brokerVars, loopVars, execVars, backendVars, envVars, histVars
  <1>5. pc' = pc /\ msg' = msg => Executing' = Executing
    BY DEF Executing, InFlight, Id
  <1>6. pc' = pc /\ msg' = msg /\ processing' = processing => InFlightIsTracked'
    BY <1>2 DEF InFlightIsTracked, InFlight, Id
  <1>7. CASE UNCHANGED <<queues, dlq, processing, execVars, histVars>> /\ loop # "track"
    BY <1>2, <1>3, <1>4, <1>5, <1>6, <1>7 DEF NoTaskVanishes, InHand
  <1>8. CASE Pop
    BY <1>1, <1>2, <1>4, <1>5, <1>6, <1>8, PopIds DEF NoTaskVanishes, InHand, PlaceInv, Pop
  <1>9. CASE TrackAndSpawn
    <2>1. PICK k \in Permit : k = grant
      BY <1>1, <1>9 DEF TrackAndSpawn, TypeOK
    <2>2. /\ pc[k] = "idle" /\ pc'[k] = "start" /\ msg'[k] = hand
          /\ \A r \in Permit \ {k} : pc'[r] = pc[r] /\ msg'[r] = msg[r]
      BY <1>1, <1>9, <2>1 DEF TrackAndSpawn, PermitOwner, TypeOK
    <2>3. processing' = processing \cup {hand.id}
      BY <1>9 DEF TrackAndSpawn
    <2>4. InFlightIsTracked'
      BY <1>2, <2>2, <2>3 DEF InFlightIsTracked, InFlight, Id
    <2>5. Executing \subseteq Executing'
      BY <2>2 DEF Executing, InFlight, Id
    <2> QED
      BY <1>2, <1>3, <1>4, <1>9, <2>3, <2>4, <2>5 DEF NoTaskVanishes, InHand, TrackAndSpawn
  <1>10. CASE CancelDequeue
    BY <1>2, <1>3, <1>4, <1>5, <1>6, <1>10 DEF NoTaskVanishes, InHand, CancelDequeue, DropPermit
  <1>11. CASE \/ CheckCancel \/ Acquire \/ FindNothing \/ Notified \/ DequeueTimeout
              \/ DequeueError \/ EndBackoff \/ CancelAcquire \/ Drained \/ DrainTimeout
    BY <1>7, <1>11 DEF CheckCancel, Acquire, FindNothing, Notified, DequeueTimeout,
       DequeueError, EndBackoff, CancelAcquire, Drained, DrainTimeout, DropPermit
  <1> QED
    BY <1>8, <1>9, <1>10, <1>11 DEF Run

\* The next-state relation keeps every message somewhere.
LEMMA NextKept ==
  ASSUME KeptInv, [Next]_vars
  PROVE  KeptInv'
  <1>1. CopyInv' /\ CopyInv /\ InFlightIsTracked /\ NoTaskVanishes
    BY NextCopy DEF KeptInv
  <1>2. ASSUME UNCHANGED <<dlq, processing, loopVars, execVars, done, dropped>>,
               \A t \in sent' : t \in sent \/ t \in Queued', Queued \subseteq Queued'
        PROVE  KeptInv'
    <2>1. InFlightIsTracked'
      BY <1>1, <1>2 DEF InFlightIsTracked, InFlight, Id, execVars
    <2>2. Executing' = Executing /\ InHand' = InHand /\ DeadLettered' = DeadLettered
      BY <1>2 DEF Executing, InFlight, InHand, DeadLettered, Ids, Id, execVars, loopVars
    <2> QED
      BY <1>1, <1>2, <2>1, <2>2 DEF KeptInv, NoTaskVanishes
  <1>3. queues' = queues => Queued' = Queued
    BY DEF Queued, Ids
  <1>4. ASSUME NEW t \in Task, Submit(t) PROVE KeptInv'
    <2>1. <<>> \in Seq(Task)
      OBVIOUS
    <2>2. NewMessage(t, <<>>) \in Message /\ NewMessage(t, <<>>).id = t
      BY <2>1, NewMessageType
    <2>3. t \notin Queued /\ QueueUnique /\ TypeOK
      BY <1>1, <1>4 DEF Submit, CopyInv, DrainInv, TypeInv, PlaceInv, QueuedPlace
    <2>4. Queued' = Queued \cup {t}
      BY <1>4, <2>2, <2>3, EnqueueIds DEF Submit
    <2> QED
      BY <1>2, <1>4, <2>4 DEF Submit
  <1>5. ASSUME NEW t \in Task, EtaPasses(t) PROVE KeptInv'
    BY <1>2, <1>3, <1>5 DEF EtaPasses, brokerVars, histVars
  <1>6. CASE Cancel
    BY <1>2, <1>3, <1>6 DEF Cancel, brokerVars, histVars
  <1>7. CASE Run
    BY <1>1, <1>7, RunKept DEF KeptInv
  <1>8. ASSUME NEW p \in Permit, ExecuteTask(p) PROVE KeptInv'
    BY <1>1, <1>8, ExecuteKept DEF KeptInv
  <1>9. CASE UNCHANGED vars
    BY <1>2, <1>3, <1>9 DEF vars, brokerVars, histVars
  <1> QED
    BY <1>4, <1>5, <1>6, <1>7, <1>8, <1>9 DEF Next

\* Initially nothing has been enqueued.
LEMMA InitKept == Init => KeptInv
  <1> SUFFICES ASSUME Init PROVE KeptInv
    OBVIOUS
  <1>1. InFlightIsTracked
    BY DEF Init, InFlightIsTracked, InFlight
  <1> QED
    BY <1>1, InitCopy DEF Init, KeptInv, NoTaskVanishes

\* No message disappears: one that was enqueued is queued, popped, executing,
\* settled or recorded in `processing', unless it is the one a cancelled
\* dequeue, or a failing schedule, discarded.
THEOREM Conservation == Spec => []NoTaskVanishes
  <1>1. Init => KeptInv
    BY InitKept
  <1>2. KeptInv /\ [Next]_vars => KeptInv'
    BY NextKept
  <1>3. KeptInv => NoTaskVanishes
    BY DEF KeptInv
  <1> QED
    BY <1>1, <1>2, <1>3, PTL DEF Spec

\* The broker's `processing' map has every message whose execution could still
\* be abandoned, through all retries and the backoff sleep.
THEOREM InFlightTracked == Spec => []InFlightIsTracked
  <1>1. Init => KeptInv
    BY InitKept
  <1>2. KeptInv /\ [Next]_vars => KeptInv'
    BY NextKept
  <1>3. KeptInv => InFlightIsTracked
    BY DEF KeptInv
  <1> QED
    BY <1>1, <1>2, <1>3, PTL DEF Spec
=============================================================================
