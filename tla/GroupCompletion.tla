--------------------------- MODULE GroupCompletion ---------------------------
(***************************************************************************)
(* One chord whose members are executed by several workers that share a    *)
(* result backend: submission of the group, and for each delivery of a     *)
(* member the end of execute_task that counts it and may enqueue the       *)
(* callback (kojin-core/src/worker.rs).                                    *)
(*                                                                         *)
(* The store "counter" is the in-memory backend, and the Redis one, whose  *)
(* script increments a counter and appends the result atomically.          *)
(* The store "rows" is the Postgres backend, which upserts a row per       *)
(* member and counts the rows in a second statement.                       *)
(*                                                                         *)
(* A member may be delivered more than once: a broker redelivers what was  *)
(* not acknowledged in time, while the first execution goes on.            *)
(***************************************************************************)
EXTENDS Naturals, Sequences, FiniteSets, SequencesExt

CONSTANTS
    Member,         \* task ids of the members
    Delivery,       \* executions of members
    MemberOf,       \* the member a delivery executes
    Interrupted,    \* deliveries whose worker may crash, or whose calls fail
    Stores,         \* the backends: "counter", "rows" or both
    NoResults       \* a callback without group_results header

ASSUME GroupAssumption ==
    /\ IsFiniteSet(Member)
    /\ MemberOf \in [Delivery -> Member]
    /\ Interrupted \subseteq Delivery
    /\ Stores \subseteq {"counter", "rows"}
    /\ NoResults \notin Seq(Member)

VARIABLES
    store,          \* the backend in use
    faulty,         \* the deliveries that may be interrupted
    members,        \* where Canvas::apply_inner is: group initialised or not
    completed,      \* the counter of the group
    list,           \* the results list of the group
    rows,           \* kojin_groups: the rows of the group
    pc,             \* per delivery, where execute_task is
    count,          \* per delivery, what complete_group_member returned
    gathered,       \* per delivery, what get_group_results returned
    callbacks       \* the callback messages enqueued, each with its results

setting == <<store, faulty>>
backendVars == <<completed, list, rows>>
vars == <<setting, members, backendVars, pc, count, gathered, callbacks>>

\* message.group_total
Total == Cardinality(Member)

\* The rows init_group inserts have ids no task has.
Placeholder(i) == [task |-> <<"placeholder", i>>, completed |-> FALSE]
MemberRow(m) == [task |-> <<"member", m>>, completed |-> TRUE]

TypeOK ==
    /\ store \in Stores
    /\ faulty \subseteq Interrupted
    /\ members \in {"init", "enqueued"}
    /\ completed \in Nat
    /\ list \in Seq(Member)
    /\ rows \subseteq {Placeholder(i) : i \in 0..(Total - 1)} \cup {MemberRow(m) : m \in Member}
    /\ pc \in [Delivery -> {"start", "count", "compare", "gather", "callback", "end"}]
    /\ count \in [Delivery -> Nat]
    /\ gathered \in [Delivery -> Seq(Member) \cup {NoResults}]
    /\ callbacks \in Seq(Seq(Member) \cup {NoResults})

Goto(d, step) == pc' = [pc EXCEPT ![d] = step]

\* Canvas::apply_inner calls init_group before it enqueues the first member.
\* The counter starts at zero by itself: Redis only stores the total, which
\* nobody reads, and the in-memory backend the zero.
InitCounter ==
    /\ store = "counter"
    /\ members = "init"
    /\ members' = "enqueued"
    /\ UNCHANGED <<setting, backendVars, pc, count, gathered, callbacks>>

Placeholders == {Placeholder(i) : i \in 0..(Total - 1)}

InitRows ==
    /\ store = "rows"
    /\ members = "init"
    /\ members' = "enqueued"
    /\ rows' = Placeholders
    /\ UNCHANGED <<setting, completed, list, pc, count, gathered, callbacks>>

-----------------------------------------------------------------------------
(* complete_group_member *)

\* In memory under a lock, in Redis by a script: count and append at once.
CountAndAppend(d) ==
    /\ store = "counter"
    /\ pc[d] = "start"
    /\ completed' = completed + 1
    /\ list' = Append(list, MemberOf[d])
    /\ count' = [count EXCEPT ![d] = completed + 1]
    /\ Goto(d, "compare")
    /\ UNCHANGED <<setting, members, rows, gathered, callbacks>>

\* Postgres, first statement: one row per member, however often it completes.
Upsert(d) ==
    /\ store = "rows"
    /\ pc[d] = "start"
    /\ rows' = rows \cup {MemberRow(MemberOf[d])}
    /\ Goto(d, "count")
    /\ UNCHANGED <<setting, members, completed, list, count, gathered, callbacks>>

\* Mutant of CompletedRows: the placeholders are counted, too.
AllRows == rows

CompletedRows == {r \in rows : r.completed}

\* Postgres, second statement.
CountRows(d) ==
    /\ pc[d] = "count"
    /\ count' = [count EXCEPT ![d] = Cardinality(CompletedRows)]
    /\ Goto(d, "compare")
    /\ UNCHANGED <<setting, members, backendVars, gathered, callbacks>>

-----------------------------------------------------------------------------
(* The group block of execute_task *)

\* Mutants of IsLast: every completion past the total fires; one too early;
\* the count as it was before the member completed.
IsLastOrLater(n) == n >= Total
IsNextToLast(n) == n + 1 >= Total
WasLast(n) == n = Total + 1

IsLast(n) == n = Total

Compare(d) ==
    /\ pc[d] = "compare"
    /\ Goto(d, IF IsLast(count[d]) THEN "gather" ELSE "end")
    /\ UNCHANGED <<setting, members, backendVars, count, gathered, callbacks>>

ReadList(d) ==
    /\ store = "counter"
    /\ pc[d] = "gather"
    /\ gathered' = [gathered EXCEPT ![d] = list]
    /\ Goto(d, "callback")
    /\ UNCHANGED <<setting, members, backendVars, count, callbacks>>

\* The completed rows, ordered by task id.
ReadRows(d) ==
    /\ store = "rows"
    /\ pc[d] = "gather"
    /\ gathered' = [gathered EXCEPT ![d] =
                        SetToSeq({m \in Member : MemberRow(m) \in CompletedRows})]
    /\ Goto(d, "callback")
    /\ UNCHANGED <<setting, members, backendVars, count, callbacks>>

\* If the results cannot be read the callback is enqueued without them.
ReadFails(d) ==
    /\ pc[d] = "gather"
    /\ d \in faulty
    /\ gathered' = [gathered EXCEPT ![d] = NoResults]
    /\ Goto(d, "callback")
    /\ UNCHANGED <<setting, members, backendVars, count, callbacks>>

EnqueueCallback(d) ==
    /\ pc[d] = "callback"
    /\ callbacks' = Append(callbacks, gathered[d])
    /\ Goto(d, "end")
    /\ UNCHANGED <<setting, members, backendVars, count, gathered>>

\* The worker crashes, or a call returns Err: this execution enqueues nothing.
Interrupt(d) ==
    /\ d \in faulty
    /\ pc[d] # "end"
    /\ Goto(d, "end")
    /\ UNCHANGED <<setting, members, backendVars, count, gathered, callbacks>>

Complete(d) ==
    /\ members = "enqueued"
    /\ \/ CountAndAppend(d) \/ Upsert(d) \/ CountRows(d) \/ Compare(d)
       \/ ReadList(d) \/ ReadRows(d) \/ ReadFails(d) \/ EnqueueCallback(d)
       \/ Interrupt(d)

-----------------------------------------------------------------------------
Init ==
    /\ store \in Stores
    /\ faulty \in SUBSET Interrupted
    /\ members = "init"
    /\ completed = 0
    /\ list = <<>>
    /\ rows = {}
    /\ pc = [d \in Delivery |-> "start"]
    /\ count = [d \in Delivery |-> 0]
    /\ gathered = [d \in Delivery |-> NoResults]
    /\ callbacks = <<>>

Next == InitCounter \/ InitRows \/ \E d \in Delivery : Complete(d)

Spec == Init /\ [][Next]_vars

\* A runtime polls what is ready.  Nothing is assumed of a delivery that may
\* be interrupted.
Fairness ==
    /\ WF_vars(InitCounter \/ InitRows)
    /\ \A d \in Delivery : WF_vars(d \notin faulty /\ Complete(d))

FairSpec == Spec /\ Fairness

-----------------------------------------------------------------------------
(* Correctness *)

\* complete_group_member of a counter returns the total to one delivery only, so
\* the callback is enqueued once at most, whatever the order in which the workers
\* count, compare and read, and however often a member is delivered.
CounterFiresOnce == store = "counter" => Len(callbacks) <= 1

\* A callback that carries results carries those of every member: always when
\* they are rows, although upsert, count and read are three statements; from a
\* counter's list unless some member is in it twice.
CallbackComplete ==
    \A i \in DOMAIN callbacks :
        /\ callbacks[i] # NoResults
        /\ store = "rows" \/ IsInjective(callbacks[i])
        => Range(callbacks[i]) = Member

\* Whichever workers finish last, one of them sees the total and enqueues the
\* callback: none leaves it to the other.  With rows this holds even if the
\* worker of a redelivered member is interrupted; a counter may have been at
\* its total just for that one.
CallbackFires == store = "rows" \/ faulty = {} => <>(callbacks # <<>>)

-----------------------------------------------------------------------------
(* What the documentation says *)

\* examples/docs/chord.md on the callback: "1 AddTask(100, 200) that fires after
\* all orders complete".
CallbackOnce == Len(callbacks) <= 1
=============================================================================
