------------------------------- MODULE Canvas -------------------------------
(***************************************************************************)
(* Submission of a workflow, Canvas::apply (kojin-core/src/canvas.rs): the *)
(* tree is flattened and its messages are enqueued one after the other,    *)
(* while workers already execute the first of them.  Any call may fail,    *)
(* and then apply returns without undoing what it did.  The workers have   *)
(* the result backend that apply was given, and carry the workflow on as   *)
(* far as handlers succeed and calls do not fail.                          *)
(***************************************************************************)
EXTENDS Naturals, Sequences, FiniteSets, SequencesExt

CONSTANTS
    Workflows,      \* the canvases to look at, and all parts of them
    None

VARIABLES
    workflow,       \* the canvas, None if none is submitted
    submission,     \* "ready", "enqueue", "ok" or "err"
    todo,           \* the messages apply_inner has still to enqueue
    queue,          \* the broker's messages, in any order
    completed,      \* the counter of the group, None before init_group
    ran,            \* the signatures executed, in order
    broken          \* history: the signatures whose execution failed for good, or a call after it

vars == <<workflow, submission, todo, queue, completed, ran, broken>>

Single(sig) == [kind |-> "single", sig |-> sig]
Chain(steps) == [kind |-> "chain", parts |-> steps]
Group(members) == [kind |-> "group", parts |-> members]
Chord(members, callback) == [kind |-> "chord", parts |-> members, callback |-> callback]

\* A message of signature sig with its workflow metadata: group_total (None
\* without a group), chord_callback, and the chain_next header.
IntoMessage(sig, total, callback, rest) ==
    [sig |-> sig, total |-> total, callback |-> callback, rest |-> rest]

-----------------------------------------------------------------------------
(* Flattening *)

\* Inner chains are spliced in; groups and chords are skipped with a warning.
FlattenStep[c \in Workflows] ==
    CASE c.kind = "single" -> <<c.sig>>
      [] c.kind = "chain"  -> FlattenSeq([i \in DOMAIN c.parts |-> FlattenStep[c.parts[i]]])
      [] OTHER             -> <<>>

FlattenChain(steps) == FlattenSeq([i \in DOMAIN steps |-> FlattenStep[steps[i]]])

\* Only single members are kept.
FlattenGroup(members) ==
    FlattenSeq([i \in DOMAIN members |-> IF members[i].kind = "single" THEN <<members[i].sig>> ELSE <<>>])

\* Mutant of TotalOf: the members before they are flattened.
TotalUnflattened(c) == Len(c.parts)

TotalOf(c) == Len(FlattenGroup(c.parts))

Callback(c) == IF c.kind = "chord" /\ FlattenChain(<<c.callback>>) # <<>>
               THEN FlattenChain(<<c.callback>>)[1] ELSE None

\* What apply_inner enqueues, in order.
Messages(c) ==
    CASE c.kind = "single" -> <<IntoMessage(c.sig, None, None, <<>>)>>
      [] c.kind = "chain" ->
            LET sigs == FlattenChain(c.parts)
            IN  IF sigs = <<>> THEN <<>> ELSE <<IntoMessage(sigs[1], None, None, Tail(sigs))>>
      [] c.kind = "chord" /\ Callback(c) = None -> <<>>
      [] OTHER ->
            LET sigs == FlattenGroup(c.parts)
            IN  [i \in DOMAIN sigs |-> IntoMessage(sigs[i], TotalOf(c), Callback(c), <<>>)]

-----------------------------------------------------------------------------
(* Canvas::apply *)

HasGroup == workflow.kind \in {"group", "chord"}

\* init_group comes before the first member is enqueued.
Apply ==
    /\ submission = "ready" /\ workflow # None
    /\ submission' = "enqueue"
    /\ todo' = Messages(workflow)
    /\ completed' = IF HasGroup THEN 0 ELSE None
    /\ UNCHANGED <<workflow, queue, ran, broken>>

InitGroupFails ==
    /\ submission = "ready" /\ workflow # None /\ HasGroup
    /\ submission' = "err"
    /\ UNCHANGED <<workflow, todo, queue, completed, ran, broken>>

EnqueueNext ==
    /\ submission = "enqueue" /\ todo # <<>>
    /\ queue' = queue \cup {Head(todo)}
    /\ todo' = Tail(todo)
    /\ UNCHANGED <<workflow, submission, completed, ran, broken>>

\* An error ends apply, whether or not the broker has the message.
EnqueueFails ==
    /\ submission = "enqueue" /\ todo # <<>>
    /\ queue' \in {queue, queue \cup {Head(todo)}}
    /\ submission' = "err"
    /\ todo' = <<>>
    /\ UNCHANGED <<workflow, completed, ran, broken>>

Applied ==
    /\ submission = "enqueue" /\ todo = <<>>
    /\ submission' = "ok"
    /\ UNCHANGED <<workflow, todo, queue, completed, ran, broken>>

-----------------------------------------------------------------------------
(* A worker, as far as it carries the workflow on *)

\* The next message of a chain, with what remains in its header.
Successor(m) ==
    IF m.rest = <<>> THEN {} ELSE {IntoMessage(Head(m.rest), None, None, Tail(m.rest))}

FiredCallback(m, count) ==
    IF m.callback # None /\ count = m.total THEN {IntoMessage(m.callback, None, None, <<>>)} ELSE {}

\* complete_group_member
Counted(m) == IF m.total = None THEN completed ELSE completed + 1

\* The handler succeeds, at once or in a retry, and so does every call after it.
Execute(m) ==
    /\ m \in queue
    /\ ran' = Append(ran, m.sig)
    /\ completed' = Counted(m)
    /\ queue' = (queue \ {m}) \cup Successor(m) \cup FiredCallback(m, completed')
    /\ UNCHANGED <<workflow, submission, todo, broken>>

\* complete_group_member errs, whether or not it has counted: it is logged, and
\* the callback is not looked at.
CountFails(m) ==
    /\ m \in queue /\ m.total # None
    /\ ran' = Append(ran, m.sig)
    /\ completed' \in {completed, Counted(m)}
    /\ queue' = (queue \ {m}) \cup Successor(m)
    /\ broken' = broken \cup {m.sig}
    /\ UNCHANGED <<workflow, submission, todo>>

\* The enqueue of the callback or of the successor errs, which is logged too; the
\* broker may have the message all the same.
ContinuationFails(m) ==
    /\ m \in queue
    /\ ran' = Append(ran, m.sig)
    /\ completed' = Counted(m)
    /\ LET next == Successor(m) \cup FiredCallback(m, completed')
       IN  next # {} /\ \E sent \in SUBSET next : queue' = (queue \ {m}) \cup sent
    /\ broken' = broken \cup {m.sig}
    /\ UNCHANGED <<workflow, submission, todo>>

\* The handler fails until the message is dead-lettered: nothing is counted and
\* nothing comes after it.
DeadLetter(m) ==
    /\ m \in queue
    /\ queue' = queue \ {m}
    /\ broken' = broken \cup {m.sig}
    /\ UNCHANGED <<workflow, submission, todo, completed, ran>>

-----------------------------------------------------------------------------
Init ==
    /\ workflow \in Workflows \cup {None}
    /\ submission = "ready"
    /\ todo = <<>> /\ queue = {} /\ ran = <<>>
    /\ completed = None /\ broken = {}

Next ==
    \/ Apply \/ InitGroupFails \/ EnqueueNext \/ EnqueueFails \/ Applied
    \/ \E m \in queue : Execute(m) \/ CountFails(m) \/ ContinuationFails(m) \/ DeadLetter(m)

Spec == Init /\ [][Next]_vars

Fairness == WF_vars(Next)

-----------------------------------------------------------------------------
(* Correctness *)

Parts(c) ==
    CASE c.kind = "single" -> {}
      [] c.kind = "chord"  -> Range(c.parts) \cup {c.callback}
      [] OTHER             -> Range(c.parts)

\* Every signature of a canvas, and the pairs of which the first has to run
\* before the second: what the types Chain, Group and Chord stand for.
Leaves[c \in Workflows] ==
    IF c.kind = "single" THEN {c.sig} ELSE UNION {Leaves[p] : p \in Parts(c)}

InOrder(c) ==
    CASE c.kind = "chain" ->
            UNION {Leaves[c.parts[p[1]]] \X Leaves[c.parts[p[2]]] :
                   p \in {q \in (DOMAIN c.parts) \X (DOMAIN c.parts) : q[1] < q[2]}}
      [] c.kind = "chord" -> UNION {Leaves[c.parts[i]] \X Leaves[c.callback] : i \in DOMAIN c.parts}
      [] OTHER            -> {}

Before[c \in Workflows] == InOrder(c) \cup UNION {Before[p] : p \in Parts(c)}

\* A canvas is a finite tree with canvases as its parts, and a signature stands
\* for one task of it.
CanvasConstants ==
    /\ \A c \in Workflows :
        /\ c.kind \in {"single", "chain", "group", "chord"}
        /\ c.kind # "single" =>
            /\ c.parts \in Seq(Workflows)
            /\ \A i, j \in DOMAIN c.parts : i # j => Leaves[c.parts[i]] \cap Leaves[c.parts[j]] = {}
        /\ c.kind = "chord" =>
            /\ c.callback \in Workflows
            /\ \A i \in DOMAIN c.parts : Leaves[c.parts[i]] \cap Leaves[c.callback] = {}
        /\ None \notin Leaves[c]
    /\ \A S \in SUBSET Workflows : S # {} => \E c \in S : Parts(c) \cap S = {}
    /\ None \notin Workflows /\ None \notin Nat

\* The canvases apply supports in full.
OnlyChains[c \in Workflows] ==
    c.kind = "single" \/ (c.kind = "chain" /\ \A i \in DOMAIN c.parts : OnlyChains[c.parts[i]])

Supported(c) ==
    \/ OnlyChains[c]
    \/ /\ c.kind \in {"group", "chord"}
       /\ \A i \in DOMAIN c.parts : c.parts[i].kind = "single"
       /\ c.kind = "chord" => c.callback.kind = "single" /\ c.parts # <<>>

TypeOK ==
    /\ workflow \in Workflows \cup {None}
    /\ submission \in {"ready", "enqueue", "ok", "err"}
    /\ completed \in Nat \cup {None}
    /\ workflow # None => Range(ran) \subseteq Leaves[workflow]

\* A task runs once, and after all that the canvas puts before it, in a nested
\* chain as in a chord whose first members are executed while the others are
\* still being enqueued, and whatever call of apply or of a worker fails: a
\* callback never runs for a group of which a member was not submitted, failed or
\* was not counted.
OrderKept ==
    workflow # None =>
        /\ IsInjective(ran)
        /\ \A p \in Before[workflow] : \A j \in DOMAIN ran :
            ran[j] = p[2] /\ Supported(workflow) => \E i \in 1..(j - 1) : ran[i] = p[1]

\* Members that were skipped do not keep a chord from firing: the total that is
\* announced counts what is enqueued, and when all succeed the last member brings
\* the callback.
\* (A chord whose callback flattens to nothing enqueues no member at all.)
TotalReachable ==
    submission = "ok" /\ queue = {} /\ completed # None /\ broken = {} =>
        \/ workflow.kind = "chord" /\ Callback(workflow) = None
        \/ /\ completed = TotalOf(workflow)
           /\ Callback(workflow) # None /\ completed > 0 => Callback(workflow) \in Range(ran)

\* A workflow that was accepted comes to rest, and if apply supports it in full,
\* every task of it has run except those that failed and those the canvas puts
\* after a task that failed or whose count or continuation did: a failing member
\* keeps the callback of its chord from running, never another member.
WorkflowCompletes ==
    submission = "ok" ~>
        /\ queue = {} /\ workflow # None
        /\ Supported(workflow) =>
            \A l \in Leaves[workflow] :
                l \in Range(ran) \cup broken \/ \E b \in broken : <<b, l>> \in Before[workflow]
=============================================================================
