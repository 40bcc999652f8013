---------------------------- MODULE ClientParts ----------------------------
(***************************************************************************)
(* Cron, ResultStore, Dashboard, Canvas and Backoff side by side, with     *)
(* constants of their own: the parts beside the worker about which         *)
(* ClientProofs has theorems.                                              *)
(***************************************************************************)
EXTENDS Dashboard

CONSTANTS Registries, Second, PollIntervals, CronEnd
VARIABLES registry, poll_interval, clock, phase, now, entry, wake, last_runs, cancelled, fires

CONSTANTS Client, Values, Backends, Timeout, PollEvery, Ttl, ResultEnd
VARIABLES backend, time, row, caller, page, visible, steady

CONSTANT Workflows
VARIABLES workflow, submission, todo, queue, completed, ran, broken

CONSTANTS Width, MaxRetry
VARIABLES strategy, retry, delay

K == INSTANCE Cron WITH MaxTime <- CronEnd
R == INSTANCE ResultStore WITH MaxTime <- ResultEnd
C == INSTANCE Canvas
B == INSTANCE Backoff

ASSUME PartsAssumption ==
    K!CronConstants /\ R!ResultConstants /\ C!CanvasConstants /\ B!DelayConstants /\ ViewConstants

\* scheduler_loop fires an entry at most once per occurrence, and passes over no
\* occurrence of an entry that has fired.
OccurrencesAnsweredOnce == K!OccurrencesAnsweredOnce

\* wait returns only what get could have read during the call, and times out
\* neither early nor on a result it could have read.
WaitAnswersTruly == R!WaitAnswersTruly

\* Canvas::apply and the worker run each task of a workflow once and in order,
\* also when the submission fails half-way or a task does, and the total that
\* apply announces is what its members reach if all succeed.
WorkflowAsDrawn == C!TypeOK /\ C!OrderKept /\ C!TotalReachable

\* BackoffStrategy::delay_for is exact at every retry, past the width of a word.
DelayIsExact == B!DelayIsExact
=============================================================================
