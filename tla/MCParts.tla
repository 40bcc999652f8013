------------------------------- MODULE MCParts -------------------------------
(***************************************************************************)
(* The parts that stand beside worker and broker, each on its own: a       *)
(* behaviour is one of the submission of a workflow, of the cron           *)
(* scheduler, of the result of a task, of the delays of its retries, of    *)
(* the dashboard's requests, of the middleware pipeline or of agent tasks. *)
(* They share no state, so that one run over their sum checks each.        *)
(***************************************************************************)
EXTENDS ClientParts, Pipeline, Agent

VARIABLE part

Single(sig) == [kind |-> "single", sig |-> sig]

\* Nested chains, members that a group and a chain skip, an empty chord, and a
\* callback that is a chain or missing; and the parts of all these.
Nested == [kind |-> "chain", parts |-> <<Single("b"), Single("c")>>]
Parallel == [kind |-> "group", parts |-> <<Single("b"), Single("c")>>]
MCWorkflows ==
    { Single("a"), Single("b"), Single("c"), Single("d"), Nested, Parallel,
      [kind |-> "chain", parts |-> <<>>],
      [kind |-> "chain", parts |-> <<Single("a"), Nested, Single("d")>>],
      [kind |-> "chain", parts |-> <<Single("a"), Parallel, Single("d")>>],
      [kind |-> "group", parts |-> <<Single("a"), Single("b"), Single("c")>>],
      [kind |-> "group", parts |-> <<Single("a"), Nested>>],
      [kind |-> "chord", parts |-> <<Single("a"), Single("b"), Single("c")>>, callback |-> Single("d")],
      [kind |-> "chord", parts |-> <<Single("a"), Nested>>, callback |-> Single("d")],
      [kind |-> "chord", parts |-> <<Single("a")>>, callback |-> Nested],
      [kind |-> "chord", parts |-> <<>>, callback |-> Single("d")],
      [kind |-> "chord", parts |-> <<Single("a")>>, callback |-> Parallel] }

\* Two entries, an entry alone, and two of the same name.
Entry(name, schedule) == [name |-> name, schedule |-> schedule]
MCRegistries == { <<Entry("x", {2, 4, 7})>>,
                  <<Entry("x", {2, 4, 6}), Entry("y", {2, 6})>>,
                  <<Entry("x", {2, 4}), Entry("x", {4, 6})>> }

\* Two deliveries of one task, and a second task with the same deduplication
\* key whose name is not registered.
MCMsg == {"a", "a2", "b"}
MCIdOf == [m \in MCMsg |-> IF m = "b" THEN "b" ELSE "a"]
MCNameOf == [m \in MCMsg |-> IF m = "b" THEN "other" ELSE "known"]
MCKeyOf == [m \in MCMsg |-> "k"]

\* Metrics first, deduplication first, and a pipeline without deduplication.
MCPipelines == {
    <<"metrics", "dedup">>,
    <<"dedup", "metrics">>,
    <<"otel", "rate_limit">> }

ASSUME PipelineConstants == ConstantsOK /\ CountersOK

\* Two SDD tasks that are set to one directory, and a single invocation in the
\* directory of the worker.
MCJob == {"s1", "s2", "c"}
MCKindOf == [j \in MCJob |-> IF j = "c" THEN "claude_code" ELSE "sdd"]
MCCwdOf == [j \in MCJob |-> IF j = "c" THEN Nothing ELSE "dir1"]
MCArgsCwdOf == [j \in MCJob |-> IF j = "s1" THEN "dir2" ELSE Nothing]

\* An SDD task from sdd_sig, with its directory in the arguments.
SigJob == {"s"}
SigKindOf == [j \in SigJob |-> "sdd"]
SigCwdOf == [j \in SigJob |-> Nothing]
SigArgsCwdOf == [j \in SigJob |-> "dir1"]

ASSUME AgentAssumption == AgentConstants

canvasVars == <<workflow, submission, todo, queue, completed, ran, broken>>
cronVars == <<registry, poll_interval, clock, phase, now, entry, wake, last_runs, cancelled, fires>>
resultVars == <<backend, time, row, caller, page, visible, steady>>
delayVars == <<strategy, retry, delay>>
viewVars == <<broker, waiting, used, running, dlq, overview, pager>>
clientVars == <<canvasVars, cronVars, resultVars, delayVars, viewVars>>
partsVars == <<part, clientVars, pipelineVars, agentVars>>

PartsInit ==
    /\ part \in {"canvas", "cron", "results", "delays", "views", "pipeline", "agent"}
    /\ C!Init /\ (workflow # None <=> part = "canvas")
    /\ K!Init /\ (part # "cron" => registry = <<Entry("x", {2, 4, 7})>> /\ poll_interval = 1 /\ clock = 0)
    /\ R!Init /\ (part # "results" => backend = "memory")
    /\ B!Init /\ (part # "delays" => strategy = [kind |-> "fixed", base |-> 1, max |-> 1])
    /\ Init /\ (part # "views" => broker = "memory")
    /\ PipelineInit /\ (part # "pipeline" => middlewares = <<"dedup", "metrics">>)
    /\ AgentInit /\ (part # "agent" => configured /\ broker_kind = "memory")

CanvasNext == part = "canvas" /\ C!Next /\ UNCHANGED <<delayVars, cronVars, resultVars, viewVars>>
CronNext == part = "cron" /\ K!Next /\ UNCHANGED <<delayVars, canvasVars, resultVars, viewVars>>
ResultsNext == part = "results" /\ R!Next /\ UNCHANGED <<delayVars, canvasVars, cronVars, viewVars>>
DelaysNext == part = "delays" /\ B!Next /\ UNCHANGED <<canvasVars, cronVars, resultVars, viewVars>>
ViewsNext == part = "views" /\ Next /\ UNCHANGED <<canvasVars, cronVars, resultVars, delayVars>>

ClientNext ==
    /\ CanvasNext \/ CronNext \/ ResultsNext \/ DelaysNext \/ ViewsNext
    /\ UNCHANGED <<part, pipelineVars, agentVars>>

MiddlewaresNext == part = "pipeline" /\ PipelineNext /\ UNCHANGED <<part, clientVars, agentVars>>

AgentsNext == part = "agent" /\ AgentNext /\ UNCHANGED <<part, clientVars, pipelineVars>>

PartsNext == ClientNext \/ MiddlewaresNext \/ AgentsNext

\* The fairness of each part, for the behaviours that are about it.
PartsFairness ==
    /\ WF_canvasVars(part = "canvas" /\ C!Next)
    /\ WF_cronVars(part = "cron" /\ K!Tick)
    /\ WF_cronVars(part = "cron" /\ K!Step)
    /\ WF_resultVars(part = "results" /\ R!Tick)
    /\ WF_resultVars(part = "results" /\ R!WaitStep("c1"))
    /\ WF_pipelineVars(part = "pipeline" /\ Step)
    /\ \A j \in Job : WF_agentVars(part = "agent" /\ Advance(j))

PartsSpec == PartsInit /\ [][PartsNext]_partsVars /\ PartsFairness

\* The submission of a task from sdd_sig, on its own.
SigSpec == PartsInit /\ part = "agent" /\ [][PartsNext]_partsVars

-----------------------------------------------------------------------------
=============================================================================
