-------------------------------- MODULE Cron --------------------------------
(***************************************************************************)
(* The cron scheduler (kojin-core/src/cron.rs), spawned by Worker::run with *)
(* a poll interval of one second.  It looks at the clock once per poll,    *)
(* then goes through the entries and awaits the broker for each that is    *)
(* due, while the clock moves on.                                          *)
(***************************************************************************)
EXTENDS Naturals, Sequences, FiniteSets, FiniteSetsExt

CONSTANTS
    Registries,     \* sequences of entries [name, schedule] to look at
    Second,         \* ticks of the clock in a second
    PollIntervals,  \* in ticks; Worker::run passes one second
    MaxTime,        \* bound: the clock stops here
    None

VARIABLES
    registry,       \* CronRegistry.entries
    poll_interval,
    clock,          \* Utc::now()
    phase,          \* "poll", "entries", "enqueue", "sleep" or "stopped"
    now,            \* the clock at the last poll
    entry,          \* the index of the entry looked at
    wake,           \* end of the sleep
    last_runs,      \* by name, None where there is none
    cancelled,      \* the cancellation token
    fires           \* history: [entry, at, sent] of every fire

vars == <<registry, poll_interval, clock, phase, now, entry, wake, last_runs, cancelled, fires>>
loopVars == <<registry, poll_interval>>

Names == {registry[i].name : i \in DOMAIN registry}

\* schedule.after(t).next() <= now, for the times of a schedule.
DueBetween(i, t, until) == \E s \in registry[i].schedule : t < s /\ s <= until

\* Mutant of Due: every poll looks one second back.
DueInLastSecond(i) == \E s \in registry[i].schedule : now < s + Second /\ s <= now

\* Without a last run the scheduler looks one second back.  Subtracting from
\* both sides keeps the time a natural number.
Due(i) ==
    LET last_run == last_runs[registry[i].name]
    IN  IF last_run = None
        THEN \E s \in registry[i].schedule : now < s + Second /\ s <= now
        ELSE DueBetween(i, last_run, now)

-----------------------------------------------------------------------------
Tick ==
    /\ clock < MaxTime
    /\ clock' = clock + 1
    /\ UNCHANGED <<loopVars, phase, now, entry, wake, last_runs, cancelled, fires>>

Cancel ==
    /\ ~cancelled
    /\ cancelled' = TRUE
    /\ UNCHANGED <<loopVars, clock, phase, now, entry, wake, last_runs, fires>>

\* Utc::now() is read once for all the entries.
Poll ==
    /\ phase = "poll" /\ ~cancelled
    /\ phase' = "entries"
    /\ now' = clock
    /\ entry' = 1
    /\ UNCHANGED <<loopVars, clock, wake, last_runs, cancelled, fires>>

Stop ==
    /\ phase \in {"poll", "sleep"} /\ cancelled
    /\ phase' = "stopped"
    /\ UNCHANGED <<loopVars, clock, now, entry, wake, last_runs, cancelled, fires>>

\* An entry that is due is enqueued, and the loop waits for the broker.
Look ==
    /\ phase = "entries" /\ entry <= Len(registry)
    /\ IF Due(entry) THEN phase' = "enqueue" /\ UNCHANGED entry
                     ELSE entry' = entry + 1 /\ UNCHANGED phase
    /\ UNCHANGED <<loopVars, clock, now, wake, last_runs, cancelled, fires>>

\* last_runs.insert(entry.name, now)
RanAt(i) == [last_runs EXCEPT ![registry[i].name] = now]

\* The broker answers, with an error perhaps: that is only logged, and the run
\* counts as done.
Fire(sent) ==
    /\ phase = "enqueue"
    /\ fires' = fires \cup {[entry |-> entry, at |-> now, sent |-> sent]}
    /\ last_runs' = RanAt(entry)
    /\ entry' = entry + 1
    /\ phase' = "entries"
    /\ UNCHANGED <<loopVars, clock, now, wake, cancelled>>

Sleep ==
    /\ phase = "entries" /\ entry > Len(registry)
    /\ phase' = "sleep"
    /\ wake' = clock + poll_interval
    /\ UNCHANGED <<loopVars, clock, now, entry, last_runs, cancelled, fires>>

\* The scheduler may wake up late.  A sleep that would end after MaxTime ends
\* then, so that the end of time does not cut off the last poll.
Wake ==
    /\ phase = "sleep" /\ (clock >= wake \/ clock = MaxTime)
    /\ phase' = "poll"
    /\ UNCHANGED <<loopVars, clock, now, entry, wake, last_runs, cancelled, fires>>

-----------------------------------------------------------------------------
Init ==
    /\ registry \in Registries
    /\ poll_interval \in PollIntervals
    /\ clock \in 0..Second
    /\ phase = "poll"
    /\ now = 0 /\ entry = 1 /\ wake = 0
    /\ last_runs = [n \in Names |-> None]
    /\ cancelled = FALSE
    /\ fires = {}

Step == Poll \/ Stop \/ Look \/ (\E sent \in BOOLEAN : Fire(sent)) \/ Sleep \/ Wake

Next == Tick \/ Cancel \/ Step

Spec == Init /\ [][Next]_vars

\* The clock runs, the broker answers, and the runtime wakes the loop.
Fairness == WF_vars(Tick) /\ WF_vars(Step)

-----------------------------------------------------------------------------
(* Correctness *)

\* Times are natural numbers, and the clock starts within its bound.
CronConstants ==
    /\ \A r \in Registries : /\ r \in Seq({r[i] : i \in DOMAIN r})
                             /\ \A i \in DOMAIN r : r[i].schedule \subseteq Nat
    /\ Second \in Nat /\ PollIntervals \subseteq Nat
    /\ MaxTime \in Nat /\ Second <= MaxTime /\ None \notin Nat

FiresOf(i) == {f \in fires : f.entry = i}

\* Names are not checked for being unique; the properties of an entry are
\* about one that shares its name with no other.
OwnName(i) == \A j \in DOMAIN registry : registry[j].name = registry[i].name => j = i

TypeOK ==
    /\ registry \in Registries /\ poll_interval \in PollIntervals
    /\ clock \in 0..MaxTime /\ now <= clock
    /\ phase \in {"poll", "entries", "enqueue", "sleep", "stopped"}
    /\ entry \in 1..(Len(registry) + 1)
    /\ last_runs \in [Names -> 0..MaxTime \cup {None}]

\* However short the poll interval, an occurrence is not fired twice: between
\* two fires of an entry there is an occurrence of its schedule.
FiresOncePerOccurrence ==
    \A i \in DOMAIN registry : \A f, g \in FiresOf(i) :
        f.at < g.at => DueBetween(i, f.at, g.at)

\* Once an entry has fired, no occurrence is passed over: however slow the
\* broker made a poll, a later poll has answered it (by one fire for all the
\* occurrences it missed), also when other entries were enqueued in between.
NoneMissedOnceRunning ==
    phase = "sleep" =>
        \A i \in DOMAIN registry : OwnName(i) /\ FiresOf(i) # {} =>
            \A s \in registry[i].schedule :
                (\E f \in FiresOf(i) : f.at < s) /\ s <= now => \E f \in FiresOf(i) : s <= f.at

\* scheduler_loop fires an entry at most once per occurrence, and passes over no
\* occurrence of an entry that has fired.
OccurrencesAnsweredOnce == TypeOK /\ FiresOncePerOccurrence /\ NoneMissedOnceRunning

\* An occurrence of a running entry that no poll has answered yet.
Unanswered(i) ==
    /\ FiresOf(i) # {}
    /\ \E s \in registry[i].schedule : s <= clock /\ \A f \in FiresOf(i) : f.at < s

\* An entry that has fired keeps firing: an occurrence does not stay unanswered,
\* unless the worker is cancelled.
KeepsFiring == Unanswered(1) ~> cancelled \/ ~Unanswered(1)
=============================================================================
