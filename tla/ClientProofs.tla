---------------------------- MODULE ClientProofs ----------------------------
(***************************************************************************)
(* Proofs about the parts that stand beside the worker: Cron, for any      *)
(* entries, schedules and poll interval; ResultStore, for any clients,     *)
(* values, timeout and TTL; Dashboard, for any queues and limits; Backoff, *)
(* for any width of a word and number of retries; Canvas, for any canvases *)
(* of tasks, chains, groups and chords.                                    *)
(***************************************************************************)
EXTENDS ClientParts, SequenceTheorems, FiniteSetTheorems, WellFoundedInduction, TLAPS

-----------------------------------------------------------------------------
(* The cron scheduler *)

\* The last run of an entry, None before the first.
LastRun(i) == last_runs[registry[i].name]

Entries == DOMAIN registry

\* A fire is of an entry and not after its last run, which is not in the future.
FiresInv ==
    /\ \A f \in fires : /\ f.entry \in Entries /\ f.at \in Nat
                        /\ LastRun(f.entry) # None /\ f.at <= LastRun(f.entry)
    /\ \A i \in Entries : LastRun(i) # None => LastRun(i) <= now

\* The last run of an entry that shares its name with no other is one of its own.
OwnRunInv ==
    \A i \in Entries : K!OwnName(i) /\ LastRun(i) # None =>
        \E f \in fires : f.entry = i /\ f.at = LastRun(i)

\* The entries that this poll has looked at have nothing left that is due.
LookedAt(i) == phase \in {"entries", "enqueue"} => i < entry

AnsweredInv ==
    \A i \in Entries : LookedAt(i) /\ LastRun(i) # None => ~K!DueBetween(i, LastRun(i), now)

\* What the loop enqueues is due.
EnqueueInv == phase = "enqueue" => entry \in Entries /\ K!Due(entry)

CronInv ==
    /\ K!TypeOK /\ now \in Nat
    /\ FiresInv /\ OwnRunInv /\ AnsweredInv /\ EnqueueInv /\ K!FiresOncePerOccurrence

\* What the constants say of the entries.
LEMMA EntryTypes ==
  ASSUME K!CronConstants, K!TypeOK
  PROVE  /\ Entries = 1..Len(registry) /\ Len(registry) \in Nat
         /\ \A i \in Entries : registry[i].schedule \subseteq Nat /\ registry[i].name \in K!Names
         /\ \A i \in Entries : LastRun(i) \in Nat \/ LastRun(i) = None
         /\ CronEnd \in Nat /\ clock \in Nat /\ None \notin Nat
  <1>1. registry \in Seq({registry[i] : i \in DOMAIN registry})
    BY DEF K!CronConstants, K!TypeOK
  <1>2. Entries = 1..Len(registry) /\ Len(registry) \in Nat
    BY <1>1 DEF Entries
  <1>3. \A i \in Entries : registry[i].schedule \subseteq Nat /\ registry[i].name \in K!Names
    BY DEF K!CronConstants, K!TypeOK, Entries, K!Names
  <1>4. CronEnd \in Nat /\ clock \in Nat /\ None \notin Nat
    BY DEF K!CronConstants, K!TypeOK
  <1>5. \A i \in Entries : LastRun(i) \in Nat \/ LastRun(i) = None
    BY <1>3, <1>4 DEF K!TypeOK, LastRun
  <1> QED
    BY <1>2, <1>3, <1>4, <1>5

LEMMA CronInit ==
  ASSUME K!CronConstants, K!Init
  PROVE  CronInv
  <1>1. K!TypeOK
    <2>1. registry \in Seq({registry[i] : i \in DOMAIN registry}) /\ registry \in Registries
      BY DEF K!CronConstants, K!Init
    <2>2. Len(registry) \in Nat
      BY <2>1
    <2>3. clock \in 0..CronEnd /\ now <= clock /\ entry \in 1..(Len(registry) + 1)
      BY <2>2 DEF K!CronConstants, K!Init
    <2>4. last_runs \in [K!Names -> 0..CronEnd \cup {None}]
      BY DEF K!Init
    <2> QED
      BY <2>1, <2>3, <2>4 DEF K!Init, K!TypeOK
  <1>2. \A i \in Entries : LastRun(i) = None
    BY <1>1, EntryTypes DEF K!Init, LastRun
  <1> QED
    BY <1>1, <1>2 DEF K!Init, CronInv, FiresInv, OwnRunInv, AnsweredInv, EnqueueInv,
                      K!FiresOncePerOccurrence, K!FiresOf

\* A step of the clock, the token or the loop that fires nothing.
LEMMA CronQuiet ==
  ASSUME K!CronConstants, CronInv, UNCHANGED <<registry, poll_interval, last_runs, fires>>, K!TypeOK',
         now' \in Nat, now <= now', EnqueueInv',
         \A i \in Entries : LookedAt(i)' /\ LastRun(i) # None => ~K!DueBetween(i, LastRun(i), now')
  PROVE  CronInv'
  <1>1. Entries' = Entries /\ \A i : LastRun(i)' = LastRun(i)
    BY DEF Entries, LastRun
  <1>2. FiresInv'
    <2>1. \A i \in Entries : LastRun(i) # None => LastRun(i) <= now'
      BY EntryTypes DEF CronInv, FiresInv
    <2> QED
      BY <1>1, <2>1 DEF CronInv, FiresInv
  <1>3. OwnRunInv'
    BY <1>1 DEF CronInv, OwnRunInv, K!OwnName
  <1>4. AnsweredInv'
    BY <1>1 DEF AnsweredInv, K!DueBetween
  <1>5. K!FiresOncePerOccurrence'
    BY DEF CronInv, K!FiresOncePerOccurrence, K!FiresOf, K!DueBetween
  <1> QED
    BY <1>2, <1>3, <1>4, <1>5 DEF CronInv

LEMMA CronFires ==
  ASSUME K!CronConstants, CronInv, NEW sent \in BOOLEAN, K!Fire(sent)
  PROVE  CronInv'
  <1>1. /\ UNCHANGED <<registry, poll_interval, clock, now, wake, cancelled>>
        /\ entry \in Entries /\ K!Due(entry) /\ entry' = entry + 1 /\ phase' = "entries"
    BY DEF K!Fire, K!loopVars, CronInv, EnqueueInv
  <1>2. PICK e \in Entries : e = entry
    BY <1>1
  <1>3. PICK new : new = [entry |-> e, at |-> now, sent |-> sent] /\ fires' = fires \cup {new}
    BY <1>2 DEF K!Fire
  <1>4. new.entry = e /\ new.at = now
    BY <1>3
  <1>5. /\ Entries = 1..Len(registry) /\ Len(registry) \in Nat /\ now \in Nat
        /\ \A i \in Entries : registry[i].schedule \subseteq Nat /\ registry[i].name \in K!Names
        /\ \A i \in Entries : LastRun(i) \in Nat \/ LastRun(i) = None
        /\ None \notin Nat
    BY EntryTypes DEF CronInv
  <1>6. Entries' = Entries /\ \A i \in Entries : K!OwnName(i)' <=> K!OwnName(i)
    BY <1>1 DEF Entries, K!OwnName
  <1>7. \A i \in Entries : LastRun(i)' = IF registry[i].name = registry[e].name THEN now ELSE LastRun(i)
    BY <1>1, <1>2, <1>5 DEF K!Fire, K!RanAt, LastRun, CronInv, K!TypeOK
  <1>8. K!TypeOK'
    <2>1. now \in 0..CronEnd /\ entry' \in 1..(Len(registry) + 1)
      BY <1>1, <1>5, EntryTypes DEF CronInv, K!TypeOK
    <2>2. last_runs' \in [K!Names -> 0..CronEnd \cup {None}]
      BY <2>1 DEF K!Fire, K!RanAt, CronInv, K!TypeOK
    <2>3. K!Names' = K!Names
      BY <1>1 DEF K!Names
    <2> QED
      BY <1>1, <2>1, <2>2, <2>3 DEF CronInv, K!TypeOK
  <1>9. FiresInv'
    <2>1. \A f \in fires : f.entry \in Entries /\ f.at \in Nat /\ LastRun(f.entry) # None /\ f.at <= LastRun(f.entry)
      BY DEF CronInv, FiresInv
    <2>2. \A i \in Entries : LastRun(i) # None => LastRun(i) <= now
      BY DEF CronInv, FiresInv
    <2>3. \A f \in fires : LastRun(f.entry)' # None /\ f.at <= LastRun(f.entry)'
      BY <1>5, <1>7, <2>1, <2>2
    <2>4. LastRun(e)' = now
      BY <1>7
    <2>5. \A i \in Entries : LastRun(i)' # None => LastRun(i)' <= now
      BY <1>5, <1>7, <2>2
    <2>6. LastRun(new.entry)' # None /\ new.at <= LastRun(new.entry)' /\ new.at \in Nat
      BY <1>4, <1>5, <2>4
    <2> QED
      BY <1>1, <1>3, <1>4, <1>6, <2>1, <2>3, <2>5, <2>6 DEF FiresInv
  <1>10. OwnRunInv'
    <2> SUFFICES ASSUME NEW i \in Entries, K!OwnName(i), LastRun(i)' # None
                 PROVE  \E f \in fires' : f.entry = i /\ f.at = LastRun(i)'
      BY <1>6 DEF OwnRunInv
    <2>1. CASE i = e
      BY <1>3, <1>4, <1>7, <2>1
    <2>2. CASE i # e
      <3>1. LastRun(i)' = LastRun(i)
        BY <1>7, <2>2 DEF K!OwnName, Entries
      <3> QED
        BY <1>3, <3>1 DEF CronInv, OwnRunInv
    <2> QED
      BY <2>1, <2>2
  <1>11. AnsweredInv'
    <2> SUFFICES ASSUME NEW i \in Entries, i < e + 1, LastRun(i)' # None
                 PROVE  ~K!DueBetween(i, LastRun(i)', now)
      BY <1>1, <1>2, <1>6 DEF AnsweredInv, LookedAt, K!DueBetween
    <2>1. CASE registry[i].name = registry[e].name
      <3>1. LastRun(i)' = now
        BY <1>7, <2>1
      <3>2. \A s \in registry[i].schedule : ~(now < s /\ s <= now)
        BY <1>5
      <3> QED
        BY <3>1, <3>2 DEF K!DueBetween
    <2>2. CASE registry[i].name # registry[e].name
      <3>1. LastRun(i)' = LastRun(i)
        BY <1>7, <2>2
      <3>2. i < e
        BY <1>5, <2>2
      <3>3. LookedAt(i)
        BY <1>2, <3>2 DEF LookedAt
      <3> QED
        BY <3>1, <3>3 DEF CronInv, AnsweredInv
    <2> QED
      BY <2>1, <2>2
  <1>12. K!FiresOncePerOccurrence'
    <2> SUFFICES ASSUME NEW f \in fires', NEW g \in fires', f.entry = g.entry, f.entry \in Entries, f.at < g.at
                 PROVE  K!DueBetween(f.entry, f.at, g.at)
      BY <1>1, <1>6 DEF K!FiresOncePerOccurrence, K!FiresOf, K!DueBetween, Entries
    <2>0. /\ \A h \in fires : h.at \in Nat /\ h.at <= now /\ LastRun(h.entry) # None /\ h.at <= LastRun(h.entry)
          /\ \A h \in fires : LastRun(h.entry) \in Nat
      BY <1>5 DEF CronInv, FiresInv
    <2>1. CASE f \in fires /\ g \in fires
      BY <2>1 DEF CronInv, K!FiresOncePerOccurrence, K!FiresOf, Entries
    <2>2. CASE f = new
      <3>1. ~(f.at < g.at)
        BY <1>3, <1>4, <1>5, <2>0, <2>2
      <3> QED
        BY <3>1
    <2>3. CASE f \in fires /\ g = new
      <3>1. f.entry = e /\ g.at = now /\ LastRun(e) # None /\ LastRun(e) \in Nat /\ f.at <= LastRun(e) /\ f.at \in Nat
        BY <1>4, <2>0, <2>3
      <3>2. K!DueBetween(e, LastRun(e), now)
        BY <1>1, <1>2, <3>1 DEF K!Due, LastRun
      <3>3. PICK s \in registry[e].schedule : LastRun(e) < s /\ s <= now
        BY <3>2 DEF K!DueBetween
      <3>4. s \in Nat /\ f.at < s
        BY <1>5, <3>1, <3>3
      <3> QED
        BY <3>1, <3>3, <3>4 DEF K!DueBetween
    <2> QED
      BY <1>3, <2>1, <2>2, <2>3
  <1>13. EnqueueInv' /\ now' \in Nat
    BY <1>1, <1>5 DEF EnqueueInv
  <1> QED
    BY <1>8, <1>9, <1>10, <1>11, <1>12, <1>13 DEF CronInv

LEMMA CronStep ==
  ASSUME K!CronConstants, CronInv, [K!Next]_(K!vars)
  PROVE  CronInv'
  <1>1. /\ Entries = 1..Len(registry) /\ Len(registry) \in Nat /\ now \in Nat /\ clock \in Nat /\ CronEnd \in Nat
        /\ K!TypeOK /\ now <= clock /\ AnsweredInv /\ EnqueueInv /\ entry \in 1..(Len(registry) + 1)
    BY EntryTypes DEF CronInv, K!TypeOK
  <1>2. ASSUME UNCHANGED <<registry, poll_interval, last_runs, fires, phase, now, entry>>, K!TypeOK'
        PROVE  CronInv'
    <2>1. EnqueueInv'
      BY <1>1, <1>2 DEF EnqueueInv, K!Due, K!DueBetween, Entries
    <2>2. \A i \in Entries : LookedAt(i)' /\ LastRun(i) # None => ~K!DueBetween(i, LastRun(i), now')
      BY <1>1, <1>2 DEF AnsweredInv, LookedAt
    <2> QED
      BY <1>1, <1>2, <2>1, <2>2, CronQuiet
  <1>3. CASE K!Tick \/ K!Cancel \/ UNCHANGED K!vars
    <2>1. /\ UNCHANGED <<registry, poll_interval, last_runs, fires, phase, now, entry>>
          /\ clock' \in 0..CronEnd /\ now <= clock'
      BY <1>1, <1>3 DEF K!Tick, K!Cancel, K!vars, K!loopVars, K!TypeOK
    <2>2. K!TypeOK'
      BY <1>1, <2>1 DEF K!TypeOK, K!Names
    <2> QED
      BY <1>2, <2>1, <2>2
  <1>4. CASE K!Poll
    <2>1. /\ UNCHANGED <<registry, poll_interval, last_runs, fires, clock>> /\ now' = clock
          /\ phase' = "entries" /\ entry' = 1
      BY <1>4 DEF K!Poll, K!loopVars
    <2>2. K!TypeOK'
      BY <1>1, <2>1 DEF K!TypeOK, K!Names
    <2>3. \A i \in Entries : ~LookedAt(i)'
      BY <1>1, <2>1 DEF LookedAt
    <2> QED
      BY <1>1, <2>1, <2>2, <2>3, CronQuiet DEF EnqueueInv
  <1>5. CASE K!Stop \/ K!Wake
    <2>1. /\ UNCHANGED <<registry, poll_interval, last_runs, fires, clock, now, entry>>
          /\ phase \in {"poll", "sleep"} /\ phase' \in {"poll", "stopped"}
      BY <1>5 DEF K!Stop, K!Wake, K!loopVars
    <2>2. K!TypeOK'
      BY <1>1, <2>1 DEF K!TypeOK, K!Names
    <2>3. \A i \in Entries : LastRun(i) # None => ~K!DueBetween(i, LastRun(i), now')
      BY <1>1, <2>1 DEF AnsweredInv, LookedAt
    <2> QED
      BY <1>1, <2>1, <2>2, <2>3, CronQuiet DEF EnqueueInv
  <1>6. CASE K!Sleep
    <2>1. /\ UNCHANGED <<registry, poll_interval, last_runs, fires, clock, now, entry>>
          /\ phase = "entries" /\ phase' = "sleep" /\ entry > Len(registry)
      BY <1>6 DEF K!Sleep, K!loopVars
    <2>2. K!TypeOK'
      BY <1>1, <2>1 DEF K!TypeOK, K!Names
    <2>3. \A i \in Entries : LookedAt(i)
      BY <1>1, <2>1 DEF LookedAt
    <2>4. \A i \in Entries : LastRun(i) # None => ~K!DueBetween(i, LastRun(i), now')
      BY <1>1, <2>1, <2>3 DEF AnsweredInv
    <2> QED
      BY <1>1, <2>1, <2>2, <2>4, CronQuiet DEF EnqueueInv
  <1>7. CASE K!Look
    <2>1. /\ UNCHANGED <<registry, poll_interval, last_runs, fires, clock, now>>
          /\ phase = "entries" /\ entry \in Entries
      BY <1>1, <1>7 DEF K!Look, K!loopVars
    <2>2. CASE K!Due(entry)
      <3>1. phase' = "enqueue" /\ entry' = entry
        BY <1>7, <2>2 DEF K!Look
      <3>2. K!TypeOK'
        BY <1>1, <2>1, <3>1 DEF K!TypeOK, K!Names
      <3>3. EnqueueInv'
        BY <2>1, <2>2, <3>1 DEF EnqueueInv, K!Due, K!DueBetween, Entries
      <3>4. \A i \in Entries : LookedAt(i)' => LookedAt(i)
        BY <2>1, <3>1 DEF LookedAt
      <3>5. \A i \in Entries : LookedAt(i)' /\ LastRun(i) # None => ~K!DueBetween(i, LastRun(i), now')
        BY <1>1, <2>1, <3>4 DEF AnsweredInv
      <3> QED
        BY <1>1, <2>1, <3>2, <3>3, <3>5, CronQuiet
    <2>3. CASE ~K!Due(entry)
      <3>1. phase' = "entries" /\ entry' = entry + 1
        BY <1>7, <2>1, <2>3 DEF K!Look
      <3>2. K!TypeOK'
        BY <1>1, <2>1, <3>1 DEF K!TypeOK, K!Names
      <3>3. \A i \in Entries : LookedAt(i)' => LookedAt(i) \/ i = entry
        BY <1>1, <2>1, <3>1 DEF LookedAt
      <3>4. LastRun(entry) # None => ~K!DueBetween(entry, LastRun(entry), now)
        BY <2>3 DEF K!Due, LastRun
      <3>5. \A i \in Entries : LookedAt(i)' /\ LastRun(i) # None => ~K!DueBetween(i, LastRun(i), now')
        BY <1>1, <2>1, <3>3, <3>4 DEF AnsweredInv
      <3> QED
        BY <1>1, <2>1, <3>1, <3>2, <3>5, CronQuiet DEF EnqueueInv
    <2> QED
      BY <2>2, <2>3
  <1>8. CASE \E sent \in BOOLEAN : K!Fire(sent)
    BY <1>8, CronFires
  <1> QED
    BY <1>3, <1>4, <1>5, <1>6, <1>7, <1>8 DEF K!Next, K!Step

\* scheduler_loop: whatever the entries, their names and schedules, however long the
\* broker takes and however short the poll interval, an entry fires once at most for
\* an occurrence, and an entry that has fired passes over none.
THEOREM CronAnswers ==
  K!Spec => []OccurrencesAnsweredOnce
  <1>1. K!Init => CronInv
    BY CronInit, PartsAssumption
  <1>2. CronInv /\ [K!Next]_(K!vars) => CronInv'
    BY CronStep, PartsAssumption
  <1>3. CronInv => OccurrencesAnsweredOnce
    <2> SUFFICES ASSUME CronInv PROVE K!NoneMissedOnceRunning
      BY DEF CronInv, OccurrencesAnsweredOnce, K!OccurrencesAnsweredOnce
    <2> SUFFICES ASSUME phase = "sleep", NEW i \in Entries, K!OwnName(i), NEW s \in registry[i].schedule, s <= now,
                        NEW f \in fires, f.entry = i, f.at < s
                 PROVE  \E g \in fires : g.entry = i /\ s <= g.at
      BY DEF K!NoneMissedOnceRunning, K!FiresOf, Entries
    <2>1. LastRun(i) # None /\ ~K!DueBetween(i, LastRun(i), now)
      BY DEF CronInv, FiresInv, AnsweredInv, LookedAt
    <2>2. LastRun(i) \in Nat /\ s \in Nat
      BY <2>1, EntryTypes, PartsAssumption DEF CronInv
    <2>3. s <= LastRun(i)
      BY <2>1, <2>2 DEF K!DueBetween
    <2> QED
      BY <2>1, <2>3 DEF CronInv, OwnRunInv
  <1> QED
    BY <1>1, <1>2, <1>3, PTL DEF K!Spec

-----------------------------------------------------------------------------
(* Results *)

CallerType ==
    caller \in [Client -> [pc : {"idle", "get", "check", "sleep", "done"}, deadline : Nat, wake : Nat,
                           answer : R!Answers \cup {None}]]

\* A result in memory has no end, the others have one.
RowInv ==
    row # None => IF backend = "memory" THEN row.expires_at = None ELSE row.expires_at \in Nat

\* A caller that has an answer is through.  What it read is known to be there, and
\* one that found nothing has had an instant without a result since its sleep.
CallerOK(c) ==
    /\ caller[c].answer # None => caller[c].pc = "done"
    /\ caller[c].pc \in {"idle", "check"} => ~steady[c]
    /\ caller[c].answer # None /\ caller[c].answer.kind = "ok" => caller[c].answer.value \in visible[c]
    /\ caller[c].answer = [kind |-> "timeout"] => time >= caller[c].deadline /\ ~steady[c]

ResultInv ==
    /\ R!TypeOK /\ CallerType /\ RowInv
    /\ \A c \in Client : CallerOK(c)

\* get of the three backends reads what is there.
LEMMA ReadsLive ==
  ASSUME R!ResultConstants, ResultInv
  PROVE  R!Readable(row, time) = R!Live(row, time) /\ R!Live(row, time) \in Values \cup {None} /\ time \in Nat
  <1>1. time \in Nat /\ backend \in {"memory", "redis", "postgres"} /\ None \notin Nat
    BY DEF R!ResultConstants, ResultInv, R!TypeOK
  <1>2. CASE row = None
    BY <1>1, <1>2 DEF R!Readable, R!Live
  <1>3. CASE row # None
    <2>1. row.value \in Values /\ (IF backend = "memory" THEN row.expires_at = None ELSE row.expires_at \in Nat)
      BY <1>3 DEF ResultInv, R!TypeOK, RowInv
    <2>2. CASE backend = "memory"
      <3>1. row.expires_at = None
        BY <2>1, <2>2
      <3>2. R!Live(row, time) = row.value
        BY <1>3, <3>1 DEF R!Live
      <3>3. R!Readable(row, time) = row.value
        BY <1>3, <2>2 DEF R!Readable, R!MemoryGet
      <3> QED
        BY <1>1, <2>1, <3>2, <3>3
    <2>3. CASE backend # "memory"
      <3>1. row.expires_at \in Nat /\ row.expires_at # None
        BY <1>1, <2>1, <2>3
      <3>2. time < row.expires_at <=> ~(time >= row.expires_at)
        BY <1>1, <3>1
      <3>3. R!Readable(row, time) = IF time < row.expires_at THEN row.value ELSE None
        BY <1>1, <1>3, <2>3 DEF R!Readable, R!RedisGet, R!PostgresGet
      <3>4. R!Live(row, time) = IF time >= row.expires_at THEN None ELSE row.value
        BY <1>3, <3>1 DEF R!Live
      <3>5. CASE time < row.expires_at
        BY <1>1, <2>1, <3>2, <3>3, <3>4, <3>5
      <3>6. CASE ~(time < row.expires_at)
        BY <1>1, <3>2, <3>3, <3>4, <3>6
      <3> QED
        BY <3>5, <3>6
    <2> QED
      BY <2>2, <2>3
  <1> QED
    BY <1>1, <1>2, <1>3

\* A caller that does not move keeps what it has.
LEMMA OthersKeep ==
  ASSUME ResultInv, NEW c \in Client, R!Observe, caller'[c] = caller[c],
         time \in Nat, time' \in Nat, time <= time'
  PROVE  CallerOK(c)'
  <1>1. CallerOK(c) /\ caller[c].deadline \in Nat
    BY DEF ResultInv, CallerType
  <1>2. caller[c].pc # "idle" => visible[c] \subseteq visible'[c]
    BY DEF R!Observe
  <1>3. steady'[c] => steady[c]
    BY DEF R!Observe
  <1>4. time >= caller[c].deadline => time' >= caller[c].deadline
    BY <1>1
  <1>5. caller[c].answer # None => caller[c].pc # "idle"
    BY <1>1 DEF CallerOK
  <1> QED
    BY <1>1, <1>2, <1>3, <1>4, <1>5 DEF CallerOK

\* Results come and go, and time passes.
LEMMA EnvironmentKeeps ==
  ASSUME R!ResultConstants, ResultInv, UNCHANGED <<backend, caller>>, R!Observe,
         R!TypeOK', RowInv', time <= time'
  PROVE  ResultInv'
  <1>1. time \in Nat /\ time' \in Nat
    BY DEF ResultInv, R!TypeOK, R!ResultConstants
  <1>2. \A c \in Client : CallerOK(c)'
    BY <1>1, OthersKeep
  <1>3. CallerType'
    BY DEF ResultInv, CallerType
  <1> QED
    BY <1>2, <1>3 DEF ResultInv

\* One caller moves.
LEMMA CallerKeeps ==
  ASSUME R!ResultConstants, ResultInv, UNCHANGED <<backend, time, row, page>>, R!Observe,
         NEW c \in Client, NEW k \in [pc : {"idle", "get", "check", "sleep", "done"}, deadline : Nat, wake : Nat,
                                      answer : R!Answers \cup {None}],
         caller' = [caller EXCEPT ![c] = k], CallerOK(c)'
  PROVE  ResultInv'
  <1>1. CallerType' /\ \A d \in Client : d # c => caller'[d] = caller[d]
    BY DEF ResultInv, CallerType
  <1>2. \A d \in Client : d # c => CallerOK(d)'
    <2>1. time \in Nat /\ time' \in Nat /\ time <= time'
      BY ReadsLive
    <2> QED
      BY <1>1, <2>1, OthersKeep
  <1>3. R!TypeOK'
    <2>1. \A d \in Client : /\ caller'[d].pc \in {"idle", "get", "check", "sleep", "done"}
                            /\ caller'[d].answer \in R!Answers \cup {None}
      BY <1>1 DEF CallerType
    <2>2. R!Answers' = R!Answers
      BY DEF R!Answers
    <2> QED
      BY <2>1, <2>2 DEF ResultInv, R!TypeOK
  <1>4. RowInv'
    BY DEF ResultInv, RowInv
  <1> QED
    BY <1>1, <1>2, <1>3, <1>4 DEF ResultInv

LEMMA ResultInit ==
  ASSUME R!ResultConstants, R!Init
  PROVE  ResultInv
  <1>1. \A c \in Client : caller[c].pc = "idle" /\ caller[c].answer = None /\ ~steady[c]
    BY DEF R!Init
  <1>2. None # [kind |-> "timeout"]
    BY DEF R!ResultConstants, R!Answers
  <1>3. \A c \in Client : CallerOK(c)
    BY <1>1, <1>2 DEF CallerOK
  <1>4. CallerType /\ RowInv
    BY DEF R!Init, CallerType, RowInv
  <1>5. R!TypeOK
    BY <1>1 DEF R!Init, R!TypeOK, R!ResultConstants
  <1> QED
    BY <1>3, <1>4, <1>5 DEF ResultInv

LEMMA EnvironmentStep ==
  ASSUME R!ResultConstants, ResultInv,
         R!Tick \/ R!Delete \/ R!GetTaskResult \/ \E v \in Values : R!Store(v)
  PROVE  ResultInv'
  <1>1. /\ UNCHANGED <<backend, caller>> /\ R!Observe
        /\ R!TypeOK /\ RowInv /\ R!Answers' = R!Answers
        /\ time \in Nat /\ ResultEnd \in Nat /\ Ttl \in Nat /\ None \notin Nat
    BY DEF R!Tick, R!Delete, R!GetTaskResult, R!Store, ResultInv, R!TypeOK, R!ResultConstants, R!Answers
  <1>2. CASE R!Tick
    <2>1. time' \in 0..ResultEnd /\ time <= time' /\ UNCHANGED <<row, page>>
      BY <1>1, <1>2 DEF R!Tick, R!TypeOK
    <2> QED
      BY <1>1, <2>1, EnvironmentKeeps DEF R!TypeOK, RowInv
  <1>3. CASE R!Delete
    <2>1. row' = None /\ UNCHANGED <<time, page>>
      BY <1>3 DEF R!Delete
    <2> QED
      BY <1>1, <2>1, EnvironmentKeeps DEF R!TypeOK, RowInv
  <1>4. CASE R!GetTaskResult
    <2>1. page' \in {None, 200, 400, 404, 500} /\ UNCHANGED <<time, row>>
      BY <1>4 DEF R!GetTaskResult
    <2> QED
      BY <1>1, <2>1, EnvironmentKeeps DEF R!TypeOK, RowInv
  <1>5. ASSUME NEW v \in Values, R!Store(v)
        PROVE  ResultInv'
    <2>1. row' = R!RowOf(v) /\ UNCHANGED <<time, page>>
      BY <1>5 DEF R!Store
    <2>2. row' = [value |-> v, expires_at |-> IF backend = "memory" THEN None ELSE time + Ttl]
      BY <1>1, <2>1 DEF R!RowOf, R!MemoryRow, R!RedisRow, R!PostgresRow, R!TypeOK, R!ResultConstants
    <2>3. time + Ttl \in 0..(ResultEnd + Ttl)
      BY <1>1 DEF R!TypeOK
    <2>4. row' \in [value : Values, expires_at : 0..(ResultEnd + Ttl) \cup {None}]
      BY <2>2, <2>3
    <2>5. IF backend = "memory" THEN row'.expires_at = None ELSE row'.expires_at \in Nat
      BY <2>2, <2>3, <1>1
    <2> QED
      BY <1>1, <2>1, <2>4, <2>5, EnvironmentKeeps DEF R!TypeOK, RowInv
  <1> QED
    BY <1>2, <1>3, <1>4, <1>5

LEMMA WaitStep ==
  ASSUME R!ResultConstants, ResultInv, NEW c \in Client, R!Wait(c) \/ R!WaitStep(c)
  PROVE  ResultInv'
  <1> DEFINE Calls == [pc : {"idle", "get", "check", "sleep", "done"}, deadline : Nat, wake : Nat,
                       answer : R!Answers \cup {None}]
  <1>1. /\ caller \in [Client -> Calls] /\ caller[c] \in Calls /\ CallerOK(c)
        /\ time \in Nat /\ Timeout \in Nat /\ PollEvery \in Nat /\ None \notin R!Answers
        /\ None # [kind |-> "timeout"]
    BY ReadsLive DEF ResultInv, CallerType, R!ResultConstants, R!Answers
  <1>2. PICK v : v = R!Live(row, time)
    OBVIOUS
  <1>3. R!Readable(row, time) = v /\ v \in Values \cup {None} /\ None \notin Values
    BY <1>2, ReadsLive DEF R!ResultConstants
  <1>4. UNCHANGED <<backend, time, row, page>> /\ R!Observe
    BY DEF R!Wait, R!WaitStep, R!Get, R!GetFails, R!CheckDeadline, R!Wake, R!Goto
  <1>5. /\ visible'[c] = (IF caller[c].pc = "idle" THEN {} ELSE visible[c]) \cup ({v} \ {None})
        /\ steady'[c] <=> (v # None /\ (steady[c] \/ (caller'[c].pc = "sleep" /\ caller[c].pc # "sleep")))
    BY <1>2, <1>4 DEF R!Observe, R!Live
  <1>6. ASSUME NEW k \in Calls, caller' = [caller EXCEPT ![c] = k],
               k.answer # None => k.pc = "done",
               k.pc \in {"idle", "check"} => ~steady'[c],
               k.answer # None /\ k.answer.kind = "ok" => k.answer.value \in visible'[c],
               k.answer = [kind |-> "timeout"] => time >= k.deadline /\ ~steady'[c]
        PROVE  ResultInv'
    <2>1. caller'[c] = k
      BY <1>1, <1>6
    <2>2. CallerOK(c)'
      BY <1>4, <1>6, <2>1 DEF CallerOK
    <2> QED
      BY <1>4, <1>6, <2>2, CallerKeeps
  <1>7. CASE R!Wait(c)
    <2>0. PICK t \in Nat : t = time + Timeout
      BY <1>1
    <2>1. PICK k : k = [caller[c] EXCEPT !.pc = "get", !.deadline = t]
      OBVIOUS
    <2>2. k \in Calls /\ k.pc = "get" /\ k.answer = caller[c].answer
      BY <1>1, <2>1
    <2>3. caller[c].answer = None
      BY <1>1, <1>7 DEF R!Wait, CallerOK
    <2>4. caller' = [caller EXCEPT ![c] = k]
      BY <1>1, <1>7, <2>0, <2>1 DEF R!Wait
    <2> QED
      BY <1>1, <1>6, <2>2, <2>3, <2>4
  <1>8. ASSUME NEW pc \in {"get", "check", "done"}, NEW a \in R!Answers \cup {None}, R!Goto(c, pc, a)
        PROVE  \E k \in Calls : /\ caller' = [caller EXCEPT ![c] = k]
                                /\ k.pc = pc /\ k.answer = a /\ k.deadline = caller[c].deadline
    <2>1. PICK k : k = [caller[c] EXCEPT !.pc = pc, !.answer = a]
      OBVIOUS
    <2>2. k \in Calls /\ k.pc = pc /\ k.answer = a /\ k.deadline = caller[c].deadline
      BY <1>1, <2>1
    <2>3. caller' = [caller EXCEPT ![c] = k]
      BY <1>1, <1>8, <2>1 DEF R!Goto
    <2> QED
      BY <2>2, <2>3
  <1>9. CASE R!Get(c)
    <2>1. CASE v = None
      <3>1. R!Goto(c, "check", None)
        BY <1>3, <1>9, <2>1 DEF R!Get
      <3>2. PICK k \in Calls : caller' = [caller EXCEPT ![c] = k] /\ k.pc = "check" /\ k.answer = None
        BY <1>8, <3>1
      <3> QED
        BY <1>1, <1>5, <1>6, <2>1, <3>2
    <2>2. CASE v # None
      <3>1. PICK a : a = [kind |-> "ok", value |-> v]
        OBVIOUS
      <3>2. a \in R!Answers /\ a.kind = "ok" /\ a.value = v
        BY <1>3, <2>2, <3>1 DEF R!Answers
      <3>3. R!Goto(c, "done", a)
        BY <1>3, <1>9, <2>2, <3>1 DEF R!Get
      <3>4. PICK k \in Calls : caller' = [caller EXCEPT ![c] = k] /\ k.pc = "done" /\ k.answer = a
        BY <1>8, <3>2, <3>3
      <3>5. v \in visible'[c] /\ a # [kind |-> "timeout"]
        BY <1>5, <2>2, <3>2
      <3> QED
        BY <1>6, <3>2, <3>4, <3>5
    <2> QED
      BY <2>1, <2>2
  <1>10. CASE R!GetFails(c)
    <2>1. PICK a : a = [kind |-> "error"]
      OBVIOUS
    <2>2. a \in R!Answers /\ a.kind = "error" /\ a # [kind |-> "timeout"]
      BY <2>1 DEF R!Answers
    <2>3. R!Goto(c, "done", a)
      BY <1>10, <2>1 DEF R!GetFails
    <2>4. PICK k \in Calls : caller' = [caller EXCEPT ![c] = k] /\ k.pc = "done" /\ k.answer = a
      BY <1>8, <2>2, <2>3
    <2> QED
      BY <1>6, <2>2, <2>4
  <1>11. CASE R!CheckDeadline(c) /\ R!Expired(c)
    <2>1. PICK a : a = [kind |-> "timeout"]
      OBVIOUS
    <2>2. a \in R!Answers /\ a.kind = "timeout"
      BY <2>1 DEF R!Answers
    <2>3. R!Goto(c, "done", a) /\ caller[c].pc = "check" /\ time >= caller[c].deadline
      BY <1>11, <2>1 DEF R!CheckDeadline, R!Expired
    <2>4. PICK k \in Calls : /\ caller' = [caller EXCEPT ![c] = k] /\ k.pc = "done" /\ k.answer = a
                             /\ k.deadline = caller[c].deadline
      BY <1>8, <2>2, <2>3
    <2>5. ~steady[c] /\ caller'[c].pc = "done"
      BY <1>1, <2>3, <2>4 DEF CallerOK
    <2> QED
      BY <1>5, <1>6, <2>2, <2>3, <2>4, <2>5
  <1>12. CASE R!CheckDeadline(c) /\ ~R!Expired(c)
    <2>0. PICK t \in Nat : t = time + PollEvery
      BY <1>1
    <2>1. PICK k : k = [caller[c] EXCEPT !.pc = "sleep", !.wake = t]
      OBVIOUS
    <2>2. k \in Calls /\ k.pc = "sleep" /\ k.answer = caller[c].answer
      BY <1>1, <2>1
    <2>3. caller[c].answer = None
      BY <1>1, <1>12 DEF R!CheckDeadline, CallerOK
    <2>4. caller' = [caller EXCEPT ![c] = k]
      BY <1>1, <1>12, <2>0, <2>1 DEF R!CheckDeadline
    <2> QED
      BY <1>1, <1>6, <2>2, <2>3, <2>4
  <1>13. CASE R!Wake(c)
    <2>1. R!Goto(c, "get", None)
      BY <1>13 DEF R!Wake, R!AfterSleep
    <2>2. PICK k \in Calls : caller' = [caller EXCEPT ![c] = k] /\ k.pc = "get" /\ k.answer = None
      BY <1>8, <2>1
    <2> QED
      BY <1>1, <1>6, <2>2
  <1> QED
    BY <1>7, <1>9, <1>10, <1>11, <1>12, <1>13 DEF R!WaitStep

LEMMA ResultStep ==
  ASSUME R!ResultConstants, ResultInv, [R!Next]_(R!vars)
  PROVE  ResultInv'
  <1>1. CASE UNCHANGED R!vars
    BY <1>1 DEF R!vars, ResultInv, R!TypeOK, CallerType, RowInv, CallerOK, R!Answers
  <1>2. CASE R!Tick \/ R!Delete \/ R!GetTaskResult \/ \E v \in Values : R!Store(v)
    BY <1>2, EnvironmentStep
  <1>3. CASE \E c \in Client : R!Wait(c) \/ R!WaitStep(c)
    BY <1>3, WaitStep
  <1> QED
    BY <1>1, <1>2, <1>3 DEF R!Next

\* wait of the three backends: whatever the timeout, the TTL and the poll interval, and
\* whenever results are stored, replaced, deleted or expire, it returns a result that was
\* there during the call, and times out neither before its deadline nor on a result that
\* was there all through its last sleep.
THEOREM WaitIsTrue ==
  R!Spec => []WaitAnswersTruly
  <1>1. R!Init => ResultInv
    BY ResultInit, PartsAssumption
  <1>2. ResultInv /\ [R!Next]_(R!vars) => ResultInv'
    BY ResultStep, PartsAssumption
  <1>3. ResultInv => WaitAnswersTruly
    BY DEF ResultInv, CallerOK, WaitAnswersTruly, R!WaitAnswersTruly, R!AnswerWasReadable, R!NoFalseTimeout
  <1> QED
    BY <1>1, <1>2, <1>3, PTL DEF R!Spec

-----------------------------------------------------------------------------
(* The views of the dashboard *)

\* Where a list has the m-th dead letter of a queue: a Redis list has the last one
\* first, the others have them in order.
Position(q, m) == IF broker = "redis" THEN Len(dlq[q]) - m + 1 ELSE m

\* The dead letters of a queue are numbered.
LettersInv ==
    /\ dlq \in [Queue -> Seq(Nat)]
    /\ \A q \in Queue : \A i \in 1..Len(dlq[q]) : dlq[q][Position(q, i)] = i

\* What has a message has been used.
UsedInv ==
    /\ used \in SUBSET Queue
    /\ \A q \in Queue : waiting[q] > 0 \/ running[q] = 1 \/ dlq[q] # <<>> => q \in used

\* The overview of a memory broker: a queue that had dead letters has them still and is
\* shown with them, or has yet to be looked up.
ShownWith(q) ==
    \E i \in 1..Len(overview.shown) : overview.shown[i].name = q /\ overview.shown[i].dlq_length > 0

ShownRow == [name : Queue, dlq_length : Nat, length : Nat]

OverviewType ==
    overview \in [pc : {"idle", "length", "dlq_length", "done", "error"}, todo : Seq(Queue),
                  shown : Seq(ShownRow), before : SUBSET Queue]

OverviewInv ==
    /\ OverviewType
    /\ \A q \in overview.before : dlq[q] # <<>>
    /\ overview.pc = "dlq_length" =>
        /\ overview.todo # <<>> /\ overview.shown # <<>>
        /\ overview.shown[Len(overview.shown)].name = Head(overview.todo)
        /\ overview.shown[Len(overview.shown)].dlq_length = 0
    /\ overview.pc = "done" => overview.todo = <<>>
    /\ overview.pc \in {"length", "dlq_length", "done"} =>
        \A q \in overview.before : ShownWith(q) \/ \E i \in 1..Len(overview.todo) : overview.todo[i] = q

CountInv == waiting \in [Queue -> Nat] /\ running \in [Queue -> Nat]

MemoryInv == broker = "memory" => CountInv /\ UsedInv /\ OverviewInv

\* A client that pages: it has seen what lists before its offset held of the letters
\* that were there when it began, and all of them once a page was not full.
PagerType ==
    pager \in [queue : Queue \cup {None}, offset : Nat, limit : Nat, seen : Seq(Nat), before : SUBSET Nat,
               asked : BOOLEAN, answer : Seq(Nat) \cup {None}]

MayAsk == pager.asked => pager.answer # None /\ Len(pager.answer) = pager.limit /\ pager.limit > 0

PagedInv ==
    /\ pager.before \subseteq 1..Len(dlq[pager.queue])
    /\ \A m \in pager.before : Position(pager.queue, m) <= pager.offset => m \in Seen(pager.seen)
    /\ Exhausted => pager.before \subseteq Seen(pager.seen)
    /\ broker = "memory" => /\ \A i \in 1..Len(pager.seen) : pager.seen[i] = i
                            /\ MayAsk => Len(pager.seen) = pager.offset

PagerInv ==
    /\ PagerType
    /\ pager.queue = None => pager.answer = None
    /\ ~pager.asked => pager.answer = None /\ pager.offset = 0 /\ pager.seen = <<>>
    /\ PageWithinLimit
    /\ pager.queue # None /\ broker \in {"memory", "redis"} => PagedInv

ViewInv == broker \in Brokers /\ LettersInv /\ MemoryInv /\ PagerInv

\* A page of at most l entries after the first o.
PageOf(s, o, l) == Slice(s, o + 1, o + l)

IsPageOf(p, s, o, l) ==
    /\ p \in Seq(Nat) /\ Len(p) <= l
    /\ \A i \in 1..Len(p) : o + i \in 1..Len(s) /\ p[i] = s[o + i]
    /\ \A j \in 1..Len(s) : o < j /\ j <= o + l => j - o \in 1..Len(p)
    /\ Len(p) < l => Len(s) <= o + l

LEMMA SliceProperties ==
  ASSUME NEW s \in Seq(Nat), NEW o \in Nat, NEW l \in Nat, NEW p, p = PageOf(s, o, l)
  PROVE  IsPageOf(p, s, o, l)
  <1>1. PICK e \in Nat : e = IF o + l < Len(s) THEN o + l ELSE Len(s)
    OBVIOUS
  <1>2. p = SubSeq(s, o + 1, e) /\ e <= Len(s) /\ e <= o + l
    BY <1>1 DEF PageOf, Slice
  <1>3. \A i \in (o + 1)..e : s[i] \in Nat
    BY <1>2
  <1>4. /\ p \in Seq(Nat)
        /\ Len(p) = IF o + 1 <= e THEN e - (o + 1) + 1 ELSE 0
        /\ \A i \in 1..(e - (o + 1) + 1) : p[i] = s[(o + 1) + i - 1]
    <2>1. PICK f \in Int : f = o + 1
      OBVIOUS
    <2>2. e \in Int /\ \A i \in f..e : s[i] \in Nat
      BY <1>3, <2>1
    <2>3. /\ SubSeq(s, f, e) \in Seq(Nat)
          /\ Len(SubSeq(s, f, e)) = IF f <= e THEN e - f + 1 ELSE 0
          /\ \A i \in 1..(e - f + 1) : SubSeq(s, f, e)[i] = s[f + i - 1]
      BY <2>2, SubSeqProperties
    <2> QED
      BY <1>2, <2>1, <2>3
  <1>5. \A i \in 1..Len(p) : i \in 1..(e - (o + 1) + 1) /\ (o + 1) + i - 1 = o + i /\ o + i \in 1..Len(s)
    <2>0. p \in Seq(Nat)
      BY <1>4
    <2>1. PICK x, y \in Nat : x = Len(p) /\ y = Len(s)
      BY <2>0
    <2>2. x = (IF o + 1 <= e THEN e - (o + 1) + 1 ELSE 0) /\ e <= y /\ e \in Int
      BY <1>2, <1>4, <2>1
    <2>3. \A i \in 1..x : i \in 1..(e - (o + 1) + 1) /\ (o + 1) + i - 1 = o + i /\ o + i \in 1..y
      BY <2>2
    <2> QED
      BY <2>1, <2>3
  <1> QED
    BY <1>1, <1>2, <1>4, <1>5 DEF IsPageOf

LEMMA SeenConcat ==
  ASSUME NEW a \in Seq(Nat), NEW b \in Seq(Nat)
  PROVE  Seen(a \o b) = Seen(a) \cup Seen(b)
  <1>1. /\ a \o b \in Seq(Nat) /\ Len(a \o b) = Len(a) + Len(b)
        /\ \A i \in 1..Len(a) + Len(b) : (a \o b)[i] = IF i <= Len(a) THEN a[i] ELSE b[i - Len(a)]
    BY ConcatProperties
  <1>2. \A i \in 1..Len(a) : i \in 1..Len(a) + Len(b) /\ (a \o b)[i] = a[i]
    BY <1>1
  <1>3. \A i \in 1..Len(b) : Len(a) + i \in 1..Len(a) + Len(b) /\ (a \o b)[Len(a) + i] = b[i]
    BY <1>1
  <1>4. \A i \in 1..Len(a) + Len(b) : i \in 1..Len(a) \/ (i - Len(a) \in 1..Len(b) /\ (a \o b)[i] = b[i - Len(a)])
    BY <1>1
  <1>5. DOMAIN (a \o b) = 1..Len(a) + Len(b) /\ DOMAIN a = 1..Len(a) /\ DOMAIN b = 1..Len(b)
    BY <1>1
  <1>6. Seen(a) \cup Seen(b) \subseteq Seen(a \o b)
    BY <1>2, <1>3, <1>5 DEF Seen
  <1>7. Seen(a \o b) \subseteq Seen(a) \cup Seen(b)
    <2> SUFFICES ASSUME NEW i \in 1..Len(a) + Len(b)
                 PROVE  (a \o b)[i] \in Seen(a) \cup Seen(b)
      BY <1>5 DEF Seen
    <2>1. CASE i \in 1..Len(a)
      BY <1>2, <1>5, <2>1 DEF Seen
    <2>2. CASE i \notin 1..Len(a)
      BY <1>4, <1>5, <2>2 DEF Seen
    <2> QED
      BY <2>1, <2>2
  <1> QED
    BY <1>6, <1>7

LEMMA NotEmpty ==
  ASSUME NEW S, NEW s \in Seq(S), s # <<>>
  PROVE  Len(s) \in Nat /\ Len(s) \in 1..Len(s)
  OBVIOUS

LEMMA FullPage ==
  ASSUME NEW S \in SUBSET Nat, NEW l \in Nat, NEW p \in [1..l -> S]
  PROVE  p \in Seq(Nat) /\ Len(p) = l
  <1>1. p \in [1..l -> Nat]
    OBVIOUS
  <1> QED
    BY <1>1

\* SetToSeq leaves no queue out.
LEMMA ListsAll ==
  ASSUME IsFiniteSet(Queue), NEW S \in SUBSET Queue, NEW t, t = SetToSeq(S)
  PROVE  t \in Seq(Queue) /\ \A q \in S : \E i \in 1..Len(t) : t[i] = q
  <1>1. IsFiniteSet(S) /\ Cardinality(S) \in Nat /\ ExistsBijection(1..Cardinality(S), S)
    BY FS_Subset, FS_CardinalityType
  <1>2. PICK n \in Nat : n = Cardinality(S)
    BY <1>1
  <1>3. \E f \in [1..n -> S] : IsInjective(f)
    BY <1>1, <1>2 DEF ExistsBijection, Bijection, Injection, IsInjective, IsInjective
  <1>4. t \in [1..n -> S] /\ IsInjective(t)
    BY <1>2, <1>3 DEF SetToSeq
  <1>5. t \in Injection(1..n, S)
    BY <1>4 DEF Injection, IsInjective, IsInjective
  <1>6. Cardinality(1..n) = n
    BY FS_Interval
  <1>7. t \in Surjection(1..n, S)
    BY <1>1, <1>2, <1>5, <1>6, FS_Injection
  <1>8. t \in Seq(Queue) /\ Len(t) = n
    BY <1>4
  <1> QED
    BY <1>7, <1>8 DEF Surjection

LEMMA ViewInit ==
  ASSUME ViewConstants, Init
  PROVE  ViewInv
  <1>1. \A q \in Queue : dlq[q] = <<>> /\ Len(dlq[q]) = 0 /\ waiting[q] = 0 /\ running[q] = 0
    BY DEF Init
  <1>2. LettersInv
    BY <1>1 DEF Init, LettersInv
  <1>3. MemoryInv
    <2>1. OverviewInv
      BY DEF Init, OverviewInv, OverviewType
    <2>2. UsedInv
      BY <1>1 DEF Init, UsedInv
    <2> QED
      BY <2>1, <2>2 DEF Init, MemoryInv, CountInv
  <1>4. PagerInv
    BY DEF Init, PagerInv, PagerType, PageWithinLimit
  <1> QED
    BY <1>2, <1>3, <1>4 DEF Init, ViewInv

\* A dead letter comes last in number, and keeps the others in their places but for Redis,
\* where all move on by one.
LEMMA BuriedLetter ==
  ASSUME ViewInv, NEW q \in Queue, dlq' = [dlq EXCEPT ![q] = Buried(q)], broker' = broker
  PROVE  /\ LettersInv'
         /\ \A r \in Queue : /\ Len(dlq[r]) \in Nat /\ Len(dlq[r]) <= Len(dlq'[r]) /\ Len(dlq'[r]) \in Nat
                             /\ dlq[r] # <<>> => dlq'[r] # <<>>
                             /\ r # q => dlq'[r] = dlq[r]
                             /\ \A m \in Nat : Position(r, m) <= Position(r, m)'
  <1>1. dlq \in [Queue -> Seq(Nat)] /\ \A r \in Queue : \A i \in 1..Len(dlq[r]) : dlq[r][Position(r, i)] = i
    BY DEF ViewInv, LettersInv
  <1>2. PICK s \in Seq(Nat) : s = dlq[q]
    BY <1>1
  <1>3. PICK n \in Nat : n = Len(s)
    BY <1>2
  <1>4. PICK t : t = Buried(q)
    OBVIOUS
  <1>5. dlq'[q] = t /\ \A r \in Queue : r # q => dlq'[r] = dlq[r]
    BY <1>1, <1>4
  <1>6. /\ t \in Seq(Nat) /\ Len(t) = n + 1
        /\ \A i \in 1..n : t[IF broker = "redis" THEN i + 1 ELSE i] = s[i]
        /\ t[IF broker = "redis" THEN 1 ELSE n + 1] = n + 1
    <2>1. n + 1 \in Nat
      OBVIOUS
    <2>2. CASE broker = "redis"
      <3>1. PICK a : a = <<n + 1>>
        OBVIOUS
      <3>2. a \in Seq(Nat) /\ Len(a) = 1 /\ a[1] = n + 1
        BY <3>1
      <3>3. t = a \o s
        BY <1>2, <1>3, <1>4, <2>2, <3>1 DEF Buried
      <3>0. /\ a \o s \in Seq(Nat) /\ Len(a \o s) = Len(a) + Len(s)
            /\ \A i \in 1..Len(a) + Len(s) : (a \o s)[i] = IF i <= Len(a) THEN a[i] ELSE s[i - Len(a)]
        BY <3>2, ConcatProperties
      <3>4. /\ t \in Seq(Nat) /\ Len(t) = 1 + n
            /\ \A i \in 1..1 + n : t[i] = IF i <= 1 THEN a[i] ELSE s[i - 1]
        BY <1>3, <3>0, <3>2, <3>3
      <3>5. \A i \in 1..n : i + 1 \in 1..1 + n /\ ~(i + 1 <= 1) /\ (i + 1) - 1 = i
        OBVIOUS
      <3>6. \A i \in 1..n : t[i + 1] = s[i]
        BY <3>4, <3>5
      <3> QED
        BY <2>2, <3>2, <3>4, <3>6
    <2>3. CASE broker # "redis"
      <3>1. t = Append(s, n + 1)
        BY <1>2, <1>3, <1>4, <2>3 DEF Buried
      <3>2. /\ Append(s, n + 1) \in Seq(Nat) /\ Len(Append(s, n + 1)) = Len(s) + 1
            /\ \A i \in 1..Len(s) : Append(s, n + 1)[i] = s[i]
            /\ Append(s, n + 1)[Len(s) + 1] = n + 1
        BY <2>1, AppendProperties
      <3> QED
        BY <1>3, <2>3, <3>1, <3>2
    <2> QED
      BY <2>2, <2>3
  <1>7. \A r \in Queue : /\ Len(dlq[r]) \in Nat /\ Len(dlq[r]) <= Len(dlq'[r]) /\ Len(dlq'[r]) \in Nat
                         /\ dlq[r] # <<>> => dlq'[r] # <<>>
    <2>1. \A r \in Queue : r # q => Len(dlq[r]) \in Nat /\ Len(dlq[r]) <= Len(dlq'[r])
      BY <1>1, <1>5
    <2>2. Len(t) # 0
      BY <1>6
    <2>3. t # <<>>
      BY <2>2
    <2> QED
      BY <1>2, <1>3, <1>5, <1>6, <2>1, <2>3
  <1>8. \A r \in Queue : \A m \in Nat : Position(r, m) <= Position(r, m)'
    BY <1>7 DEF Position
  <1>9. LettersInv'
    <2>1. dlq' \in [Queue -> Seq(Nat)]
      BY <1>1, <1>4, <1>6
    <2>2. \A r \in Queue : r # q => \A i \in 1..Len(dlq'[r]) : dlq'[r][Position(r, i)'] = i
      BY <1>1, <1>5 DEF Position
    <2>3. \A i \in 1..n : s[IF broker = "redis" THEN n - i + 1 ELSE i] = i
      BY <1>1, <1>2, <1>3 DEF Position
    <2>4. \A i : Position(q, i)' = IF broker = "redis" THEN (n + 1) - i + 1 ELSE i
      <3>1. \A i : Position(q, i)' = IF broker' = "redis" THEN Len(dlq'[q]) - i + 1 ELSE i
        BY DEF Position
      <3>2. Len(dlq'[q]) = n + 1
        BY <1>5, <1>6
      <3> QED
        BY <3>1, <3>2
    <2>5. \A i \in 1..(n + 1) : t[IF broker = "redis" THEN (n + 1) - i + 1 ELSE i] = i
      <3> SUFFICES ASSUME NEW i \in 1..(n + 1)
                   PROVE  t[IF broker = "redis" THEN (n + 1) - i + 1 ELSE i] = i
        OBVIOUS
      <3>1. CASE i = n + 1
        <4>1. (n + 1) - i + 1 = 1
          BY <3>1
        <4> QED
          BY <1>6, <3>1, <4>1
      <3>2. CASE i # n + 1
        <4>1. i \in 1..n /\ n - i + 1 \in 1..n /\ (n - i + 1) + 1 = (n + 1) - i + 1
          BY <3>2
        <4>2. broker = "redis" => t[(n - i + 1) + 1] = s[n - i + 1]
          BY <1>6, <4>1
        <4>3. broker # "redis" => t[i] = s[i]
          BY <1>6, <4>1
        <4> QED
          BY <2>3, <4>1, <4>2, <4>3
      <3> QED
        BY <3>1, <3>2
    <2>6. \A i \in 1..Len(dlq'[q]) : dlq'[q][Position(q, i)'] = i
      BY <1>5, <1>6, <2>4, <2>5
    <2> QED
      BY <2>1, <2>2, <2>6 DEF LettersInv
  <1> QED
    BY <1>5, <1>7, <1>8, <1>9

\* What others do to the broker while a client pages.
LEMMA PagerKeeps ==
  ASSUME ViewConstants, ViewInv, UNCHANGED <<broker, pager>>,
         \A r \in Queue : /\ Len(dlq[r]) \in Nat /\ Len(dlq[r]) <= Len(dlq'[r]) /\ Len(dlq'[r]) \in Nat
                          /\ \A m \in Nat : Position(r, m) <= Position(r, m)'
  PROVE  PagerInv'
  <1>1. PagerType' /\ PageWithinLimit'
    BY DEF ViewInv, PagerInv, PagerType, PageWithinLimit
  <1>2. ASSUME pager.queue # None, broker \in {"memory", "redis"}
        PROVE  PagedInv'
    <2>1. PICK r \in Queue : r = pager.queue
      BY <1>2 DEF ViewInv, PagerInv, PagerType
    <2>2. PagedInv /\ pager.before \subseteq Nat /\ pager.offset \in Nat
      BY <1>2 DEF ViewInv, PagerInv, PagerType
    <2>3. Len(dlq[r]) \in Nat /\ Len(dlq'[r]) \in Nat /\ Len(dlq[r]) <= Len(dlq'[r])
      BY <2>1
    <2>4. pager.before \subseteq 1..Len(dlq'[r])
      BY <2>1, <2>2, <2>3 DEF PagedInv
    <2>5. \A m \in pager.before : Position(r, m)' <= pager.offset => m \in Seen(pager.seen)
      <3> SUFFICES ASSUME NEW m \in pager.before, Position(r, m)' <= pager.offset
                   PROVE  m \in Seen(pager.seen)
        OBVIOUS
      <3>1. Position(r, m) <= Position(r, m)' /\ m \in Nat
        BY <2>1, <2>2
      <3>2. Position(r, m) \in Int /\ Position(r, m)' \in Int
        BY <2>3, <3>1 DEF Position
      <3>3. Position(r, m) <= pager.offset
        BY <2>2, <3>1, <3>2
      <3> QED
        BY <2>1, <2>2, <3>3 DEF PagedInv
    <2>6. /\ Exhausted' => pager.before \subseteq Seen(pager.seen)
          /\ broker = "memory" => /\ \A i \in 1..Len(pager.seen) : pager.seen[i] = i
                                  /\ MayAsk' => Len(pager.seen) = pager.offset
      BY <2>2 DEF PagedInv, Exhausted, MayAsk
    <2>7. \A m : Position(pager.queue, m)' = Position(r, m)'
      BY <2>1 DEF Position
    <2> QED
      BY <2>1, <2>4, <2>5, <2>6, <2>7 DEF PagedInv
  <1>3. /\ pager'.queue = None => pager'.answer = None
        /\ ~pager'.asked => pager'.answer = None /\ pager'.offset = 0 /\ pager'.seen = <<>>
    BY DEF ViewInv, PagerInv
  <1> QED
    BY <1>1, <1>2, <1>3 DEF PagerInv

\* What others do to the broker while the overview is put together.
LEMMA OverviewKeeps ==
  ASSUME ViewInv, broker = "memory", UNCHANGED overview,
         \A r \in Queue : dlq[r] # <<>> => dlq'[r] # <<>>
  PROVE  OverviewInv'
  <1>1. OverviewInv /\ OverviewType' /\ \A q : ShownWith(q)' <=> ShownWith(q)
    BY DEF ViewInv, MemoryInv, OverviewInv, OverviewType, ShownWith
  <1>2. \A q \in overview.before : dlq'[q] # <<>>
    BY <1>1 DEF OverviewInv, OverviewType
  <1> QED
    BY <1>1, <1>2 DEF OverviewInv

LEMMA BrokerStep ==
  ASSUME ViewConstants, ViewInv, NEW q \in Queue, Enqueue(q) \/ Dequeue(q) \/ DeadLetter(q)
  PROVE  ViewInv'
  <1>1. UNCHANGED <<broker, overview, pager>>
    BY DEF Enqueue, Dequeue, DeadLetter
  <1>2. /\ LettersInv'
        /\ \A r \in Queue : /\ Len(dlq[r]) \in Nat /\ Len(dlq[r]) <= Len(dlq'[r]) /\ Len(dlq'[r]) \in Nat
                            /\ dlq[r] # <<>> => dlq'[r] # <<>>
                            /\ r # q => dlq'[r] = dlq[r]
                            /\ \A m \in Nat : Position(r, m) <= Position(r, m)'
    <2>1. CASE DeadLetter(q)
      BY <1>1, <2>1, BuriedLetter DEF DeadLetter
    <2>2. CASE dlq' = dlq
      <3>1. LettersInv /\ \A r \in Queue : Len(dlq[r]) \in Nat
        BY DEF ViewInv, LettersInv
      <3>2. LettersInv'
        BY <1>1, <2>2, <3>1 DEF LettersInv, Position
      <3>3. \A r \in Queue : \A m \in Nat : Position(r, m)' = Position(r, m) /\ Position(r, m) \in Int
        BY <1>1, <2>2, <3>1 DEF Position
      <3>4. \A r \in Queue : \A m \in Nat : Position(r, m) <= Position(r, m)'
        BY <3>3
      <3> QED
        BY <2>2, <3>1, <3>2, <3>4
    <2> QED
      BY <2>1, <2>2 DEF Enqueue, Dequeue
  <1>3. MemoryInv'
    <2> SUFFICES ASSUME broker = "memory"
                 PROVE  CountInv' /\ UsedInv' /\ OverviewInv'
      BY <1>1 DEF MemoryInv
    <2>1. waiting \in [Queue -> Nat] /\ running \in [Queue -> Nat] /\ UsedInv
      BY DEF ViewInv, MemoryInv, CountInv
    <2>2. OverviewInv'
      BY <1>1, <1>2, OverviewKeeps
    <2>3. CountInv'
      BY <2>1 DEF CountInv, Enqueue, Dequeue, DeadLetter
    <2>4. CASE Enqueue(q)
      <3>1. used' = used \cup {q} /\ dlq' = dlq /\ running' = running /\ \A r \in Queue : r # q => waiting'[r] = waiting[r]
        BY <2>1, <2>4 DEF Enqueue
      <3> QED
        BY <2>1, <2>2, <2>3, <3>1 DEF UsedInv
    <2>5. CASE Dequeue(q)
      <3>1. /\ used' = used /\ dlq' = dlq /\ waiting[q] > 0
            /\ \A r \in Queue : r # q => waiting'[r] = waiting[r] /\ running'[r] = running[r]
        BY <2>1, <2>5 DEF Dequeue, ViewInv, MemoryInv
      <3> QED
        BY <2>1, <2>2, <2>3, <3>1 DEF UsedInv
    <2>6. CASE DeadLetter(q)
      <3>1. /\ used' = used /\ waiting' = waiting /\ running[q] = 1
            /\ \A r \in Queue : r # q => dlq'[r] = dlq[r] /\ running'[r] = running[r]
        BY <1>2, <2>1, <2>6 DEF DeadLetter
      <3> QED
        BY <2>1, <2>2, <2>3, <3>1 DEF UsedInv
    <2> QED
      BY <2>4, <2>5, <2>6
  <1>4. PagerInv'
    BY <1>1, <1>2, PagerKeeps
  <1> QED
    BY <1>1, <1>2, <1>3, <1>4 DEF ViewInv

LEMMA QuietBroker ==
  ASSUME ViewInv, UNCHANGED <<broker, brokerVars>>
  PROVE  /\ broker' \in Brokers /\ LettersInv'
         /\ broker = "memory" => CountInv' /\ UsedInv'
         /\ \A r \in Queue : /\ Len(dlq[r]) \in Nat /\ Len(dlq[r]) <= Len(dlq'[r]) /\ Len(dlq'[r]) \in Nat
                             /\ \A m \in Nat : Position(r, m) <= Position(r, m)'
  <1>1. UNCHANGED <<waiting, used, running, dlq>>
    BY DEF brokerVars
  <1>2. LettersInv /\ \A r \in Queue : Len(dlq[r]) \in Nat
    BY DEF ViewInv, LettersInv
  <1>3. LettersInv'
    BY <1>1, <1>2 DEF LettersInv, Position
  <1>4. \A r \in Queue : \A m \in Nat : Position(r, m)' = Position(r, m) /\ Position(r, m) \in Int
    BY <1>1, <1>2 DEF Position
  <1>5. broker = "memory" => CountInv' /\ UsedInv'
    BY <1>1 DEF ViewInv, MemoryInv, CountInv, UsedInv
  <1> QED
    BY <1>1, <1>2, <1>3, <1>4, <1>5 DEF ViewInv

LEMMA OverviewStep ==
  ASSUME ViewConstants, ViewInv, NEW ok \in BOOLEAN,
         GetQueues(ok) \/ ShowLength(ok) \/ ShowDlqLength(ok) \/ Answer
  PROVE  ViewInv'
  <1>1. UNCHANGED <<broker, brokerVars, pager>>
    BY DEF GetQueues, ShowLength, ShowDlqLength, Answer
  <1> SUFFICES ASSUME broker = "memory"
               PROVE  OverviewInv'
    BY <1>1, QuietBroker, PagerKeeps DEF ViewInv, MemoryInv
  <1>2. UNCHANGED <<waiting, used, running, dlq>>
    BY <1>1 DEF brokerVars
  <1>3. dlq \in [Queue -> Seq(Nat)] /\ waiting \in [Queue -> Nat] /\ UsedInv /\ OverviewInv /\ OverviewType
    BY DEF ViewInv, LettersInv, MemoryInv, CountInv, OverviewInv
  <1>4. CASE GetQueues(ok)
    <2>0. PICK u \in SUBSET Queue : u = used
      BY <1>3 DEF UsedInv
    <2>1. PICK t : t = SetToSeq(u)
      OBVIOUS
    <2>2. t \in Seq(Queue) /\ \A q \in used : \E i \in 1..Len(t) : t[i] = q
      <3>1. IsFiniteSet(Queue)
        BY DEF ViewConstants
      <3>2. t \in Seq(Queue) /\ \A q \in u : \E i \in 1..Len(t) : t[i] = q
        BY <2>1, <3>1, ListsAll
      <3> QED
        BY <2>0, <3>2
    <2>3. ok
      BY <1>4 DEF GetQueues, MayFail
    <2>4. ListQueues = used
      BY DEF ListQueues, MemoryQueues
    <2>5. overview' = [pc |-> "length", shown |-> <<>>, todo |-> t, before |-> {q \in Queue : dlq[q] # <<>>}]
      BY <1>4, <2>0, <2>1, <2>3, <2>4 DEF GetQueues
    <2>6. OverviewType'
      BY <2>2, <2>5 DEF OverviewType
    <2>7. \A q \in overview'.before : dlq'[q] # <<>> /\ \E i \in 1..Len(t) : t[i] = q
      BY <1>2, <1>3, <2>2, <2>5 DEF UsedInv
    <2> QED
      BY <2>5, <2>6, <2>7 DEF OverviewInv
  <1>5. CASE ShowLength(ok)
    <2>1. PICK x : x = [name |-> Head(overview.todo), dlq_length |-> 0,
                        length |-> IF ok THEN QueueLen(Head(overview.todo)) ELSE 0]
      OBVIOUS
    <2>2. overview.pc = "length" /\ overview.todo # <<>> /\ overview.todo \in Seq(Queue)
      BY <1>3, <1>5 DEF ShowLength, OverviewType
    <2>3. Head(overview.todo) \in Queue
      BY <2>2
    <2>4. x \in ShownRow /\ x.name = Head(overview.todo) /\ x.dlq_length = 0
      BY <1>3, <2>1, <2>3 DEF QueueLen, ShownRow
    <2>5. PICK s \in Seq(ShownRow) : s = overview.shown
      BY <1>3 DEF OverviewType
    <2>6. PICK n : n = Append(s, x)
      OBVIOUS
    <2>7. /\ n \in Seq(ShownRow) /\ Len(n) = Len(s) + 1
          /\ n # <<>> /\ n[Len(n)] = x /\ \A i \in 1..Len(s) : i \in 1..Len(n) /\ n[i] = s[i]
      BY <2>4, <2>6, AppendProperties
    <2>8. overview' = [overview EXCEPT !.pc = "dlq_length", !.shown = n]
      BY <1>5, <2>1, <2>5, <2>6 DEF ShowLength
    <2>9. /\ OverviewType' /\ overview'.pc = "dlq_length" /\ overview'.shown = n
          /\ overview'.todo = overview.todo /\ overview'.before = overview.before
      BY <1>3, <2>7, <2>8 DEF OverviewType
    <2>10. \A q : ShownWith(q) => ShownWith(q)'
      BY <2>5, <2>7, <2>9 DEF ShownWith
    <2>11. \A q \in overview.before : ShownWith(q)' \/ \E i \in 1..Len(overview.todo) : overview.todo[i] = q
      BY <1>3, <2>2, <2>10 DEF OverviewInv
    <2>12. n[Len(n)].name = Head(overview.todo) /\ n[Len(n)].dlq_length = 0
      BY <2>4, <2>7
    <2> QED
      BY <1>2, <1>3, <2>2, <2>7, <2>9, <2>11, <2>12 DEF OverviewInv
  <1>6. CASE ShowDlqLength(ok)
    <2>1. ok /\ overview.pc = "dlq_length"
      BY <1>6 DEF ShowDlqLength, MayFail
    <2>2. /\ overview.todo # <<>> /\ overview.todo \in Seq(Queue)
          /\ overview.shown # <<>>
          /\ overview.shown[Len(overview.shown)].name = Head(overview.todo)
          /\ overview.shown[Len(overview.shown)].dlq_length = 0
      BY <1>3, <2>1 DEF OverviewInv, OverviewType
    <2>3. PICK h \in Queue : h = Head(overview.todo)
      BY <2>2
    <2>4. PICK d \in Nat : d = Len(dlq[h])
      BY <1>3
    <2>5. DlqLen(h) = d
      BY <2>4 DEF DlqLen
    <2>6. PICK s \in Seq(ShownRow) : s = overview.shown
      BY <1>3 DEF OverviewType
    <2>7. PICK k \in Nat : k = Len(s)
      BY <2>6
    <2>8. k \in 1..Len(s) /\ s[k].name = h /\ s[k].dlq_length = 0 /\ s[k] \in ShownRow
      <3>1. s # <<>> /\ s[Len(s)].name = h /\ s[Len(s)].dlq_length = 0
        BY <2>2, <2>3, <2>6
      <3>2. Len(s) \in 1..Len(s)
        BY <3>1, NotEmpty
      <3> QED
        BY <2>7, <3>1, <3>2
    <2>9. PICK n : n = [s EXCEPT ![k].dlq_length = d]
      OBVIOUS
    <2>10. /\ n \in Seq(ShownRow) /\ Len(n) = Len(s)
           /\ n[k].name = h /\ n[k].dlq_length = d /\ \A i \in 1..Len(s) : i # k => n[i] = s[i]
      <3>1. PICK y : y = [s[k] EXCEPT !.dlq_length = d]
        OBVIOUS
      <3>2. y \in ShownRow /\ y.name = h /\ y.dlq_length = d
        BY <2>8, <3>1 DEF ShownRow
      <3>3. n = [s EXCEPT ![k] = y]
        BY <2>9, <3>1
      <3> QED
        BY <2>8, <3>2, <3>3
    <2>11. overview' = [overview EXCEPT !.pc = "length", !.todo = Tail(overview.todo), !.shown = n]
      BY <1>3, <1>6, <2>1, <2>3, <2>5, <2>6, <2>7, <2>9 DEF ShowDlqLength, OverviewType
    <2>12. PICK t : t = Tail(overview.todo)
      OBVIOUS
    <2>13. /\ t \in Seq(Queue) /\ Len(t) = Len(overview.todo) - 1
           /\ \A i \in 1..Len(t) : t[i] = overview.todo[i + 1]
      BY <2>2, <2>12, HeadTailProperties
    <2>14. /\ OverviewType' /\ overview'.pc = "length" /\ overview'.shown = n
           /\ overview'.todo = t /\ overview'.before = overview.before
      BY <1>3, <2>10, <2>11, <2>12, <2>13 DEF OverviewType
    <2>15. \A q : ShownWith(q) => ShownWith(q)'
      <3> SUFFICES ASSUME NEW q, NEW i \in 1..Len(s), s[i].name = q, s[i].dlq_length > 0
                   PROVE  ShownWith(q)'
        BY <2>6 DEF ShownWith
      <3>1. i # k
        BY <2>8
      <3>2. i \in 1..Len(n) /\ n[i] = s[i]
        BY <2>10, <3>1
      <3> QED
        BY <2>14, <3>2 DEF ShownWith
    <2>16. \A q \in overview.before : ShownWith(q)' \/ \E i \in 1..Len(t) : t[i] = q
      <3> SUFFICES ASSUME NEW q \in overview.before, ~ShownWith(q)'
                   PROVE  \E i \in 1..Len(t) : t[i] = q
        OBVIOUS
      <3>1. PICK i \in 1..Len(overview.todo) : overview.todo[i] = q
        BY <1>3, <2>1, <2>15 DEF OverviewInv
      <3>2. CASE i = 1
        <4>1. q = h /\ q \in Queue /\ dlq[q] # <<>>
          BY <1>3, <2>2, <2>3, <3>1, <3>2 DEF OverviewInv
        <4>2. d > 0
          BY <1>3, <2>4, <4>1
        <4>3. k \in 1..Len(n)
          BY <2>8, <2>10
        <4> QED
          BY <2>10, <2>14, <4>1, <4>2, <4>3 DEF ShownWith
      <3>3. CASE i # 1
        <4>1. i - 1 \in 1..Len(t) /\ (i - 1) + 1 = i
          BY <2>2, <2>13, <3>3
        <4> QED
          BY <2>13, <3>1, <4>1
      <3> QED
        BY <3>2, <3>3
    <2> QED
      BY <1>2, <1>3, <2>14, <2>16 DEF OverviewInv
  <1>7. CASE Answer
    <2>1. /\ overview.pc = "length" /\ overview.todo = <<>>
          /\ overview' = [overview EXCEPT !.pc = "done"]
      BY <1>7 DEF Answer
    <2>2. /\ OverviewType' /\ overview'.pc = "done" /\ overview'.shown = overview.shown
          /\ overview'.todo = overview.todo /\ overview'.before = overview.before
      BY <1>3, <2>1 DEF OverviewType
    <2>3. \A q : ShownWith(q)' <=> ShownWith(q)
      BY <2>2 DEF ShownWith
    <2> QED
      BY <1>2, <1>3, <2>1, <2>2, <2>3 DEF OverviewInv
  <1> QED
    BY <1>4, <1>5, <1>6, <1>7

\* Requests for pages leave the broker and the overview alone.
LEMMA PagingKeeps ==
  ASSUME ViewInv, UNCHANGED <<broker, brokerVars, overview>>, PagerInv'
  PROVE  ViewInv'
  <1>1. broker = "memory" => OverviewInv'
    BY OverviewKeeps DEF brokerVars
  <1> QED
    BY <1>1, QuietBroker DEF ViewInv, MemoryInv

LEMMA OpenStep ==
  ASSUME ViewConstants, ViewInv, NEW q \in Queue, NEW limit \in Limits, OpenDlq(q, limit)
  PROVE  ViewInv'
  <1>1. /\ UNCHANGED <<broker, brokerVars, overview>>
        /\ pager' = [queue |-> q, offset |-> 0, limit |-> limit, seen |-> <<>>,
                     before |-> Seen(dlq[q]), asked |-> FALSE, answer |-> None]
    BY DEF OpenDlq
  <1>2. PICK s \in Seq(Nat) : s = dlq[q] /\ dlq'[q] = s /\ \A i \in 1..Len(s) : s[Position(q, i)] = i
    BY <1>1 DEF ViewInv, LettersInv, brokerVars
  <1>3. limit \in Nat /\ None \notin Queue
    BY DEF ViewConstants
  <1>4. Seen(s) \subseteq Nat
    BY DEF Seen
  <1>5. PagerType'
    BY <1>1, <1>2, <1>3, <1>4 DEF PagerType
  <1>6. ASSUME broker \in {"memory", "redis"}
        PROVE  PagedInv'
    <2>1. \A i \in 1..Len(s) : Position(q, i) \in 1..Len(s) /\ Position(q, Position(q, i)) = i
      BY <1>2 DEF Position
    <2>2. Seen(s) \subseteq 1..Len(s)
      <3>1. \A i \in 1..Len(s) : s[i] \in 1..Len(s)
        <4> SUFFICES ASSUME NEW i \in 1..Len(s)
                     PROVE  s[i] \in 1..Len(s)
          OBVIOUS
        <4>1. PICK k \in 1..Len(s) : k = Position(q, i) /\ Position(q, k) = i
          BY <2>1
        <4>2. s[i] = k
          BY <1>2, <4>1
        <4> QED
          BY <4>2
      <3>2. DOMAIN s = 1..Len(s)
        OBVIOUS
      <3> QED
        BY <3>1, <3>2 DEF Seen
    <2>3. \A m \in Seen(s) : ~(Position(q, m)' <= 0)
      <3>1. \A m : Position(q, m)' = Position(q, m)
        BY <1>1, <1>2 DEF Position
      <3> QED
        BY <2>1, <2>2, <3>1
    <2>4. \A m : Position(pager.queue, m)' = Position(q, m)'
      BY <1>1 DEF Position
    <2>5. ~Exhausted'
      BY <1>1 DEF Exhausted
    <2>6. pager'.before = Seen(s) /\ pager'.offset = 0 /\ pager'.queue = q /\ pager'.seen = <<>>
      BY <1>1, <1>2
    <2> QED
      BY <1>2, <2>2, <2>3, <2>4, <2>5, <2>6 DEF PagedInv
  <1>7. PageWithinLimit'
    BY <1>1 DEF PageWithinLimit
  <1>8. PagerInv'
    BY <1>1, <1>3, <1>5, <1>6, <1>7 DEF PagerInv
  <1> QED
    BY <1>1, <1>8, PagingKeeps

LEMMA GetStep ==
  ASSUME ViewConstants, ViewInv, GetDlq
  PROVE  ViewInv'
  <1>1. UNCHANGED <<broker, brokerVars, overview>> /\ MayAsk /\ pager.queue # None
    BY DEF GetDlq, MayAsk
  <1>2. PICK q \in Queue, o \in Nat, l \in Nat : q = pager.queue /\ o = pager.offset /\ l = pager.limit
    BY <1>1 DEF ViewInv, PagerInv, PagerType
  <1>3. PICK s \in Seq(Nat) : s = dlq[q] /\ dlq'[q] = s /\ \A i \in 1..Len(s) : s[Position(q, i)] = i
    BY <1>1 DEF ViewInv, LettersInv, brokerVars
  <1>4. PICK p \in Pages(q, o, l) :
             pager' = [pager EXCEPT !.asked = TRUE, !.answer = p, !.offset = o + l,
                                    !.seen = IF p = None THEN pager.seen ELSE pager.seen \o p]
    BY <1>2 DEF GetDlq
  <1>5. PICK seen \in Seq(Nat) : seen = pager.seen
    BY DEF ViewInv, PagerInv, PagerType
  <1>6. None \notin Seq(Nat) /\ PagerType /\ broker \in {"memory", "redis", "amqp", "sqs"}
    BY DEF ViewConstants, ViewInv, PagerInv
  <1>7. CASE p = None
    <2>1. broker = "redis" /\ o + l = 0
      <3>1. p \in Seq(Nat) \/ (broker = "redis" /\ o + l = 0)
        <4>1. CASE broker = "memory"
          <5>1. p = PageOf(s, o, l)
            BY <1>3, <1>4, <4>1 DEF Pages, MemoryPage, PageOf
          <5> QED
            BY <5>1, SliceProperties DEF IsPageOf
        <4>2. CASE broker = "redis" /\ o + l # 0
          <5>1. p = PageOf(s, o, l)
            BY <1>3, <1>4, <4>2 DEF Pages, RedisPage, PageOf
          <5> QED
            BY <5>1, SliceProperties DEF IsPageOf
        <4>3. CASE broker = "amqp"
          <5>1. p = <<>> \/ p \in [1..l -> Seen(s)]
            BY <1>3, <1>4, <4>3 DEF Pages, AmqpPage
          <5>2. Seen(s) \subseteq Nat
            BY DEF Seen
          <5>3. CASE p = <<>>
            BY <5>3
          <5>4. CASE p \in [1..l -> Seen(s)]
            BY <5>2, <5>4, FullPage
          <5> QED
            BY <5>1, <5>3, <5>4
        <4>4. CASE broker = "sqs"
          BY <1>4, <4>4 DEF Pages, SqsPage
        <4> QED
          BY <1>6, <4>1, <4>2, <4>3, <4>4
      <3> QED
        BY <1>6, <1>7, <3>1
    <2>2. o = 0 /\ l = 0 /\ o + l = o
      BY <2>1
    <2>3. /\ PagerType' /\ pager'.answer = None /\ pager'.asked /\ pager'.offset = o /\ pager'.seen = seen
          /\ pager'.queue = q /\ pager'.before = pager.before
      BY <1>2, <1>4, <1>5, <1>6, <1>7, <2>2 DEF PagerType
    <2>4. PagedInv
      BY <1>1, <2>1 DEF ViewInv, PagerInv
    <2>5. \A m : Position(pager.queue, m)' = Position(pager.queue, m)
      BY <1>1, <1>2, <1>3, <2>3 DEF Position
    <2>6. ~Exhausted' /\ ~MayAsk' /\ PageWithinLimit'
      BY <2>3 DEF Exhausted, MayAsk, PageWithinLimit
    <2>7. PagedInv'
      <3>1. dlq' = dlq /\ broker' = broker
        BY <1>1 DEF brokerVars
      <3>2. pager'.before \subseteq 1..Len(dlq'[pager'.queue])
        BY <1>2, <2>3, <2>4, <3>1 DEF PagedInv
      <3>3. \A m \in pager'.before : Position(pager.queue, m)' <= pager'.offset => m \in Seen(pager'.seen)
        BY <1>2, <1>5, <2>3, <2>4, <2>5 DEF PagedInv
      <3>4. broker' = "memory" => \A i \in 1..Len(pager'.seen) : pager'.seen[i] = i
        BY <1>5, <2>3, <2>4, <3>1 DEF PagedInv
      <3> QED
        BY <2>6, <3>2, <3>3, <3>4 DEF PagedInv
    <2>8. PagerInv'
      BY <2>3, <2>6, <2>7 DEF PagerInv
    <2> QED
      BY <1>1, <2>8, PagingKeeps
  <1>8. ASSUME p # None, p \in Seq(Nat),
               Len(p) <= l \/ (broker = "redis" /\ l = 0 /\ o + l = 0),
               broker \in {"memory", "redis"} =>
                 /\ \A j \in 1..Len(s) : o < j /\ j <= o + l => s[j] \in Seen(p)
                 /\ Len(p) < l => Len(s) <= o + l,
               broker = "memory" => \A i \in 1..Len(p) : p[i] = o + i
        PROVE  ViewInv'
    <2>1. PICK n \in Seq(Nat) : n = seen \o p
      BY <1>8, ConcatProperties
    <2>2. Seen(n) = Seen(seen) \cup Seen(p)
      BY <1>8, <2>1, SeenConcat
    <2>3. /\ PagerType' /\ pager'.answer = p /\ pager'.asked /\ pager'.offset = o + l /\ pager'.seen = n
          /\ pager'.queue = q /\ pager'.before = pager.before /\ pager'.limit = l
      <3>1. o + l \in Nat
        OBVIOUS
      <3> QED
        BY <1>2, <1>4, <1>5, <1>6, <1>8, <2>1, <3>1 DEF PagerType
    <2>4. PageWithinLimit'
      BY <1>1, <1>8, <2>3 DEF PageWithinLimit
    <2>5. ASSUME broker \in {"memory", "redis"}
          PROVE  PagedInv'
      <3>1. PagedInv /\ pager.before \subseteq 1..Len(s)
        BY <1>1, <1>2, <1>3, <2>5 DEF ViewInv, PagerInv, PagedInv
      <3>2. \A m \in 1..Len(s) : Position(q, m) \in 1..Len(s) /\ s[Position(q, m)] = m
        BY <1>3 DEF Position
      <3>3. \A m \in pager.before : Position(q, m) <= o + l => m \in Seen(n)
        <4> SUFFICES ASSUME NEW m \in pager.before, Position(q, m) <= o + l
                     PROVE  m \in Seen(n)
          OBVIOUS
        <4>1. CASE Position(q, m) <= o
          BY <1>2, <1>5, <2>2, <3>1, <4>1 DEF PagedInv
        <4>2. CASE ~(Position(q, m) <= o)
          <5>1. PICK j \in 1..Len(s) : j = Position(q, m) /\ s[j] = m
            BY <3>1, <3>2
          <5>2. o < j /\ j <= o + l
            BY <4>2, <5>1
          <5> QED
            BY <1>8, <2>2, <2>5, <5>1, <5>2
        <4> QED
          BY <4>1, <4>2
      <3>4. Len(p) < l => pager.before \subseteq Seen(n)
        <4> SUFFICES ASSUME Len(p) < l, NEW m \in pager.before
                     PROVE  m \in Seen(n)
          OBVIOUS
        <4>1. Len(s) <= o + l /\ Position(q, m) \in 1..Len(s)
          BY <1>8, <2>5, <3>1, <3>2
        <4>2. Position(q, m) <= o + l
          BY <4>1
        <4> QED
          BY <3>3, <4>2
      <3>5. broker = "memory" => /\ \A i \in 1..Len(n) : n[i] = i
                                 /\ MayAsk' => Len(n) = o + l
        <4> SUFFICES ASSUME broker = "memory"
                     PROVE  /\ \A i \in 1..Len(n) : n[i] = i
                            /\ MayAsk' => Len(n) = o + l
          OBVIOUS
        <4>1. Len(seen) = o /\ \A i \in 1..o : seen[i] = i
          BY <1>1, <1>2, <1>5, <3>1 DEF PagedInv
        <4>2. /\ Len(seen \o p) = Len(seen) + Len(p)
              /\ \A i \in 1..Len(seen) + Len(p) : (seen \o p)[i] = IF i <= Len(seen) THEN seen[i] ELSE p[i - Len(seen)]
          BY <1>8, ConcatProperties
        <4>3. Len(n) = o + Len(p) /\ \A i \in 1..o + Len(p) : n[i] = IF i <= o THEN seen[i] ELSE p[i - o]
          BY <2>1, <4>1, <4>2
        <4>4. \A i \in 1..o + Len(p) : n[i] = i
          <5> SUFFICES ASSUME NEW i \in 1..o + Len(p)
                       PROVE  n[i] = i
            OBVIOUS
          <5>1. CASE i <= o
            BY <4>1, <4>3, <5>1
          <5>2. CASE ~(i <= o)
            <6>1. i - o \in 1..Len(p) /\ o + (i - o) = i
              BY <1>8, <5>2
            <6> QED
              BY <1>8, <4>3, <5>2, <6>1
          <5> QED
            BY <5>1, <5>2
        <4>5. MayAsk' => Len(p) = l
          BY <2>3 DEF MayAsk
        <4> QED
          BY <4>3, <4>4, <4>5
      <3>6. \A m : Position(pager.queue, m)' = Position(q, m)
        BY <1>1, <1>3, <2>3 DEF Position
      <3>7. Exhausted' => Len(p) < l
        BY <2>3 DEF Exhausted
      <3> QED
        BY <1>1, <1>3, <2>3, <3>1, <3>3, <3>4, <3>5, <3>6, <3>7 DEF PagedInv
    <2>6. PagerInv'
      BY <1>1, <1>2, <1>8, <2>3, <2>4, <2>5 DEF PagerInv
    <2> QED
      BY <1>1, <2>6, PagingKeeps
  <1>9. ASSUME p # None, broker \in {"memory", "redis"}, p = PageOf(s, o, l)
        PROVE  ViewInv'
    <2>0. IsPageOf(p, s, o, l)
      BY <1>9, SliceProperties
    <2>1. /\ p \in Seq(Nat) /\ Len(p) <= l
          /\ \A i \in 1..Len(p) : o + i \in 1..Len(s) /\ p[i] = s[o + i]
          /\ \A j \in 1..Len(s) : o < j /\ j <= o + l => j - o \in 1..Len(p)
          /\ Len(p) < l => Len(s) <= o + l
      BY <2>0 DEF IsPageOf
    <2>2. \A j \in 1..Len(s) : o < j /\ j <= o + l => s[j] \in Seen(p)
      <3> SUFFICES ASSUME NEW j \in 1..Len(s), o < j, j <= o + l
                   PROVE  s[j] \in Seen(p)
        OBVIOUS
      <3>1. j - o \in 1..Len(p) /\ o + (j - o) = j
        BY <2>1
      <3>2. PICK i \in 1..Len(p) : i = j - o /\ o + i = j
        BY <3>1
      <3>3. DOMAIN p = 1..Len(p)
        BY <2>1
      <3>4. p[i] = s[o + i]
        BY <2>1
      <3> QED
        BY <3>2, <3>3, <3>4 DEF Seen
    <2>3. broker = "memory" => \A i \in 1..Len(p) : p[i] = o + i
      BY <1>3, <2>1 DEF Position
    <2> QED
      BY <1>8, <1>9, <2>1, <2>2, <2>3
  <1>10. CASE p # None /\ broker = "memory"
    BY <1>3, <1>4, <1>9, <1>10 DEF Pages, MemoryPage, PageOf
  <1>11. CASE p # None /\ broker = "redis"
    <2>1. CASE o + l # 0
      BY <1>3, <1>4, <1>9, <1>11, <2>1 DEF Pages, RedisPage, PageOf
    <2>2. CASE o + l = 0
      <3>1. p = s /\ l = 0 /\ o = 0
        BY <1>3, <1>4, <1>11, <2>2 DEF Pages, RedisPage
      <3>2. \A j \in 1..Len(s) : ~(o < j /\ j <= o + l)
        BY <3>1
      <3>3. ~(Len(p) < l)
        BY <3>1
      <3> QED
        BY <1>8, <1>11, <2>2, <3>1, <3>2, <3>3
    <2> QED
      BY <2>1, <2>2
  <1>12. CASE p # None /\ broker = "amqp"
    <2>1. p = <<>> \/ p \in [1..l -> Seen(s)]
      BY <1>3, <1>4, <1>12 DEF Pages, AmqpPage
    <2>2. Seen(s) \subseteq Nat
      BY DEF Seen
    <2>3. CASE p = <<>>
      BY <1>8, <1>12, <2>3
    <2>4. CASE p \in [1..l -> Seen(s)]
      <3>1. p \in Seq(Nat) /\ Len(p) = l
        BY <2>2, <2>4, FullPage
      <3> QED
        BY <1>8, <1>12, <3>1
    <2> QED
      BY <2>1, <2>3, <2>4
  <1>13. CASE p # None /\ broker = "sqs"
    <2>1. p = <<>>
      BY <1>4, <1>13 DEF Pages, SqsPage
    <2>2. p \in Seq(Nat) /\ Len(p) <= l
      BY <2>1
    <2> QED
      BY <1>8, <1>13, <2>2
  <1> QED
    BY <1>6, <1>7, <1>10, <1>11, <1>12, <1>13

LEMMA ViewStep ==
  ASSUME ViewConstants, ViewInv, [Next]_vars
  PROVE  ViewInv'
  <1>1. CASE UNCHANGED vars
    <2>1. UNCHANGED <<broker, brokerVars, overview, pager>>
      BY <1>1 DEF vars
    <2>2. PagerInv'
      BY <2>1, QuietBroker, PagerKeeps
    <2> QED
      BY <2>1, <2>2, PagingKeeps
  <1>2. CASE \E q \in Queue : Enqueue(q) \/ Dequeue(q) \/ DeadLetter(q)
    BY <1>2, BrokerStep
  <1>3. CASE Answer \/ \E ok \in BOOLEAN : GetQueues(ok) \/ ShowLength(ok) \/ ShowDlqLength(ok)
    BY <1>3, OverviewStep
  <1>4. CASE \E q \in Queue, limit \in Limits : OpenDlq(q, limit)
    BY <1>4, OpenStep
  <1>5. CASE GetDlq
    BY <1>5, GetStep
  <1> QED
    BY <1>1, <1>2, <1>3, <1>4, <1>5 DEF Next

\* The overview and the pages of the dashboard: for any queues and limits, and whatever
\* is enqueued, taken and dead-lettered between two calls, the overview of a memory broker
\* shows the dead letters of every queue that had any, a client that pages to the end of a
\* memory or Redis list has seen all that were there, and a page keeps its limit but for
\* the range of Redis from 0 to -1.
THEOREM ViewsComplete ==
  Spec => []ViewsMissNothing
  <1>1. Init => ViewInv
    BY ViewInit, PartsAssumption
  <1>2. ViewInv /\ [Next]_vars => ViewInv'
    BY ViewStep, PartsAssumption
  <1>3. ViewInv => ViewsMissNothing
    <2> SUFFICES ASSUME ViewInv PROVE DeadLettersShown /\ PagesMissNothing /\ PageWithinLimit
      BY DEF ViewsMissNothing
    <2>1. DeadLettersShown
      <3> SUFFICES ASSUME broker = "memory", overview.pc = "done", NEW q \in overview.before
                   PROVE  \E i \in DOMAIN overview.shown :
                              overview.shown[i].name = q /\ overview.shown[i].dlq_length > 0
        BY DEF DeadLettersShown
      <3>1. OverviewInv /\ overview.shown \in Seq(ShownRow)
        BY DEF ViewInv, MemoryInv, OverviewInv, OverviewType
      <3>2. ShownWith(q)
        BY <3>1 DEF OverviewInv
      <3> QED
        BY <3>1, <3>2 DEF ShownWith
    <2>2. PagesMissNothing
      <3> SUFFICES ASSUME broker \in {"memory", "redis"}, Exhausted
                   PROVE  /\ pager.before \subseteq Seen(pager.seen)
                          /\ broker = "memory" => IsInjective(pager.seen)
        BY DEF PagesMissNothing
      <3>1. pager.queue # None
        BY DEF ViewInv, PagerInv, Exhausted
      <3>2. PagedInv /\ pager.seen \in Seq(Nat)
        BY <3>1 DEF ViewInv, PagerInv, PagerType
      <3> QED
        BY <3>2 DEF PagedInv, IsInjective
    <2>3. PageWithinLimit
      BY DEF ViewInv, PagerInv
    <2> QED
      BY <2>1, <2>2, <2>3
  <1> QED
    BY <1>1, <1>2, <1>3, PTL DEF Spec

-----------------------------------------------------------------------------
(* Induction and recursion along a well-founded order *)

\* A set of numbers has a least one.
LEMMA LeastNumber ==
  ASSUME NEW S \in SUBSET Nat, S # {}
  PROVE  \E n \in S : \A m \in S : n <= m
  <1>1. PICK R0 : R0 = {ss \in Nat \X Nat : ss[1] < ss[2]}
    OBVIOUS
  <1>2. IsWellFoundedOn(R0, Nat)
    BY <1>1, NatLessThanWellFounded DEF OpToRel
  <1>3. PICK x \in S : \A y \in S : ~ (<<y, x>> \in R0)
    BY <1>2, WFMin
  <1>4. \A y \in S : ~(y < x)
    BY <1>1, <1>3
  <1> QED
    BY <1>4

\* A set in which every nonempty part has an element with nothing below it.
WellFounded(T, Below) ==
    /\ Below \in [T -> SUBSET T]
    /\ \A S \in SUBSET T : S # {} => \E c \in S : Below[c] \cap S = {}

LEMMA NatWellFounded ==
  WellFounded(Nat, [n \in Nat |-> IF n = 0 THEN {} ELSE {n - 1}])
  <1> DEFINE Below == [n \in Nat |-> IF n = 0 THEN {} ELSE {n - 1}]
  <1>1. Below \in [Nat -> SUBSET Nat]
    OBVIOUS
  <1>2. ASSUME NEW S \in SUBSET Nat, S # {}
        PROVE  \E c \in S : Below[c] \cap S = {}
    <2>1. PICK n \in S : \A m \in S : n <= m
      BY <1>2, LeastNumber
    <2>2. Below[n] \cap S = {}
      BY <2>1
    <2> QED
      BY <2>2
  <1> QED
    BY <1>1, <1>2 DEF WellFounded

\* Induction along a well-founded order.
LEMMA Induction ==
  ASSUME NEW T, NEW Below, WellFounded(T, Below), NEW P,
         \A c \in T : Below[c] \subseteq P => c \in P
  PROVE  T \subseteq P
  <1> SUFFICES ASSUME T \ P # {} PROVE FALSE
    OBVIOUS
  <1>1. PICK c \in T \ P : Below[c] \cap (T \ P) = {}
    BY DEF WellFounded
  <1>2. Below[c] \subseteq P
    BY <1>1 DEF WellFounded
  <1> QED
    BY <1>1, <1>2

\* A function on a part of T that is closed downwards, computed by H from the
\* values below.
Approx(T, Below, V, H, D, g) ==
    /\ D \in SUBSET T /\ \A c \in D : Below[c] \subseteq D
    /\ g \in [D -> V]
    /\ \A c \in D : g[c] = H[c][[p \in Below[c] |-> g[p]]]

LEMMA ApproxUnique ==
  ASSUME NEW T, NEW Below, WellFounded(T, Below), NEW V, NEW H,
         NEW D, NEW g, Approx(T, Below, V, H, D, g),
         NEW E, NEW h, Approx(T, Below, V, H, E, h), NEW c \in D \cap E
  PROVE  g[c] = h[c]
  <1> DEFINE S == {d \in D \cap E : g[d] # h[d]}
  <1> SUFFICES ASSUME S # {} PROVE FALSE
    OBVIOUS
  <1>1. S \in SUBSET T
    BY DEF Approx
  <1>2. PICK d \in S : Below[d] \cap S = {}
    BY <1>1 DEF WellFounded
  <1>3. Below[d] \subseteq D \cap E
    BY DEF Approx
  <1>4. \A p \in Below[d] : g[p] = h[p]
    BY <1>2, <1>3
  <1>5. [p \in Below[d] |-> g[p]] = [p \in Below[d] |-> h[p]]
    BY <1>4
  <1>6. g[d] = H[d][[p \in Below[d] |-> g[p]]] /\ h[d] = H[d][[p \in Below[d] |-> h[p]]]
    BY DEF Approx
  <1> QED
    BY <1>5, <1>6

\* H computes an element of V from elements of V for what is below.
Computes(T, Below, V, H) == \A c \in T : \A v \in [Below[c] -> V] : H[c][v] \in V

\* f is defined by H.
DefinedBy(T, Below, V, H, f) ==
    f \in [T -> V] /\ \A c \in T : f[c] = H[c][[p \in Below[c] |-> f[p]]]

\* A function can be defined by recursion along a well-founded order.
LEMMA Recursion ==
  ASSUME NEW T, NEW Below, WellFounded(T, Below), NEW V, NEW H, Computes(T, Below, V, H)
  PROVE  \E f : DefinedBy(T, Below, V, H, f)
  <1> DEFINE Ap(D, g) == Approx(T, Below, V, H, D, g)
             At(q, v) == \E D \in SUBSET T : \E g \in [D -> V] : Ap(D, g) /\ q \in D /\ v = g[q]
             Dom == {q \in T : \E v \in V : At(q, v)}
             G == [q \in Dom |-> CHOOSE v \in V : At(q, v)]
  <1>1. \A D \in SUBSET T : \A g \in [D -> V] : Ap(D, g) => \A q \in D : q \in Dom /\ G[q] = g[q]
    <2> SUFFICES ASSUME NEW D \in SUBSET T, NEW g \in [D -> V], Ap(D, g), NEW q \in D
                 PROVE  q \in Dom /\ G[q] = g[q]
      OBVIOUS
    <2>1. At(q, g[q]) /\ g[q] \in V
      OBVIOUS
    <2>2. q \in Dom
      BY <2>1
    <2>3. PICK v \in V : v = G[q] /\ At(q, v)
      BY <2>1, <2>2
    <2>4. PICK E \in SUBSET T : \E h \in [E -> V] : Ap(E, h) /\ q \in E /\ v = h[q]
      BY <2>3
    <2>5. PICK h \in [E -> V] : Ap(E, h) /\ q \in E /\ v = h[q]
      BY <2>4
    <2>6. g[q] = h[q]
      BY <2>5, ApproxUnique
    <2> QED
      BY <2>2, <2>3, <2>5, <2>6
  <1>2. \A q \in Dom : \E D \in SUBSET T : \E g \in [D -> V] : Ap(D, g) /\ q \in D
    OBVIOUS
  <1> HIDE DEF At
  <1>3. G \in [Dom -> V]
    OBVIOUS
  <1>4. Dom \in SUBSET T
    OBVIOUS
  <1> HIDE DEF Dom, G
  <1>5. \A q \in Dom : /\ Below[q] \subseteq Dom
                       /\ G[q] = H[q][[p \in Below[q] |-> G[p]]]
    <2> SUFFICES ASSUME NEW q \in Dom
                 PROVE  Below[q] \subseteq Dom /\ G[q] = H[q][[p \in Below[q] |-> G[p]]]
      OBVIOUS
    <2>1a. PICK D \in SUBSET T : \E g \in [D -> V] : Ap(D, g) /\ q \in D
      BY <1>2
    <2>1. PICK g \in [D -> V] : Ap(D, g) /\ q \in D
      BY <2>1a
    <2>2. Below[q] \subseteq D /\ g[q] = H[q][[p \in Below[q] |-> g[p]]]
      BY <2>1 DEF Approx
    <2>3. Below[q] \subseteq Dom /\ G[q] = g[q] /\ \A p \in Below[q] : G[p] = g[p]
      BY <1>1, <2>1, <2>2
    <2>4. [p \in Below[q] |-> g[p]] = [p \in Below[q] |-> G[p]]
      BY <2>3
    <2> QED
      BY <2>2, <2>3, <2>4
  <1>6. Dom = T
    <2> SUFFICES ASSUME T \ Dom # {} PROVE FALSE
      BY <1>4
    <2>1. PICK c \in T \ Dom : Below[c] \cap (T \ Dom) = {}
      BY DEF WellFounded
    <2>2. Below[c] \subseteq Dom
      BY <2>1 DEF WellFounded
    <2> DEFINE D == Dom \cup {c}
               val == H[c][[p \in Below[c] |-> G[p]]]
               g == [q \in D |-> IF q = c THEN val ELSE G[q]]
    <2>3. [p \in Below[c] |-> G[p]] \in [Below[c] -> V]
      BY <1>3, <2>2
    <2>4. val \in V
      BY <2>3 DEF Computes
    <2>5. g \in [D -> V] /\ D \in SUBSET T
      BY <1>3, <1>4, <2>4
    <2>6. \A q \in D : Below[q] \subseteq Dom
      BY <1>5, <2>2
    <2>7. \A q \in Dom : g[q] = G[q]
      BY <2>1
    <2>8. \A q \in D : g[q] = H[q][[p \in Below[q] |-> g[p]]]
      <3> SUFFICES ASSUME NEW q \in D PROVE g[q] = H[q][[p \in Below[q] |-> g[p]]]
        OBVIOUS
      <3>1. [p \in Below[q] |-> g[p]] = [p \in Below[q] |-> G[p]]
        BY <2>6, <2>7
      <3>2. g[q] = H[q][[p \in Below[q] |-> G[p]]]
        BY <1>5, <2>7
      <3> QED
        BY <3>1, <3>2
    <2>9. Ap(D, g)
      BY <2>5, <2>6, <2>8 DEF Approx
    <2> QED
      BY <1>1, <2>1, <2>5, <2>9
  <1> QED
    BY <1>3, <1>5, <1>6 DEF DefinedBy

-----------------------------------------------------------------------------
(* The delays of retries *)

\* TwoTo is what its definition says.
LEMMA TwoToFacts ==
  /\ B!TwoTo \in [Nat -> Nat]
  /\ B!TwoTo[0] = 1
  /\ \A n \in Nat : B!TwoTo[n + 1] = 2 * B!TwoTo[n]
  <1> DEFINE Below == [n \in Nat |-> IF n = 0 THEN {} ELSE {n - 1}]
             H == [n \in Nat |-> [v \in [Below[n] -> Nat] |-> IF n = 0 THEN 1 ELSE 2 * v[n - 1]]]
  <1>1. Computes(Nat, Below, Nat, H)
    BY DEF Computes
  <1>2. WellFounded(Nat, Below)
    BY NatWellFounded
  <1>3. PICK f : DefinedBy(Nat, Below, Nat, H, f)
    <2> HIDE DEF Below, H
    <2> QED
      BY <1>1, <1>2, Recursion
  <1>4. f \in [Nat -> Nat] /\ \A n \in Nat : f[n] = H[n][[p \in Below[n] |-> f[p]]]
    BY <1>3 DEF DefinedBy
  <1>5. \A n \in Nat : f[n] = IF n = 0 THEN 1 ELSE 2 * f[n - 1]
    <2> SUFFICES ASSUME NEW n \in Nat PROVE f[n] = IF n = 0 THEN 1 ELSE 2 * f[n - 1]
      OBVIOUS
    <2>1. [p \in Below[n] |-> f[p]] \in [Below[n] -> Nat]
      BY <1>4
    <2>2. f[n] = IF n = 0 THEN 1 ELSE 2 * [p \in Below[n] |-> f[p]][n - 1]
      BY <1>4, <2>1
    <2> QED
      BY <2>2
  <1>6. f = [n \in Nat |-> IF n = 0 THEN 1 ELSE 2 * f[n - 1]]
    BY <1>4, <1>5
  <1>7. B!TwoTo = [n \in Nat |-> IF n = 0 THEN 1 ELSE 2 * B!TwoTo[n - 1]]
    BY <1>6 DEF B!TwoTo
  <1>8. \A n \in Nat : B!TwoTo[n + 1] = 2 * B!TwoTo[n]
    BY <1>7
  <1>9. B!TwoTo[0] = 1
    BY <1>7
  <1>10. \A n \in Nat : B!TwoTo[n] \in Nat
    <2> SUFFICES ASSUME {n \in Nat : B!TwoTo[n] \notin Nat} # {} PROVE FALSE
      OBVIOUS
    <2>1. PICK n \in Nat : B!TwoTo[n] \notin Nat /\ \A m \in Nat : B!TwoTo[m] \notin Nat => n <= m
      <3> DEFINE S == {n \in Nat : B!TwoTo[n] \notin Nat}
      <3>1. \E n \in S : \A m \in S : n <= m
        BY LeastNumber
      <3> QED
        BY <3>1
    <2>2. n # 0
      BY <1>9, <2>1
    <2>3. n - 1 \in Nat /\ ~(n <= n - 1)
      BY <2>2
    <2>4. B!TwoTo[n - 1] \in Nat
      BY <2>1, <2>3
    <2>5. B!TwoTo[n] = 2 * B!TwoTo[n - 1]
      BY <1>8, <2>3
    <2> QED
      BY <2>1, <2>4, <2>5
  <1> QED
    BY <1>7, <1>8, <1>9, <1>10

\* Powers of two grow with the exponent.
LEMMA TwoToGrows ==
  ASSUME NEW w \in Nat, NEW n \in Nat, w <= n
  PROVE  B!TwoTo[n] >= B!TwoTo[w] /\ B!TwoTo[w] >= 1
  <1> DEFINE Bad == {k \in Nat : w <= k /\ B!TwoTo[k] < B!TwoTo[w]}
  <1>1. \A k \in Nat : B!TwoTo[k] \in Nat /\ B!TwoTo[k + 1] = 2 * B!TwoTo[k]
    BY TwoToFacts
  <1>2. ASSUME Bad # {} PROVE FALSE
    <2>1. PICK k \in Bad : \A m \in Bad : k <= m
      BY <1>2, LeastNumber
    <2>2. k # w
      BY <1>1
    <2>3. k - 1 \in Nat /\ w <= k - 1 /\ k - 1 \notin Bad
      BY <2>1, <2>2
    <2>4. B!TwoTo[k] = 2 * B!TwoTo[k - 1] /\ B!TwoTo[k - 1] \in Nat
      BY <1>1, <2>3
    <2>5. B!TwoTo[k - 1] >= B!TwoTo[w]
      BY <1>1, <2>3
    <2> QED
      BY <1>1, <2>4, <2>5
  <1> DEFINE Low == {k \in Nat : B!TwoTo[k] < 1}
  <1>3. ASSUME Low # {} PROVE FALSE
    <2>1. PICK k \in Low : \A m \in Low : k <= m
      BY <1>3, LeastNumber
    <2>2. k # 0
      BY TwoToFacts
    <2>3. k - 1 \in Nat /\ k - 1 \notin Low
      BY <2>1, <2>2
    <2>4. B!TwoTo[k] = 2 * B!TwoTo[k - 1] /\ B!TwoTo[k - 1] \in Nat
      BY <1>1, <2>3
    <2> QED
      BY <1>1, <2>3, <2>4
  <1> QED
    BY <1>1, <1>2, <1>3, SMTT(30)

\* A product with a positive number is not less than the other factor.
LEMMA Multiple ==
  ASSUME NEW x \in Nat, NEW y \in Nat
  PROVE  x * y \in Nat /\ (x # 0 => x * y >= y) /\ 0 * y = 0
  <1>1. x * y \in Nat /\ 0 * y = 0
    OBVIOUS
  <1>2. ASSUME x # 0 PROVE x * y >= y
    <2>1. PICK z \in Nat : x = z + 1
      BY <1>2
    <2>2. x * y = z * y + y /\ z * y \in Nat
      BY <2>1
    <2> QED
      BY <2>2
  <1> QED
    BY <1>1, <1>2

\* The word arithmetic of delay_for computes the delay without a limit on numbers.
LEMMA DelayForExact ==
  ASSUME B!DelayConstants, NEW s \in B!Strategies, NEW n \in Nat
  PROVE  B!DelayFor(s, n) = IF s.kind = "fixed" THEN s.base ELSE B!Lesser(s.base * B!TwoTo[n], s.max)
  <1>1. Width \in Nat /\ \A k \in Nat : B!TwoTo[k] \in Nat
    BY TwoToFacts DEF B!DelayConstants
  <1>2. PICK top \in Nat : top = B!MaxWord /\ B!TwoTo[Width] = top + 1
    BY <1>1, TwoToGrows DEF B!MaxWord
  <1>3. PICK base \in Nat, max \in Nat : base = s.base /\ max = s.max /\ base <= top /\ max <= top
    BY <1>2 DEF B!Strategies, B!Word
  <1>4. PICK pow \in Nat : pow = B!TwoTo[n]
    BY <1>1
  <1>5. PICK shl \in Nat : shl = B!CheckedShl(n) /\ shl = IF n < Width THEN pow ELSE top
    BY <1>2, <1>4 DEF B!CheckedShl
  <1>6. PICK prod \in Nat : prod = base * shl
    BY <1>3, <1>5, Multiple
  <1>7. PICK exact \in Nat : exact = base * pow
    BY <1>3, <1>4, Multiple
  <1>8. B!Lesser(B!Lesser(prod, top), max) = B!Lesser(exact, max)
    <2>1. CASE n < Width
      BY <1>2, <1>3, <1>5, <1>6, <1>7, <2>1 DEF B!Lesser
    <2>2. CASE ~(n < Width) /\ base = 0
      BY <1>2, <1>3, <1>6, <1>7, <2>2, Multiple DEF B!Lesser
    <2>3. CASE ~(n < Width) /\ base # 0
      <3>1. pow >= top + 1
        BY <1>1, <1>2, <1>4, <2>3, TwoToGrows
      <3>2. exact >= pow /\ prod >= top
        BY <1>2, <1>3, <1>4, <1>5, <1>6, <1>7, <2>3, Multiple
      <3> QED
        BY <1>2, <1>3, <1>4, <1>6, <1>7, <3>1, <3>2 DEF B!Lesser
    <2> QED
      BY <2>1, <2>2, <2>3
  <1>9. B!SaturatingMul(s.base, B!CheckedShl(n)) = B!Lesser(prod, top)
    BY <1>2, <1>3, <1>5, <1>6 DEF B!SaturatingMul
  <1> QED
    BY <1>3, <1>4, <1>7, <1>8, <1>9 DEF B!DelayFor

DelayInv == strategy \in B!Strategies /\ retry \in Nat /\ delay = B!DelayFor(strategy, retry)

\* delay_for is exact for every strategy, retry and width of a word: past the
\* width the shift saturates, and so does the product unless the base is zero.
THEOREM DelaysExact ==
  B!Spec => []DelayIsExact
  <1>1. B!Init => DelayInv
    BY DEF B!Init, DelayInv
  <1>2. DelayInv /\ [B!Next]_(B!vars) => DelayInv'
    BY DEF DelayInv, B!Next, B!vars
  <1>3. DelayInv => DelayIsExact
    BY DelayForExact, PartsAssumption DEF DelayInv, DelayIsExact, B!DelayIsExact
  <1> QED
    BY <1>1, <1>2, <1>3, PTL DEF B!Spec

-----------------------------------------------------------------------------
(* Sequences of sequences *)

LEMMA IndexWellFounded ==
  ASSUME NEW n \in Nat
  PROVE  WellFounded(1..n, [i \in 1..n |-> IF i = 1 THEN {} ELSE {i - 1}])
  <1> DEFINE Below == [i \in 1..n |-> IF i = 1 THEN {} ELSE {i - 1}]
  <1>1. Below \in [1..n -> SUBSET (1..n)]
    OBVIOUS
  <1>2. ASSUME NEW S \in SUBSET (1..n), S # {}
        PROVE  \E c \in S : Below[c] \cap S = {}
    <2>1. PICK k \in S : \A m \in S : k <= m
      <3>1. S \in SUBSET Nat
        OBVIOUS
      <3> QED
        BY <1>2, <3>1, LeastNumber
    <2>2. Below[k] \cap S = {}
      BY <2>1
    <2> QED
      BY <2>2
  <1> QED
    BY <1>1, <1>2 DEF WellFounded

\* FlattenSeq appends the sequences one after the other.
LEMMA FlattenSeqSteps ==
  ASSUME NEW S, NEW ss \in Seq(Seq(S)), Len(ss) # 0
  PROVE  \E F \in [1..Len(ss) -> Seq(S)] :
            /\ F[1] = ss[1]
            /\ \A i \in 1..Len(ss) : i # 1 => F[i] = F[i - 1] \o ss[i]
            /\ C!FlattenSeq(ss) = F[Len(ss)]
  <1>1. PICK n \in Nat : n = Len(ss) /\ n # 0 /\ 1 \in 1..n
    OBVIOUS
  <1>2. \A i \in 1..n : ss[i] \in Seq(S)
    BY <1>1
  <1> DEFINE Below == [i \in 1..n |-> IF i = 1 THEN {} ELSE {i - 1}]
             H == [i \in 1..n |-> [v \in [Below[i] -> Seq(S)] |-> IF i = 1 THEN ss[i] ELSE v[i - 1] \o ss[i]]]
             Body(f) == [i \in 1..n |-> IF i = 1 THEN ss[i] ELSE f[i - 1] \o ss[i]]
             F == CHOOSE f : f = Body(f)
  <1>3. Computes(1..n, Below, Seq(S), H)
    <2> SUFFICES ASSUME NEW i \in 1..n, NEW v \in [Below[i] -> Seq(S)] PROVE H[i][v] \in Seq(S)
      BY DEF Computes
    <2>1. CASE i = 1
      BY <1>2, <2>1
    <2>2. CASE i # 1
      <3>1. v[i - 1] \in Seq(S)
        BY <2>2
      <3>2. v[i - 1] \o ss[i] \in Seq(S)
        BY <1>2, <3>1
      <3> QED
        BY <2>2, <3>2
    <2> QED
      BY <2>1, <2>2
  <1>4. WellFounded(1..n, Below)
    BY IndexWellFounded
  <1>5. PICK f : DefinedBy(1..n, Below, Seq(S), H, f)
    <2> HIDE DEF Below, H
    <2> QED
      BY <1>3, <1>4, Recursion
  <1>6. f \in [1..n -> Seq(S)] /\ \A i \in 1..n : f[i] = H[i][[p \in Below[i] |-> f[p]]]
    BY <1>5 DEF DefinedBy
  <1>7. \A i \in 1..n : f[i] = IF i = 1 THEN ss[i] ELSE f[i - 1] \o ss[i]
    <2> SUFFICES ASSUME NEW i \in 1..n PROVE f[i] = IF i = 1 THEN ss[i] ELSE f[i - 1] \o ss[i]
      OBVIOUS
    <2>1. PICK v : v = [p \in Below[i] |-> f[p]]
      OBVIOUS
    <2>2. v \in [Below[i] -> Seq(S)]
      BY <1>6, <2>1
    <2>3. f[i] = IF i = 1 THEN ss[i] ELSE v[i - 1] \o ss[i]
      BY <1>6, <2>1, <2>2
    <2>4. i # 1 => v[i - 1] = f[i - 1]
      BY <2>1
    <2> QED
      BY <2>3, <2>4
  <1>8. f = Body(f)
    BY <1>6, <1>7
  <1>9. F = Body(F)
    BY <1>8
  <1>10. C!FlattenSeq(ss) = F[n]
    BY <1>1 DEF C!FlattenSeq
  <1> HIDE DEF F
  <1>11. F[1] = ss[1] /\ \A i \in 1..n : i # 1 => F[i] = F[i - 1] \o ss[i]
    BY <1>1, <1>9
  <1>12. \A i \in 1..n : F[i] \in Seq(S)
    <2> DEFINE Bad == {i \in 1..n : F[i] \notin Seq(S)}
    <2> SUFFICES ASSUME Bad # {} PROVE FALSE
      OBVIOUS
    <2>1. PICK k \in Bad : \A m \in Bad : k <= m
      <3>1. Bad \in SUBSET Nat
        OBVIOUS
      <3> QED
        BY <3>1, LeastNumber
    <2>2. k # 1
      BY <1>2, <1>11
    <2>3. k - 1 \in 1..n /\ k - 1 \notin Bad
      BY <2>1, <2>2
    <2>4. F[k - 1] \o ss[k] \in Seq(S)
      BY <1>2, <2>3
    <2> QED
      BY <1>11, <2>2, <2>4
  <1>13. F \in [1..n -> Seq(S)]
    BY <1>9, <1>12
  <1> QED
    BY <1>1, <1>10, <1>11, <1>13

\* The elements of F are those of the first n sequences of ss, in order: the j-th
\* one is the idx[j]-th of the part[j]-th sequence.
Spread(ss, n, F, part, idx) ==
    /\ part \in [1..Len(F) -> 1..n] /\ idx \in [1..Len(F) -> Nat]
    /\ \A j \in 1..Len(F) : idx[j] \in 1..Len(ss[part[j]]) /\ F[j] = ss[part[j]][idx[j]]
    /\ \A j, k \in 1..Len(F) : j < k => part[j] < part[k] \/ (part[j] = part[k] /\ idx[j] < idx[k])
    /\ \A i \in 1..n : \A x \in 1..Len(ss[i]) : \E j \in 1..Len(F) : part[j] = i /\ idx[j] = x

Spreads(ss, n, F) == \E part, idx : Spread(ss, n, F, part, idx)

LEMMA SpreadFirst ==
  ASSUME NEW S, NEW ss \in Seq(Seq(S)), 1 \in 1..Len(ss)
  PROVE  Spreads(ss, 1, ss[1])
  <1>1. PICK F \in Seq(S) : F = ss[1]
    OBVIOUS
  <1>2. Len(F) \in Nat /\ 1..1 = {1}
    OBVIOUS
  <1> DEFINE part == [j \in 1..Len(F) |-> 1]
             idx == [j \in 1..Len(F) |-> j]
  <1>3. part \in [1..Len(F) -> 1..1] /\ idx \in [1..Len(F) -> Nat]
    BY <1>2
  <1>4. \A j \in 1..Len(F) : idx[j] \in 1..Len(ss[part[j]]) /\ F[j] = ss[part[j]][idx[j]]
    BY <1>1
  <1>5. \A j, k \in 1..Len(F) : j < k => part[j] < part[k] \/ (part[j] = part[k] /\ idx[j] < idx[k])
    OBVIOUS
  <1>6. \A i \in 1..1 : \A x \in 1..Len(ss[i]) : \E j \in 1..Len(F) : part[j] = i /\ idx[j] = x
    BY <1>1, <1>2
  <1>7. Spread(ss, 1, F, part, idx)
    BY <1>3, <1>4, <1>5, <1>6 DEF Spread
  <1> QED
    BY <1>1, <1>7 DEF Spreads

LEMMA SpreadNext ==
  ASSUME NEW S, NEW ss \in Seq(Seq(S)), NEW n \in Nat, n + 1 \in 1..Len(ss), NEW F \in Seq(S),
         Spreads(ss, n, F)
  PROVE  Spreads(ss, n + 1, F \o ss[n + 1])
  <1>0. PICK part, idx : Spread(ss, n, F, part, idx)
    BY DEF Spreads
  <1>1. PICK G \in Seq(S) : G = ss[n + 1]
    OBVIOUS
  <1>2. PICK E : E = F \o G
    OBVIOUS
  <1>3. PICK f \in Nat, g \in Nat : f = Len(F) /\ g = Len(G)
    OBVIOUS
  <1>4. /\ Len(E) = f + g
        /\ \A j \in 1..f : E[j] = F[j]
        /\ \A j \in 1..(f + g) : ~(j <= f) => E[j] = G[j - f] /\ j - f \in 1..g
    BY <1>2, <1>3
  <1> DEFINE p == [j \in 1..(f + g) |-> IF j <= f THEN part[j] ELSE n + 1]
             x == [j \in 1..(f + g) |-> IF j <= f THEN idx[j] ELSE j - f]
  <1>5. /\ part \in [1..f -> 1..n] /\ idx \in [1..f -> Nat]
        /\ \A j \in 1..f : idx[j] \in 1..Len(ss[part[j]]) /\ F[j] = ss[part[j]][idx[j]]
        /\ \A j, k \in 1..f : j < k => part[j] < part[k] \/ (part[j] = part[k] /\ idx[j] < idx[k])
        /\ \A i \in 1..n : \A y \in 1..Len(ss[i]) : \E j \in 1..f : part[j] = i /\ idx[j] = y
    BY <1>0, <1>3 DEF Spread
  <1>6. p \in [1..(f + g) -> 1..(n + 1)] /\ x \in [1..(f + g) -> Nat]
    BY <1>5, SMTT(30)
  <1>7. ASSUME NEW j \in 1..(f + g)
        PROVE  x[j] \in 1..Len(ss[p[j]]) /\ E[j] = ss[p[j]][x[j]]
    <2>1. CASE j <= f
      <3>1. j \in 1..f /\ p[j] = part[j] /\ x[j] = idx[j] /\ E[j] = F[j]
        BY <1>4, <2>1
      <3> QED
        BY <1>5, <3>1
    <2>2. CASE ~(j <= f)
      <3>1. p[j] = n + 1 /\ x[j] = j - f /\ E[j] = G[j - f] /\ j - f \in 1..g
        BY <1>4, <2>2
      <3> QED
        BY <1>1, <1>3, <3>1
    <2> QED
      BY <2>1, <2>2
  <1>8. ASSUME NEW j \in 1..(f + g), NEW k \in 1..(f + g), j < k
        PROVE  p[j] < p[k] \/ (p[j] = p[k] /\ x[j] < x[k])
    <2>1. CASE k <= f
      <3>1. j \in 1..f /\ k \in 1..f
        BY <1>8, <2>1
      <3> QED
        BY <1>5, <1>8, <2>1, <3>1
    <2>2. CASE j <= f /\ ~(k <= f)
      <3>0. j \in 1..f
        BY <2>2
      <3>1. part[j] \in 1..n
        BY <1>5, <3>0
      <3> QED
        BY <2>2, <3>1
    <2>3. CASE ~(j <= f)
      BY <1>8, <2>3
    <2> QED
      BY <2>1, <2>2, <2>3
  <1>9. ASSUME NEW i \in 1..(n + 1), NEW y \in 1..Len(ss[i])
        PROVE  \E j \in 1..(f + g) : p[j] = i /\ x[j] = y
    <2>1. CASE i \in 1..n
      <3>1. PICK j \in 1..f : part[j] = i /\ idx[j] = y
        BY <1>5, <2>1
      <3> QED
        BY <3>1
    <2>2. CASE i = n + 1
      <3>1. y \in 1..g
        BY <1>1, <1>3, <2>2
      <3>2. f + y \in 1..(f + g) /\ ~(f + y <= f) /\ (f + y) - f = y
        BY <3>1
      <3> QED
        BY <2>2, <3>2
    <2> QED
      BY <2>1, <2>2
  <1> HIDE DEF p, x
  <1>10. Spread(ss, n + 1, E, p, x)
    BY <1>4, <1>6, <1>7, <1>8, <1>9 DEF Spread
  <1> QED
    BY <1>1, <1>2, <1>10 DEF Spreads

\* What FlattenSeq returns has the elements of the sequences, in order.
LEMMA FlattenSpread ==
  ASSUME NEW S, NEW ss \in Seq(Seq(S))
  PROVE  /\ C!FlattenSeq(ss) \in Seq(S)
         /\ Spreads(ss, Len(ss), C!FlattenSeq(ss))
  <1>1. CASE Len(ss) = 0
    <2>1. C!FlattenSeq(ss) = <<>> /\ Len(<<>>) = 0
      BY <1>1 DEF C!FlattenSeq
    <2>2. Spread(ss, 0, <<>>, <<>>, <<>>)
      BY <2>1 DEF Spread
    <2>3. Spreads(ss, 0, <<>>)
      BY <2>2 DEF Spreads
    <2> QED
      BY <1>1, <2>1, <2>3
  <1>2. CASE Len(ss) # 0
    <2>1. PICK F \in [1..Len(ss) -> Seq(S)] :
            /\ F[1] = ss[1]
            /\ \A i \in 1..Len(ss) : i # 1 => F[i] = F[i - 1] \o ss[i]
            /\ C!FlattenSeq(ss) = F[Len(ss)]
      BY <1>2, FlattenSeqSteps
    <2> DEFINE Bad == {i \in 1..Len(ss) : ~Spreads(ss, i, F[i])}
    <2>2. ASSUME Bad # {} PROVE FALSE
      <3>1. PICK k \in Bad : \A m \in Bad : k <= m
        <4>1. Bad \in SUBSET Nat
          OBVIOUS
        <4> QED
          BY <2>2, <4>1, LeastNumber
      <3>2. k # 1
        BY <1>2, <2>1, SpreadFirst
      <3>3. PICK n \in Nat : n + 1 = k /\ n \in 1..Len(ss) /\ n \notin Bad
        <4>1. k \in Nat /\ k \in 1..Len(ss) /\ ~(k <= k - 1)
          OBVIOUS
        <4>2. k - 1 \in Nat /\ (k - 1) + 1 = k /\ k - 1 \in 1..Len(ss) /\ k - 1 \notin Bad
          BY <3>1, <3>2, <4>1
        <4> QED
          BY <4>2
      <3>4. Spreads(ss, n, F[n])
        BY <3>3
      <3>5. F[n] \in Seq(S) /\ F[n + 1] = F[n] \o ss[n + 1]
        <4>1. n + 1 \in 1..Len(ss) /\ n + 1 # 1 /\ (n + 1) - 1 = n
          BY <3>2, <3>3
        <4> QED
          BY <2>1, <3>3, <4>1
      <3>6. Spreads(ss, n + 1, F[n] \o ss[n + 1])
        BY <3>3, <3>4, <3>5, SpreadNext
      <3> QED
        BY <3>3, <3>5, <3>6
    <2>3. Len(ss) \in 1..Len(ss)
      BY <1>2
    <2> QED
      BY <2>1, <2>2, <2>3
  <1> QED
    BY <1>1, <1>2

-----------------------------------------------------------------------------
(* The recursive functions over canvases *)

SubCanvases == [c \in Workflows |-> C!Parts(c)]

LEMMA CanvasParts ==
  ASSUME C!CanvasConstants, NEW c \in Workflows
  PROVE  /\ c.kind \in {"single", "chain", "group", "chord"}
         /\ c.kind # "single" =>
              /\ c.parts \in Seq(Workflows) /\ DOMAIN c.parts = 1..Len(c.parts) /\ Len(c.parts) \in Nat
              /\ \A i \in DOMAIN c.parts : c.parts[i] \in Workflows /\ c.parts[i] \in C!Parts(c)
         /\ c.kind = "chord" => c.callback \in Workflows /\ c.callback \in C!Parts(c)
         /\ C!Parts(c) \in SUBSET Workflows
         /\ c.kind = "single" => C!Parts(c) = {}
         /\ c.kind \in {"chain", "group"} => C!Parts(c) = {c.parts[i] : i \in DOMAIN c.parts}
         /\ c.kind = "chord" => C!Parts(c) = {c.parts[i] : i \in DOMAIN c.parts} \cup {c.callback}
  <1>1. c.kind \in {"single", "chain", "group", "chord"}
    BY DEF C!CanvasConstants
  <1>2. c.kind # "single" => c.parts \in Seq(Workflows)
    BY DEF C!CanvasConstants
  <1>3. c.kind = "chord" => c.callback \in Workflows
    BY DEF C!CanvasConstants
  <1>4. c.kind # "single" => DOMAIN c.parts = 1..Len(c.parts) /\ Len(c.parts) \in Nat
                              /\ \A i \in DOMAIN c.parts : c.parts[i] \in Workflows
    BY <1>2
  <1>5. /\ c.kind = "single" => C!Parts(c) = {}
        /\ c.kind \in {"chain", "group"} => C!Parts(c) = {c.parts[i] : i \in DOMAIN c.parts}
        /\ c.kind = "chord" => C!Parts(c) = {c.parts[i] : i \in DOMAIN c.parts} \cup {c.callback}
    BY <1>1 DEF C!Parts, C!Range
  <1> QED
    BY <1>1, <1>2, <1>3, <1>4, <1>5

LEMMA CanvasesWellFounded ==
  ASSUME C!CanvasConstants
  PROVE  WellFounded(Workflows, SubCanvases)
  <1>1. SubCanvases \in [Workflows -> SUBSET Workflows]
    BY CanvasParts DEF SubCanvases
  <1>2. \A S \in SUBSET Workflows : S # {} => \E c \in S : SubCanvases[c] \cap S = {}
    BY DEF C!CanvasConstants, SubCanvases
  <1> QED
    BY <1>1, <1>2 DEF WellFounded

Signatures == {c.sig : c \in Workflows}

LEMMA LeavesEq ==
  ASSUME C!CanvasConstants
  PROVE  /\ C!Leaves \in [Workflows -> SUBSET Signatures]
         /\ \A c \in Workflows : C!Leaves[c] = IF c.kind = "single" THEN {c.sig}
                                               ELSE UNION {C!Leaves[p] : p \in C!Parts(c)}
  <1> DEFINE V == SUBSET Signatures
             H == [c \in Workflows |-> [v \in [SubCanvases[c] -> V] |->
                      IF c.kind = "single" THEN {c.sig} ELSE UNION {v[p] : p \in C!Parts(c)}]]
             Body(f) == [c \in Workflows |->
                      IF c.kind = "single" THEN {c.sig} ELSE UNION {f[p] : p \in C!Parts(c)}]
  <1>1. \A c \in Workflows : SubCanvases[c] = C!Parts(c) /\ C!Parts(c) \subseteq Workflows
    BY CanvasParts DEF SubCanvases
  <1>2. \A c \in Workflows : \A v \in [SubCanvases[c] -> V] :
            H[c][v] = IF c.kind = "single" THEN {c.sig} ELSE UNION {v[p] : p \in C!Parts(c)}
    OBVIOUS
  <1>3. Computes(Workflows, SubCanvases, V, H)
    <2> SUFFICES ASSUME NEW c \in Workflows, NEW v \in [SubCanvases[c] -> V] PROVE H[c][v] \in V
      BY DEF Computes
    <2>1. UNION {v[p] : p \in C!Parts(c)} \in V
      BY <1>1
    <2>2. {c.sig} \in V
      BY DEF Signatures
    <2> QED
      BY <1>2, <2>1, <2>2
  <1>4. PICK f : DefinedBy(Workflows, SubCanvases, V, H, f)
    <2> HIDE DEF V, H
    <2> QED
      BY <1>3, CanvasesWellFounded, Recursion
  <1>5. f \in [Workflows -> V] /\ \A c \in Workflows : f[c] = H[c][[p \in SubCanvases[c] |-> f[p]]]
    BY <1>4 DEF DefinedBy
  <1>6. f = Body(f)
    <2> SUFFICES ASSUME NEW c \in Workflows
                 PROVE  f[c] = IF c.kind = "single" THEN {c.sig} ELSE UNION {f[p] : p \in C!Parts(c)}
      BY <1>5
    <2>1. PICK v : v = [p \in SubCanvases[c] |-> f[p]]
      OBVIOUS
    <2>2. v \in [SubCanvases[c] -> V] /\ f[c] = H[c][v]
      BY <1>1, <1>5, <2>1
    <2>3. {v[p] : p \in C!Parts(c)} = {f[p] : p \in C!Parts(c)}
      BY <1>1, <2>1
    <2> HIDE DEF H
    <2> QED
      BY <1>2, <2>2, <2>3
  <1>7. C!Leaves = Body(C!Leaves)
    BY <1>6 DEF C!Leaves
  <1>8. \A c \in Workflows : C!Leaves[c] = IF c.kind = "single" THEN {c.sig}
                                           ELSE UNION {C!Leaves[p] : p \in C!Parts(c)}
    BY <1>7
  <1>9. \A c \in Workflows : C!Leaves[c] \in V
    <2> DEFINE P == {c \in Workflows : C!Leaves[c] \in V}
    <2>1. ASSUME NEW c \in Workflows, SubCanvases[c] \subseteq P PROVE c \in P
      <3>1. UNION {C!Leaves[p] : p \in C!Parts(c)} \in V
        BY <1>1, <2>1
      <3>2. {c.sig} \in V
        BY DEF Signatures
      <3> QED
        BY <1>8, <3>1, <3>2
    <2> HIDE DEF P
    <2>2. Workflows \subseteq P
      BY <2>1, CanvasesWellFounded, Induction
    <2> QED
      BY <2>2 DEF P
  <1> QED
    BY <1>7, <1>8, <1>9

\* The pairs that a canvas itself puts in order are leaves of it.
LEMMA InOrderLeaves ==
  ASSUME C!CanvasConstants, NEW c \in Workflows, NEW p \in C!InOrder(c)
  PROVE  /\ c.kind \in {"chain", "chord"}
         /\ c.kind = "chain" => \E i, j \in DOMAIN c.parts :
                i < j /\ p \in C!Leaves[c.parts[i]] \X C!Leaves[c.parts[j]]
         /\ c.kind = "chord" => \E i \in DOMAIN c.parts : p \in C!Leaves[c.parts[i]] \X C!Leaves[c.callback]
         /\ p \in Signatures \X Signatures
  <1>1. c.kind \in {"chain", "chord"}
    BY CanvasParts DEF C!InOrder
  <1>2. c.kind = "chain" => \E i, j \in DOMAIN c.parts :
                i < j /\ p \in C!Leaves[c.parts[i]] \X C!Leaves[c.parts[j]]
    <2> SUFFICES ASSUME c.kind = "chain"
                 PROVE  \E i, j \in DOMAIN c.parts : i < j /\ p \in C!Leaves[c.parts[i]] \X C!Leaves[c.parts[j]]
      OBVIOUS
    <2>1. p \in UNION {C!Leaves[c.parts[x[1]]] \X C!Leaves[c.parts[x[2]]] :
                       x \in {q \in (DOMAIN c.parts) \X (DOMAIN c.parts) : q[1] < q[2]}}
      BY DEF C!InOrder
    <2>2. PICK x \in {q \in (DOMAIN c.parts) \X (DOMAIN c.parts) : q[1] < q[2]} :
              p \in C!Leaves[c.parts[x[1]]] \X C!Leaves[c.parts[x[2]]]
      BY <2>1
    <2>3. x[1] \in DOMAIN c.parts /\ x[2] \in DOMAIN c.parts /\ x[1] < x[2]
      BY <2>2
    <2> QED
      BY <2>2, <2>3
  <1>3. c.kind = "chord" => \E i \in DOMAIN c.parts : p \in C!Leaves[c.parts[i]] \X C!Leaves[c.callback]
    BY DEF C!InOrder
  <1>4. p \in Signatures \X Signatures
    <2>1. CASE c.kind = "chain"
      <3>1. PICK i, j \in DOMAIN c.parts : p \in C!Leaves[c.parts[i]] \X C!Leaves[c.parts[j]]
        BY <1>2, <2>1
      <3>2. c.parts[i] \in Workflows /\ c.parts[j] \in Workflows
        BY <2>1, CanvasParts
      <3> QED
        BY <3>1, <3>2, LeavesEq
    <2>2. CASE c.kind = "chord"
      <3>1. PICK i \in DOMAIN c.parts : p \in C!Leaves[c.parts[i]] \X C!Leaves[c.callback]
        BY <1>3, <2>2
      <3>2. c.parts[i] \in Workflows /\ c.callback \in Workflows
        BY <2>2, CanvasParts
      <3> QED
        BY <3>1, <3>2, LeavesEq
    <2> QED
      BY <1>1, <2>1, <2>2
  <1> QED
    BY <1>1, <1>2, <1>3, <1>4

LEMMA BeforeEq ==
  ASSUME C!CanvasConstants, NEW c \in Workflows
  PROVE  C!Before[c] = C!InOrder(c) \cup UNION {C!Before[p] : p \in C!Parts(c)}
  <1> DEFINE V == SUBSET (Signatures \X Signatures)
             H == [d \in Workflows |-> [v \in [SubCanvases[d] -> V] |->
                      C!InOrder(d) \cup UNION {v[p] : p \in C!Parts(d)}]]
             Body(f) == [d \in Workflows |-> C!InOrder(d) \cup UNION {f[p] : p \in C!Parts(d)}]
  <1>1. \A d \in Workflows : SubCanvases[d] = C!Parts(d) /\ C!Parts(d) \subseteq Workflows
    BY CanvasParts DEF SubCanvases
  <1>2. \A d \in Workflows : \A v \in [SubCanvases[d] -> V] :
            H[d][v] = C!InOrder(d) \cup UNION {v[p] : p \in C!Parts(d)}
    OBVIOUS
  <1>3. Computes(Workflows, SubCanvases, V, H)
    <2> SUFFICES ASSUME NEW d \in Workflows, NEW v \in [SubCanvases[d] -> V] PROVE H[d][v] \in V
      BY DEF Computes
    <2>1. UNION {v[p] : p \in C!Parts(d)} \in V
      BY <1>1
    <2>2. C!InOrder(d) \in V
      BY InOrderLeaves
    <2> QED
      BY <1>2, <2>1, <2>2
  <1>4. PICK f : DefinedBy(Workflows, SubCanvases, V, H, f)
    <2> HIDE DEF V, H
    <2> QED
      BY <1>3, CanvasesWellFounded, Recursion
  <1>5. f \in [Workflows -> V] /\ \A d \in Workflows : f[d] = H[d][[p \in SubCanvases[d] |-> f[p]]]
    BY <1>4 DEF DefinedBy
  <1>6. f = Body(f)
    <2> SUFFICES ASSUME NEW d \in Workflows
                 PROVE  f[d] = C!InOrder(d) \cup UNION {f[p] : p \in C!Parts(d)}
      BY <1>5
    <2>1. PICK v : v = [p \in SubCanvases[d] |-> f[p]]
      OBVIOUS
    <2>2. v \in [SubCanvases[d] -> V] /\ f[d] = H[d][v]
      BY <1>1, <1>5, <2>1
    <2>3. {v[p] : p \in C!Parts(d)} = {f[p] : p \in C!Parts(d)}
      BY <1>1, <2>1
    <2> HIDE DEF H
    <2> QED
      BY <1>2, <2>2, <2>3
  <1>7. C!Before = Body(C!Before)
    BY <1>6 DEF C!Before
  <1> QED
    BY <1>7

LEMMA OnlyChainsEq ==
  ASSUME C!CanvasConstants, NEW c \in Workflows
  PROVE  C!OnlyChains[c] = (c.kind = "single" \/
                            (c.kind = "chain" /\ \A i \in DOMAIN c.parts : C!OnlyChains[c.parts[i]]))
  <1> DEFINE Val(f, d) == d.kind = "single" \/ (d.kind = "chain" /\ \A i \in DOMAIN d.parts : f[d.parts[i]])
             H == [d \in Workflows |-> [v \in [SubCanvases[d] -> BOOLEAN] |-> Val(v, d)]]
             Body(f) == [d \in Workflows |-> Val(f, d)]
  <1>1. \A d \in Workflows : /\ SubCanvases[d] = C!Parts(d) /\ C!Parts(d) \subseteq Workflows
                             /\ d.kind = "chain" => \A i \in DOMAIN d.parts : d.parts[i] \in SubCanvases[d]
    BY CanvasParts DEF SubCanvases
  <1>2. \A d \in Workflows : \A v \in [SubCanvases[d] -> BOOLEAN] : H[d][v] = Val(v, d)
    OBVIOUS
  <1>3. Computes(Workflows, SubCanvases, BOOLEAN, H)
    BY <1>2 DEF Computes
  <1>4. PICK f : DefinedBy(Workflows, SubCanvases, BOOLEAN, H, f)
    <2> HIDE DEF H
    <2> QED
      BY <1>3, CanvasesWellFounded, Recursion
  <1>5. f \in [Workflows -> BOOLEAN] /\ \A d \in Workflows : f[d] = H[d][[p \in SubCanvases[d] |-> f[p]]]
    BY <1>4 DEF DefinedBy
  <1>6. f = Body(f)
    <2> SUFFICES ASSUME NEW d \in Workflows
                 PROVE  f[d] = Val(f, d)
      BY <1>5
    <2>1. PICK v : v = [p \in SubCanvases[d] |-> f[p]]
      OBVIOUS
    <2>2. v \in [SubCanvases[d] -> BOOLEAN] /\ f[d] = H[d][v]
      BY <1>1, <1>5, <2>1
    <2>3. Val(v, d) = Val(f, d)
      BY <1>1, <2>1
    <2> HIDE DEF H, Val
    <2> QED
      BY <1>2, <2>2, <2>3
  <1>7. C!OnlyChains = Body(C!OnlyChains)
    BY <1>6 DEF C!OnlyChains
  <1> QED
    BY <1>7

\* The steps of a chain, flattened, are sequences of signatures.
Flattened(parts) == [i \in DOMAIN parts |-> C!FlattenStep[parts[i]]]

LEMMA FlattenStepEq ==
  ASSUME C!CanvasConstants
  PROVE  /\ C!FlattenStep \in [Workflows -> Seq(Signatures)]
         /\ \A c \in Workflows :
              C!FlattenStep[c] = CASE c.kind = "single" -> <<c.sig>>
                                   [] c.kind = "chain"  -> C!FlattenSeq(Flattened(c.parts))
                                   [] OTHER             -> <<>>
  <1> DEFINE V == Seq(Signatures)
             Val(f, d) == CASE d.kind = "single" -> <<d.sig>>
                            [] d.kind = "chain"  -> C!FlattenSeq([i \in DOMAIN d.parts |-> f[d.parts[i]]])
                            [] OTHER             -> <<>>
             H == [d \in Workflows |-> [v \in [SubCanvases[d] -> V] |-> Val(v, d)]]
             Body(f) == [d \in Workflows |-> Val(f, d)]
  <1>1. \A d \in Workflows : /\ SubCanvases[d] = C!Parts(d) /\ C!Parts(d) \subseteq Workflows
                             /\ d.kind = "chain" => \A i \in DOMAIN d.parts : d.parts[i] \in SubCanvases[d]
    BY CanvasParts DEF SubCanvases
  <1>2. \A d \in Workflows : \A v \in [SubCanvases[d] -> V] : H[d][v] = Val(v, d)
    OBVIOUS
  <1>3. ASSUME NEW d \in Workflows, NEW f, \A p \in SubCanvases[d] : f[p] \in V PROVE Val(f, d) \in V
    <2>1. CASE d.kind = "single"
      BY <2>1 DEF Signatures
    <2>2. CASE d.kind = "chain"
      <3>1. PICK ss : ss = [i \in DOMAIN d.parts |-> f[d.parts[i]]]
        OBVIOUS
      <3>2. DOMAIN d.parts = 1..Len(d.parts) /\ Len(d.parts) \in Nat
        BY <2>2, CanvasParts
      <3>3. ss \in Seq(V)
        BY <1>1, <1>3, <2>2, <3>1, <3>2
      <3>4. C!FlattenSeq(ss) \in V
        BY <3>3, FlattenSpread
      <3> QED
        BY <2>2, <3>1, <3>4
    <2>3. CASE d.kind \notin {"single", "chain"}
      BY <2>3
    <2> QED
      BY <2>1, <2>2, <2>3
  <1>4. Computes(Workflows, SubCanvases, V, H)
    <2> HIDE DEF Val, V
    <2> QED
      BY <1>2, <1>3 DEF Computes
  <1>5. PICK f : DefinedBy(Workflows, SubCanvases, V, H, f)
    <2> HIDE DEF V, H
    <2> QED
      BY <1>4, CanvasesWellFounded, Recursion
  <1>6. f \in [Workflows -> V] /\ \A d \in Workflows : f[d] = H[d][[p \in SubCanvases[d] |-> f[p]]]
    BY <1>5 DEF DefinedBy
  <1>7. f = Body(f)
    <2> SUFFICES ASSUME NEW d \in Workflows
                 PROVE  f[d] = Val(f, d)
      <3> HIDE DEF Val, V
      <3> QED
        BY <1>6
    <2>1. PICK v : v = [p \in SubCanvases[d] |-> f[p]]
      OBVIOUS
    <2>2. v \in [SubCanvases[d] -> V] /\ f[d] = H[d][v]
      <3> HIDE DEF V, H
      <3> QED
        BY <1>1, <1>6, <2>1
    <2>3. Val(v, d) = Val(f, d)
      <3>1. d.kind = "chain" => [i \in DOMAIN d.parts |-> v[d.parts[i]]] = [i \in DOMAIN d.parts |-> f[d.parts[i]]]
        BY <1>1, <2>1
      <3> QED
        BY <3>1
    <2> HIDE DEF H, Val, V
    <2> QED
      BY <1>2, <2>2, <2>3
  <1>8. C!FlattenStep = Body(C!FlattenStep)
    BY <1>7 DEF C!FlattenStep
  <1>9. \A c \in Workflows : C!FlattenStep[c] \in V
    <2> DEFINE P == {c \in Workflows : C!FlattenStep[c] \in V}
    <2>1. ASSUME NEW c \in Workflows, SubCanvases[c] \subseteq P PROVE c \in P
      <3>1. \A p \in SubCanvases[c] : C!FlattenStep[p] \in V
        BY <2>1
      <3>2. Val(C!FlattenStep, c) \in V
        <4> HIDE DEF Val, V
        <4> QED
          BY <1>3, <3>1
      <3>3. C!FlattenStep[c] = Val(C!FlattenStep, c)
        <4> HIDE DEF Val
        <4> QED
          BY <1>8
      <3> HIDE DEF V, Val
      <3> QED
        BY <3>2, <3>3
    <2> HIDE DEF P
    <2>2. Workflows \subseteq P
      BY <2>1, CanvasesWellFounded, Induction
    <2> QED
      BY <2>2 DEF P
  <1>10. \A c \in Workflows : C!FlattenStep[c] = Val(C!FlattenStep, c)
    <2> HIDE DEF Val
    <2> QED
      BY <1>8
  <1>11. C!FlattenStep \in [Workflows -> V]
    <2> HIDE DEF Val, V
    <2> QED
      BY <1>8, <1>9
  <1> QED
    BY <1>10, <1>11 DEF Flattened

-----------------------------------------------------------------------------
(* Flattening keeps the order of a canvas *)

OneToOne(s) == \A j, k \in 1..Len(s) : s[j] = s[k] => j = k

\* The sequences of ss have their elements in the sets L, which are disjoint.
InDisjoint(ss, L) ==
    /\ \A i \in 1..Len(ss) : \A x \in 1..Len(ss[i]) : ss[i][x] \in L[i]
    /\ \A i, j \in 1..Len(ss) : i # j => L[i] \cap L[j] = {}

LEMMA FlattenOneToOne ==
  ASSUME NEW S, NEW ss \in Seq(Seq(S)), NEW L, InDisjoint(ss, L),
         \A i \in 1..Len(ss) : OneToOne(ss[i])
  PROVE  OneToOne(C!FlattenSeq(ss))
  <1>1. PICK F \in Seq(S) : F = C!FlattenSeq(ss)
    BY FlattenSpread
  <1>2. PICK n \in Nat : n = Len(ss)
    OBVIOUS
  <1>3. PICK part, idx : Spread(ss, n, F, part, idx)
    BY <1>1, <1>2, FlattenSpread DEF Spreads
  <1>4. \A j \in 1..Len(F) : part[j] \in 1..n /\ idx[j] \in 1..Len(ss[part[j]]) /\ F[j] = ss[part[j]][idx[j]]
    BY <1>3 DEF Spread
  <1>5. ASSUME NEW j \in 1..Len(F), NEW k \in 1..Len(F), j < k, F[j] = F[k] PROVE FALSE
    <2>a. PICK a \in 1..n, b \in 1..n : a = part[j] /\ b = part[k]
      BY <1>4
    <2>b. PICK x \in 1..Len(ss[a]), y \in 1..Len(ss[b]) :
            x = idx[j] /\ y = idx[k] /\ F[j] = ss[a][x] /\ F[k] = ss[b][y]
      BY <1>4, <2>a
    <2>c. ss[a][x] \in L[a] /\ ss[b][y] \in L[b]
      BY <1>2 DEF InDisjoint
    <2>1. part[j] = part[k]
      <3>1. ss[a][x] \in L[a] \cap L[b]
        BY <1>5, <2>b, <2>c
      <3>2. a # b => L[a] \cap L[b] = {}
        BY <1>2 DEF InDisjoint
      <3> QED
        BY <2>a, <3>1, <3>2
    <2>2. idx[j] = idx[k]
      <3>1. OneToOne(ss[a]) /\ a = b
        BY <1>2, <2>a, <2>1
      <3> QED
        BY <1>5, <2>b, <3>1 DEF OneToOne
    <2>3. idx[j] < idx[k] /\ idx[j] \in Nat
      <3>1. part[j] < part[k] \/ (part[j] = part[k] /\ idx[j] < idx[k])
        BY <1>3, <1>5 DEF Spread
      <3>2. part[j] \in Nat /\ idx[j] \in Nat
        BY <1>3 DEF Spread
      <3> QED
        BY <2>1, <3>1, <3>2
    <2> QED
      BY <2>2, <2>3
  <1>6. \A j, k \in 1..Len(F) : j = k \/ j < k \/ k < j
    OBVIOUS
  <1>7. OneToOne(F)
    BY <1>5, <1>6 DEF OneToOne
  <1> QED
    BY <1>1, <1>7

\* Every element of the sequences is one of F.
HasAll(ss, F) ==
    \A i \in 1..Len(ss) : \A x \in 1..Len(ss[i]) : \E j \in 1..Len(F) : F[j] = ss[i][x]

\* FlattenSeq passes over no element.
LEMMA FlattenKeeps ==
  ASSUME NEW S, NEW ss \in Seq(Seq(S))
  PROVE  HasAll(ss, C!FlattenSeq(ss))
  <1>1. PICK F : F = C!FlattenSeq(ss)
    OBVIOUS
  <1> SUFFICES ASSUME NEW i \in 1..Len(ss), NEW x \in 1..Len(ss[i])
               PROVE  \E j \in 1..Len(F) : F[j] = ss[i][x]
    BY <1>1 DEF HasAll
  <1>2. PICK part, idx : Spread(ss, Len(ss), F, part, idx)
    BY <1>1, FlattenSpread DEF Spreads
  <1>3. PICK j \in 1..Len(F) : part[j] = i /\ idx[j] = x
    BY <1>2 DEF Spread
  <1>4. F[j] = ss[i][x]
    BY <1>2, <1>3 DEF Spread
  <1> QED
    BY <1>4

\* The j-th element of F is the x-th of the i-th sequence, and all elements that
\* stand before that one stand before it in F.
ComesFrom(ss, F, j, i, x) ==
    /\ i \in 1..Len(ss) /\ x \in 1..Len(ss[i]) /\ F[j] = ss[i][x]
    /\ \A k \in 1..Len(ss) : \A y \in 1..Len(ss[k]) : k < i \/ (k = i /\ y < x) =>
          \E m \in 1..(j - 1) : F[m] = ss[k][y]

LEMMA FlattenFrom ==
  ASSUME NEW S, NEW ss \in Seq(Seq(S)), NEW F, F = C!FlattenSeq(ss), NEW j \in 1..Len(F)
  PROVE  \E i, x : ComesFrom(ss, F, j, i, x)
  <1>1. F \in Seq(S)
    BY FlattenSpread
  <1>2. PICK n \in Nat : n = Len(ss)
    OBVIOUS
  <1>3. PICK part, idx : Spread(ss, n, F, part, idx)
    BY <1>2, FlattenSpread DEF Spreads
  <1>4. j \in 1..Len(F) /\ Len(F) \in Nat
    BY <1>1
  <1>5. PICK i \in 1..n : i = part[j]
    BY <1>3, <1>4 DEF Spread
  <1>6. PICK x \in 1..Len(ss[i]) : x = idx[j] /\ F[j] = ss[i][x]
    BY <1>3, <1>4, <1>5, ZenonT(40) DEF Spread
  <1>7. ASSUME NEW k \in 1..n, NEW y \in 1..Len(ss[k]), k < i \/ (k = i /\ y < x)
        PROVE  \E m \in 1..(j - 1) : F[m] = ss[k][y]
    <2>1. PICK m \in 1..Len(F) : part[m] = k /\ idx[m] = y
      BY <1>3 DEF Spread
    <2>2. F[m] = ss[k][y]
      BY <1>3, <2>1 DEF Spread
    <2>3. ~(m = j)
      BY <1>5, <1>6, <1>7, <2>1
    <2>4. ~(j < m)
      <3>1. j < m => part[j] < part[m] \/ (part[j] = part[m] /\ idx[j] < idx[m])
        BY <1>3, <1>4 DEF Spread
      <3>2. x \in Nat /\ y \in Nat /\ i \in Nat /\ k \in Nat
        <4>1. idx[j] \in Nat /\ idx[m] \in Nat
          BY <1>3, <1>4 DEF Spread
        <4> QED
          BY <1>6, <2>1, <4>1
      <3> QED
        BY <1>5, <1>6, <1>7, <2>1, <3>1, <3>2
    <2>5. m \in 1..(j - 1)
      BY <1>4, <2>3, <2>4
    <2> QED
      BY <2>2, <2>5
  <1> QED
    BY <1>2, <1>6, <1>7, ZenonT(60) DEF ComesFrom

LEMMA BeforeLeaves ==
  ASSUME C!CanvasConstants, NEW c \in Workflows
  PROVE  C!Before[c] \subseteq C!Leaves[c] \X C!Leaves[c]
  <1> DEFINE P == {d \in Workflows : C!Before[d] \subseteq C!Leaves[d] \X C!Leaves[d]}
  <1>1. ASSUME NEW d \in Workflows, SubCanvases[d] \subseteq P PROVE d \in P
    <2> SUFFICES ASSUME NEW p \in C!Before[d] PROVE p \in C!Leaves[d] \X C!Leaves[d]
      OBVIOUS
    <2>1. CASE p \in C!InOrder(d)
      <3>1. d.kind \in {"chain", "chord"} /\ d.kind # "single"
        BY <2>1, InOrderLeaves
      <3>2. \A q \in C!Parts(d) : C!Leaves[q] \subseteq C!Leaves[d]
        BY <3>1, LeavesEq
      <3>3. \E q, r \in C!Parts(d) : p \in C!Leaves[q] \X C!Leaves[r]
        BY <2>1, <3>1, InOrderLeaves, CanvasParts
      <3> QED
        BY <3>2, <3>3
    <2>2. CASE \E q \in C!Parts(d) : p \in C!Before[q]
      <3>1. PICK q \in C!Parts(d) : p \in C!Before[q]
        BY <2>2
      <3>2. p \in C!Leaves[q] \X C!Leaves[q]
        BY <1>1, <3>1 DEF SubCanvases
      <3>3. d.kind # "single"
        BY <3>1, CanvasParts
      <3>4. C!Leaves[q] \subseteq C!Leaves[d]
        BY <3>1, <3>3, LeavesEq
      <3> QED
        BY <3>2, <3>4
    <2> QED
      BY <2>1, <2>2, BeforeEq
  <1> HIDE DEF P
  <1>2. Workflows \subseteq P
    BY <1>1, CanvasesWellFounded, Induction
  <1> QED
    BY <1>2 DEF P

\* What flatten_chain makes of a canvas: signatures of the canvas, each once; and of
\* one that has chains only, all of them and in order.
FlatInv(c) ==
    LET F == C!FlattenStep[c]
    IN  /\ \A j \in 1..Len(F) : F[j] \in C!Leaves[c]
        /\ OneToOne(F)
        /\ C!OnlyChains[c] =>
            /\ \A l \in C!Leaves[c] : \E j \in 1..Len(F) : F[j] = l
            /\ \A p \in C!Before[c] : \A j \in 1..Len(F) :
                 F[j] = p[2] => \E i \in 1..(j - 1) : F[i] = p[1]

LEMMA FlatSingle ==
  ASSUME C!CanvasConstants, NEW c \in Workflows, c.kind = "single"
  PROVE  FlatInv(c)
  <1>1. C!FlattenStep[c] = <<c.sig>> /\ C!Leaves[c] = {c.sig}
    BY FlattenStepEq, LeavesEq
  <1>2. C!Parts(c) = {} /\ C!InOrder(c) = {}
    BY CanvasParts DEF C!InOrder
  <1>3. C!Before[c] = {}
    BY <1>2, BeforeEq
  <1> QED
    BY <1>1, <1>3 DEF FlatInv, OneToOne

\* The steps of a chain.
LEMMA ChainSteps ==
  ASSUME C!CanvasConstants, NEW c \in Workflows, c.kind = "chain"
  PROVE  /\ Flattened(c.parts) \in Seq(Seq(Signatures))
         /\ Len(Flattened(c.parts)) = Len(c.parts) /\ Len(c.parts) \in Nat
         /\ \A i \in 1..Len(c.parts) :
              /\ c.parts[i] \in Workflows /\ c.parts[i] \in C!Parts(c)
              /\ Flattened(c.parts)[i] = C!FlattenStep[c.parts[i]]
              /\ C!Leaves[c.parts[i]] \subseteq C!Leaves[c]
         /\ \A i, j \in 1..Len(c.parts) : i # j => C!Leaves[c.parts[i]] \cap C!Leaves[c.parts[j]] = {}
  <1>1. DOMAIN c.parts = 1..Len(c.parts) /\ Len(c.parts) \in Nat
    BY CanvasParts
  <1>2. \A i \in 1..Len(c.parts) : c.parts[i] \in Workflows /\ c.parts[i] \in C!Parts(c)
    BY <1>1, CanvasParts
  <1>3. \A i \in 1..Len(c.parts) : C!FlattenStep[c.parts[i]] \in Seq(Signatures)
    BY <1>2, FlattenStepEq
  <1>4. Flattened(c.parts) = [i \in 1..Len(c.parts) |-> C!FlattenStep[c.parts[i]]]
    BY <1>1 DEF Flattened
  <1>5. Flattened(c.parts) \in Seq(Seq(Signatures)) /\ Len(Flattened(c.parts)) = Len(c.parts)
    BY <1>1, <1>3, <1>4
  <1>6. \A i \in 1..Len(c.parts) : C!Leaves[c.parts[i]] \subseteq C!Leaves[c]
    BY <1>2, LeavesEq
  <1>7. \A i, j \in 1..Len(c.parts) : i # j => C!Leaves[c.parts[i]] \cap C!Leaves[c.parts[j]] = {}
    BY <1>1 DEF C!CanvasConstants
  <1> QED
    BY <1>1, <1>2, <1>4, <1>5, <1>6, <1>7

LEMMA FlatChain ==
  ASSUME C!CanvasConstants, NEW c \in Workflows, c.kind = "chain",
         \A d \in C!Parts(c) : FlatInv(d)
  PROVE  FlatInv(c)
  <1>1. PICK ss \in Seq(Seq(Signatures)) : ss = Flattened(c.parts)
    BY ChainSteps
  <1>2. PICK n \in Nat : n = Len(ss) /\ n = Len(c.parts)
    BY <1>1, ChainSteps
  <1>3. \A i \in 1..n : /\ c.parts[i] \in Workflows /\ c.parts[i] \in C!Parts(c)
                        /\ ss[i] = C!FlattenStep[c.parts[i]] /\ FlatInv(c.parts[i])
                        /\ C!Leaves[c.parts[i]] \subseteq C!Leaves[c]
    BY <1>1, <1>2, ChainSteps
  <1>4. PICK F \in Seq(Signatures) : F = C!FlattenSeq(ss) /\ C!FlattenStep[c] = F
    BY <1>1, FlattenSpread, FlattenStepEq
  <1>5. PICK L : L = [i \in 1..n |-> C!Leaves[c.parts[i]]]
    OBVIOUS
  <1>6. \A i \in 1..n : \A x \in 1..Len(ss[i]) : ss[i][x] \in C!Leaves[c.parts[i]]
    BY <1>3 DEF FlatInv
  <1>7. \A i, j \in 1..n : i # j => C!Leaves[c.parts[i]] \cap C!Leaves[c.parts[j]] = {}
    BY <1>2, ChainSteps
  <1>8. \A j \in 1..Len(F) : F[j] \in C!Leaves[c]
    <2> SUFFICES ASSUME NEW j \in 1..Len(F) PROVE F[j] \in C!Leaves[c]
      OBVIOUS
    <2>1. PICK i, x : ComesFrom(ss, F, j, i, x)
      BY <1>4, FlattenFrom
    <2>2. i \in 1..n /\ x \in 1..Len(ss[i]) /\ F[j] = ss[i][x]
      BY <1>2, <2>1 DEF ComesFrom
    <2> QED
      BY <1>3, <1>6, <2>2
  <1>9. OneToOne(F)
    <2>1. InDisjoint(ss, L)
      BY <1>2, <1>5, <1>6, <1>7 DEF InDisjoint
    <2>2. \A i \in 1..Len(ss) : OneToOne(ss[i])
      BY <1>2, <1>3 DEF FlatInv
    <2> QED
      BY <1>4, <2>1, <2>2, FlattenOneToOne
  <1>10. ASSUME C!OnlyChains[c]
         PROVE  /\ \A l \in C!Leaves[c] : \E j \in 1..Len(F) : F[j] = l
                /\ \A p \in C!Before[c] : \A j \in 1..Len(F) :
                     F[j] = p[2] => \E i \in 1..(j - 1) : F[i] = p[1]
    <2>1. DOMAIN c.parts = 1..n /\ C!Parts(c) = {c.parts[i] : i \in 1..n}
      BY <1>2, CanvasParts
    <2>2. \A i \in 1..n : C!OnlyChains[c.parts[i]]
      BY <1>10, <2>1, OnlyChainsEq
    <2>3. \A i \in 1..n : \A l \in C!Leaves[c.parts[i]] : \E x \in 1..Len(ss[i]) : ss[i][x] = l
      <3> SUFFICES ASSUME NEW i \in 1..n
                   PROVE  \A l \in C!Leaves[c.parts[i]] : \E x \in 1..Len(ss[i]) : ss[i][x] = l
        OBVIOUS
      <3>1. ss[i] = C!FlattenStep[c.parts[i]] /\ FlatInv(c.parts[i]) /\ C!OnlyChains[c.parts[i]]
        BY <1>3, <2>2
      <3> QED
        BY <3>1 DEF FlatInv
    <2>4. ASSUME NEW l \in C!Leaves[c] PROVE \E j \in 1..Len(F) : F[j] = l
      <3>1. PICK i \in 1..n : l \in C!Leaves[c.parts[i]]
        <4>1. C!Leaves[c] = UNION {C!Leaves[p] : p \in C!Parts(c)}
          BY LeavesEq
        <4>2. PICK p \in C!Parts(c) : l \in C!Leaves[p]
          BY <4>1
        <4> QED
          BY <2>1, <4>2
      <3>2. PICK x \in 1..Len(ss[i]) : ss[i][x] = l
        BY <2>3, <3>1
      <3>3. i \in 1..Len(ss)
        BY <1>2
      <3>4. \E j \in 1..Len(F) : F[j] = ss[i][x]
        <4>1. HasAll(ss, F)
          BY <1>4, FlattenKeeps
        <4> QED
          BY <3>3, <4>1 DEF HasAll
      <3> QED
        BY <3>2, <3>4
    <2>5. ASSUME NEW p \in C!Before[c], NEW j \in 1..Len(F), F[j] = p[2]
          PROVE  \E i \in 1..(j - 1) : F[i] = p[1]
      <3>1. PICK i, x : ComesFrom(ss, F, j, i, x)
        BY <1>4, FlattenFrom
      <3>2. /\ i \in 1..n /\ x \in 1..Len(ss[i]) /\ F[j] = ss[i][x]
            /\ \A k \in 1..n : \A y \in 1..Len(ss[k]) : k < i \/ (k = i /\ y < x) =>
                  \E m \in 1..(j - 1) : F[m] = ss[k][y]
        BY <1>2, <3>1 DEF ComesFrom
      <3>3. p[2] \in C!Leaves[c.parts[i]]
        BY <1>6, <2>5, <3>2
      <3>4. \A k \in 1..n : p[2] \in C!Leaves[c.parts[k]] => k = i
        BY <1>7, <3>2, <3>3
      <3>5. CASE p \in C!InOrder(c)
        <4>1. PICK a, b \in 1..n : a < b /\ p \in C!Leaves[c.parts[a]] \X C!Leaves[c.parts[b]]
          BY <2>1, <3>5, InOrderLeaves
        <4>2. p[1] \in C!Leaves[c.parts[a]] /\ p[2] \in C!Leaves[c.parts[b]]
          BY <4>1
        <4>3. b = i /\ a < i
          BY <3>4, <4>1, <4>2
        <4>4. PICK y \in 1..Len(ss[a]) : ss[a][y] = p[1]
          BY <2>3, <4>2
        <4> QED
          BY <3>2, <4>3, <4>4
      <3>6. CASE \E d \in C!Parts(c) : p \in C!Before[d]
        <4>1. PICK a \in 1..n : p \in C!Before[c.parts[a]]
          BY <2>1, <3>6
        <4>2. p \in C!Leaves[c.parts[a]] \X C!Leaves[c.parts[a]]
          BY <1>3, <4>1, BeforeLeaves
        <4>3. a = i
          BY <3>4, <4>2
        <4>4. PICK y \in 1..(x - 1) : ss[i][y] = p[1]
          <5>1. ss[i] = C!FlattenStep[c.parts[i]] /\ FlatInv(c.parts[i]) /\ C!OnlyChains[c.parts[i]]
            BY <1>3, <2>2, <3>2
          <5>2. \A q \in C!Before[c.parts[i]] : \A k \in 1..Len(ss[i]) :
                     ss[i][k] = q[2] => \E m \in 1..(k - 1) : ss[i][m] = q[1]
            BY <5>1 DEF FlatInv
          <5>3. ss[i][x] = p[2]
            BY <2>5, <3>2
          <5> QED
            BY <3>2, <4>1, <4>3, <5>2, <5>3
        <4>5. Len(ss[i]) \in Nat
          BY <1>2, <3>2
        <4>6. y \in 1..Len(ss[i]) /\ y < x
          BY <3>2, <4>5
        <4> QED
          BY <3>2, <4>4, <4>6
      <3> QED
        BY <2>5, <3>5, <3>6, BeforeEq
    <2> QED
      BY <2>4, <2>5
  <1> QED
    BY <1>4, <1>8, <1>9, <1>10 DEF FlatInv

LEMMA FlattenKeepsOrder ==
  ASSUME C!CanvasConstants, NEW c \in Workflows
  PROVE  FlatInv(c)
  <1> DEFINE P == {d \in Workflows : FlatInv(d)}
  <1>1. ASSUME NEW d \in Workflows, SubCanvases[d] \subseteq P PROVE FlatInv(d)
    <2>1. CASE d.kind = "single"
      BY <2>1, FlatSingle
    <2>2. CASE d.kind = "chain"
      <3>1. \A e \in C!Parts(d) : FlatInv(e)
        BY <1>1 DEF SubCanvases
      <3> QED
        BY <2>2, <3>1, FlatChain
    <2>3. CASE d.kind \notin {"single", "chain"}
      <3>1. C!FlattenStep[d] = <<>>
        BY <2>3, FlattenStepEq
      <3>2. ~C!OnlyChains[d]
        BY <2>3, OnlyChainsEq
      <3> QED
        BY <3>1, <3>2 DEF FlatInv, OneToOne
    <2> QED
      BY <2>1, <2>2, <2>3
  <1>2. \A d \in Workflows : SubCanvases[d] \subseteq P => d \in P
    BY <1>1
  <1> HIDE DEF P
  <1>3. Workflows \subseteq P
    BY <1>2, CanvasesWellFounded, Induction
  <1> QED
    BY <1>3 DEF P

\* What flatten_group makes of the members: the signatures of the single ones.
LEMMA GroupFlat ==
  ASSUME C!CanvasConstants, NEW c \in Workflows, c.kind \in {"group", "chord"}
  PROVE  /\ C!FlattenGroup(c.parts) \in Seq(Signatures)
         /\ OneToOne(C!FlattenGroup(c.parts))
         /\ \A j \in 1..Len(C!FlattenGroup(c.parts)) :
              \E i \in DOMAIN c.parts : C!FlattenGroup(c.parts)[j] \in C!Leaves[c.parts[i]]
         /\ \A i \in DOMAIN c.parts : c.parts[i].kind = "single" =>
              \E j \in 1..Len(C!FlattenGroup(c.parts)) : C!FlattenGroup(c.parts)[j] = c.parts[i].sig
  <1>1. PICK n \in Nat : n = Len(c.parts) /\ DOMAIN c.parts = 1..n /\ \A i \in 1..n : c.parts[i] \in Workflows
    BY CanvasParts
  <1>2. PICK ss : ss = [i \in 1..n |-> IF c.parts[i].kind = "single" THEN <<c.parts[i].sig>> ELSE <<>>]
    OBVIOUS
  <1>3. \A i \in 1..n : c.parts[i].sig \in Signatures
    BY <1>1 DEF Signatures
  <1>4. ss \in Seq(Seq(Signatures)) /\ Len(ss) = n
    <2>1. \A i \in 1..n : ss[i] \in Seq(Signatures)
      BY <1>2, <1>3
    <2> QED
      BY <1>2, <2>1
  <1>5. PICK F : F = C!FlattenSeq(ss) /\ F = C!FlattenGroup(c.parts)
    BY <1>1, <1>2 DEF C!FlattenGroup
  <1>6. PICK L : L = [i \in 1..n |-> C!Leaves[c.parts[i]]]
    OBVIOUS
  <1>7. \A i \in 1..n : \A x \in 1..Len(ss[i]) : x = 1 /\ ss[i][x] \in L[i]
    <2> SUFFICES ASSUME NEW i \in 1..n, NEW x \in 1..Len(ss[i]) PROVE x = 1 /\ ss[i][x] \in L[i]
      OBVIOUS
    <2>1. c.parts[i].kind = "single" /\ ss[i] = <<c.parts[i].sig>> /\ x = 1
      BY <1>2
    <2>2. C!Leaves[c.parts[i]] = {c.parts[i].sig}
      BY <1>1, <2>1, LeavesEq
    <2> QED
      BY <1>6, <2>1, <2>2
  <1>8. InDisjoint(ss, L)
    <2>1. \A i, j \in 1..n : i # j => L[i] \cap L[j] = {}
      BY <1>1, <1>6 DEF C!CanvasConstants
    <2> QED
      BY <1>4, <1>7, <2>1 DEF InDisjoint
  <1>9. F \in Seq(Signatures)
    BY <1>4, <1>5, FlattenSpread
  <1>10. OneToOne(F)
    <2>1. \A i \in 1..Len(ss) : OneToOne(ss[i])
      BY <1>4, <1>7 DEF OneToOne
    <2> QED
      BY <1>4, <1>5, <1>8, <2>1, FlattenOneToOne
  <1>11. ASSUME NEW j \in 1..Len(F) PROVE \E i \in 1..n : F[j] \in C!Leaves[c.parts[i]]
    <2>1. PICK i, x : ComesFrom(ss, F, j, i, x)
      BY <1>4, <1>5, FlattenFrom
    <2>2. i \in 1..n /\ x \in 1..Len(ss[i]) /\ F[j] = ss[i][x]
      BY <1>4, <2>1 DEF ComesFrom
    <2> QED
      BY <1>6, <1>7, <2>2
  <1>12. ASSUME NEW i \in 1..n, c.parts[i].kind = "single"
         PROVE  \E j \in 1..Len(F) : F[j] = c.parts[i].sig
    <2>1. PICK x \in 1..Len(ss[i]) : ss[i][x] = c.parts[i].sig
      BY <1>2, <1>12
    <2>2. i \in 1..Len(ss)
      BY <1>4
    <2>3. \E j \in 1..Len(F) : F[j] = ss[i][x]
      <3>1. HasAll(ss, F)
        BY <1>4, <1>5, FlattenKeeps
      <3> QED
        BY <2>2, <3>1 DEF HasAll
    <2> QED
      BY <2>1, <2>3
  <1> QED
    BY <1>1, <1>5, <1>9, <1>10, <1>11, <1>12

\* The callback of a chord is the first signature of its canvas.
LEMMA CallbackFlat ==
  ASSUME C!CanvasConstants, NEW c \in Workflows
  PROVE  /\ c.kind = "group" => C!Callback(c) = None
         /\ c.kind = "chord" /\ C!Callback(c) # None => C!Callback(c) \in C!Leaves[c.callback]
  <1>1. c.kind = "group" => C!Callback(c) = None
    BY DEF C!Callback
  <1>2. ASSUME c.kind = "chord", C!Callback(c) # None PROVE C!Callback(c) \in C!Leaves[c.callback]
    <2>1. c.callback \in Workflows
      BY <1>2, CanvasParts
    <2>2. PICK G \in Seq(Signatures) : G = C!FlattenStep[c.callback]
      BY <2>1, FlattenStepEq
    <2>3. \A j \in 1..Len(G) : G[j] \in C!Leaves[c.callback]
      BY <2>1, <2>2, FlattenKeepsOrder DEF FlatInv
    <2>4. PICK ss : ss = <<G>>
      OBVIOUS
    <2>5. ss \in Seq(Seq(Signatures)) /\ Len(ss) = 1 /\ ss[1] = G
      BY <2>4
    <2>6. PICK F : F = C!FlattenSeq(ss) /\ F = C!FlattenChain(<<c.callback>>)
      <3>1. [i \in DOMAIN <<c.callback>> |-> C!FlattenStep[<<c.callback>>[i]]] = <<C!FlattenStep[c.callback]>>
        OBVIOUS
      <3> QED
        BY <2>2, <2>4, <3>1 DEF C!FlattenChain
    <2>7. F \in Seq(Signatures)
      BY <2>5, <2>6, FlattenSpread
    <2>8. F # <<>> /\ C!Callback(c) = F[1]
      BY <1>2, <2>6 DEF C!Callback
    <2>9. 1 \in 1..Len(F)
      BY <2>7, <2>8
    <2>10. PICK i, x : ComesFrom(ss, F, 1, i, x)
      BY <2>5, <2>6, <2>9, FlattenFrom
    <2>11. i = 1 /\ x \in 1..Len(G) /\ F[1] = G[x]
      BY <2>5, <2>10 DEF ComesFrom
    <2> QED
      BY <2>3, <2>8, <2>11
  <1> QED
    BY <1>1, <1>2

-----------------------------------------------------------------------------
(* Chains and single tasks *)

Line == C!FlattenStep[workflow]

\* The message of the k-th signature of a chain carries those after it.
LineMessage(m, k) ==
    /\ m.sig = Line[k] /\ m.total = None /\ m.callback = None
    /\ m.rest \in Seq(Signatures) /\ Len(m.rest) = Len(Line) - k
    /\ \A i \in 1..Len(m.rest) : m.rest[i] = Line[k + i]

Statuses == {"ready", "enqueue", "ok", "err"}

\* One message at most is on its way, that of the first signature which has not run.
LineInv ==
    /\ workflow \in Workflows /\ workflow.kind \in {"single", "chain"}
    /\ submission \in Statuses /\ completed = None
    /\ ran \in Seq(Signatures) /\ Len(ran) <= Len(Line)
    /\ \A i \in 1..Len(ran) : ran[i] = Line[i]
    /\ \A m \in queue : Len(ran) < Len(Line) /\ LineMessage(m, Len(ran) + 1)
    /\ \A m, q \in queue : m = q
    /\ todo # <<>> => /\ \E m : todo = <<m>> /\ LineMessage(m, 1)
                      /\ Len(Line) > 0 /\ queue = {} /\ ran = <<>>
    /\ submission = "ready" => todo = <<>> /\ queue = {} /\ ran = <<>>

LEMMA LineType ==
  ASSUME C!CanvasConstants, workflow \in Workflows
  PROVE  Line \in Seq(Signatures) /\ Len(Line) \in Nat
  <1>1. Line \in Seq(Signatures)
    BY FlattenStepEq DEF Line
  <1> QED
    BY <1>1

\* apply_inner enqueues the first signature with the others in its header.
LEMMA LineMessages ==
  ASSUME C!CanvasConstants, workflow \in Workflows, workflow.kind \in {"single", "chain"}
  PROVE  \/ C!Messages(workflow) = <<>>
         \/ Len(Line) > 0 /\ \E m : C!Messages(workflow) = <<m>> /\ LineMessage(m, 1)
  <1>1. PICK L \in Seq(Signatures) : L = Line
    BY LineType
  <1>2. CASE workflow.kind = "single"
    <2>1. L = <<workflow.sig>>
      BY <1>1, <1>2, FlattenStepEq DEF Line
    <2>2. PICK m : m = C!IntoMessage(workflow.sig, None, None, <<>>)
      OBVIOUS
    <2>3. C!Messages(workflow) = <<m>>
      BY <1>2, <2>2 DEF C!Messages
    <2>4. m.sig = workflow.sig /\ m.total = None /\ m.callback = None /\ m.rest = <<>>
      BY <2>2 DEF C!IntoMessage
    <2>5. Len(L) = 1 /\ L[1] = workflow.sig
      BY <2>1
    <2>6. LineMessage(m, 1)
      BY <1>1, <2>4, <2>5 DEF LineMessage
    <2> QED
      BY <1>1, <2>3, <2>5, <2>6
  <1>3. CASE workflow.kind = "chain"
    <2>1. L = C!FlattenChain(workflow.parts)
      BY <1>1, <1>3, FlattenStepEq DEF Line, C!FlattenChain, Flattened
    <2>2. CASE L = <<>>
      BY <1>3, <2>1, <2>2 DEF C!Messages
    <2>3. CASE L # <<>>
      <3>1. PICK m : m = C!IntoMessage(L[1], None, None, Tail(L))
        OBVIOUS
      <3>2. C!Messages(workflow) = <<m>>
        BY <1>3, <2>1, <2>3, <3>1 DEF C!Messages
      <3>3. m.sig = L[1] /\ m.total = None /\ m.callback = None /\ m.rest = Tail(L)
        BY <3>1 DEF C!IntoMessage
      <3>4. Tail(L) \in Seq(Signatures) /\ Len(Tail(L)) = Len(L) - 1 /\ Len(L) > 0
        BY <2>3
      <3>5. \A i \in 1..Len(Tail(L)) : Tail(L)[i] = L[1 + i]
        BY <2>3, <3>4
      <3>6. LineMessage(m, 1)
        BY <1>1, <3>3, <3>4, <3>5 DEF LineMessage
      <3> QED
        BY <1>1, <3>2, <3>4, <3>6
    <2> QED
      BY <2>2, <2>3
  <1> QED
    BY <1>2, <1>3

\* A handler succeeds.  Of what comes after it, everything takes place, or some of
\* it is lost and the workflow counts as broken.
WorkerRuns(m) ==
    /\ UNCHANGED <<workflow, submission, todo>>
    /\ ran' = Append(ran, m.sig)
    /\ completed' \in {completed, C!Counted(m)}
    /\ \E sent \in SUBSET (C!Successor(m) \cup C!FiredCallback(m, C!Counted(m))) :
        /\ queue' = (queue \ {m}) \cup sent
        /\ broken' = {} => /\ broken = {} /\ completed' = C!Counted(m)
                           /\ sent = C!Successor(m) \cup C!FiredCallback(m, C!Counted(m))

\* A handler that fails for good.
WorkerGivesUp(m) ==
    /\ UNCHANGED <<workflow, submission, todo, completed, ran>>
    /\ queue' = queue \ {m} /\ broken' # {}

LEMMA WorkerSteps ==
  ASSUME NEW m \in queue
  PROVE  /\ C!Execute(m) \/ C!CountFails(m) \/ C!ContinuationFails(m) => WorkerRuns(m)
         /\ C!DeadLetter(m) => WorkerGivesUp(m)
  <1> DEFINE all == C!Successor(m) \cup C!FiredCallback(m, C!Counted(m))
  <1>1. ASSUME C!Execute(m) PROVE WorkerRuns(m)
    <2>1. queue' = (queue \ {m}) \cup all /\ all \in SUBSET all
      BY <1>1 DEF C!Execute
    <2> QED
      BY <1>1, <2>1 DEF C!Execute, WorkerRuns
  <1>2. ASSUME C!CountFails(m) PROVE WorkerRuns(m)
    <2>1. C!Successor(m) \in SUBSET all /\ broken' # {}
      BY <1>2 DEF C!CountFails
    <2> QED
      BY <1>2, <2>1 DEF C!CountFails, WorkerRuns
  <1>3. ASSUME C!ContinuationFails(m) PROVE WorkerRuns(m)
    <2>1. completed' = C!Counted(m) /\ broken' # {}
      BY <1>3 DEF C!ContinuationFails
    <2>2. \E sent \in SUBSET all : queue' = (queue \ {m}) \cup sent
      BY <1>3, <2>1 DEF C!ContinuationFails
    <2> QED
      BY <1>3, <2>1, <2>2 DEF C!ContinuationFails, WorkerRuns
  <1>4. C!DeadLetter(m) => WorkerGivesUp(m)
    BY DEF C!DeadLetter, WorkerGivesUp
  <1> QED
    BY <1>1, <1>2, <1>3, <1>4

\* A worker runs the next signature and enqueues the one after it, unless that fails.
LEMMA LineExecute ==
  ASSUME C!CanvasConstants, LineInv, NEW m \in queue, WorkerRuns(m)
  PROVE  LineInv'
  <1>1. PICK L \in Seq(Signatures) : L = Line
    BY LineType DEF LineInv
  <1>2. PICK k \in Nat : k = Len(ran) + 1 /\ k <= Len(L) /\ k # 0
    BY <1>1 DEF LineInv
  <1>3. /\ m.sig = L[k] /\ m.total = None /\ m.callback = None
        /\ m.rest \in Seq(Signatures) /\ Len(m.rest) = Len(L) - k
        /\ \A i \in 1..Len(m.rest) : m.rest[i] = L[k + i]
    BY <1>1, <1>2 DEF LineInv, LineMessage
  <1>4. UNCHANGED <<workflow, submission, todo>> /\ ran' = Append(ran, L[k]) /\ completed' = completed
    BY <1>3 DEF WorkerRuns, C!Counted
  <1>5. queue = {m} /\ todo = <<>> /\ submission # "ready"
    BY DEF LineInv
  <1>6. C!FiredCallback(m, C!Counted(m)) = {}
    BY <1>3 DEF C!FiredCallback
  <1>7. queue' \subseteq C!Successor(m)
    BY <1>5, <1>6 DEF WorkerRuns
  <1>8. Line' = L
    BY <1>1, <1>4 DEF Line
  <1>9. /\ ran' \in Seq(Signatures) /\ Len(ran') = k /\ Len(ran') <= Len(L)
        /\ \A i \in 1..Len(ran') : ran'[i] = L[i]
    <2>1. ran \in Seq(Signatures) /\ Len(ran) = k - 1 /\ \A i \in 1..Len(ran) : ran[i] = L[i]
      BY <1>1, <1>2 DEF LineInv
    <2>2. L[k] \in Signatures
      BY <1>2
    <2> QED
      BY <1>2, <1>4, <2>1, <2>2
  <1>10. CASE m.rest = <<>>
    <2>1. queue' = {}
      BY <1>7, <1>10 DEF C!Successor
    <2> QED
      BY <1>4, <1>5, <1>8, <1>9, <2>1 DEF LineInv
  <1>11. CASE m.rest # <<>>
    <2>1. PICK r \in Seq(Signatures) : r = m.rest /\ r # <<>>
      BY <1>3, <1>11
    <2>2. PICK q : q = C!IntoMessage(Head(r), None, None, Tail(r))
      OBVIOUS
    <2>3. queue' \subseteq {q}
      BY <1>7, <1>11, <2>1, <2>2 DEF C!Successor
    <2>4. q.sig = Head(r) /\ q.total = None /\ q.callback = None /\ q.rest = Tail(r)
      BY <2>2 DEF C!IntoMessage
    <2>5. Len(r) = Len(L) - k /\ Len(r) >= 1 /\ k + 1 <= Len(L)
      BY <1>2, <1>3, <2>1
    <2>6. Head(r) = L[k + 1]
      BY <1>3, <2>1, <2>5
    <2>7. Tail(r) \in Seq(Signatures) /\ Len(Tail(r)) = Len(L) - (k + 1)
      BY <1>2, <2>1, <2>5
    <2>8. \A i \in 1..Len(Tail(r)) : Tail(r)[i] = L[(k + 1) + i]
      <3> SUFFICES ASSUME NEW i \in 1..Len(Tail(r)) PROVE Tail(r)[i] = L[(k + 1) + i]
        OBVIOUS
      <3>1. Tail(r)[i] = r[i + 1] /\ i + 1 \in 1..Len(r)
        BY <2>1, <2>5, <2>7
      <3>2. k + (i + 1) = (k + 1) + i
        BY <1>2
      <3> QED
        BY <1>3, <2>1, <3>1, <3>2
    <2>9. LineMessage(q, k + 1)'
      BY <1>8, <2>4, <2>6, <2>7, <2>8 DEF LineMessage
    <2>10. \A n \in queue' : Len(ran') < Len(L) /\ LineMessage(n, Len(ran) + 1)'
      BY <1>2, <1>9, <2>3, <2>5, <2>9
    <2> QED
      BY <1>4, <1>5, <1>8, <1>9, <2>3, <2>10 DEF LineInv
  <1> QED
    BY <1>10, <1>11

\* Its handler fails for good, and the chain ends.
LEMMA LineGivesUp ==
  ASSUME LineInv, NEW m \in queue, WorkerGivesUp(m)
  PROVE  LineInv'
  <1>1. queue' = {} /\ todo' = <<>> /\ submission' # "ready" /\ Line' = Line
    BY DEF LineInv, WorkerGivesUp, Line
  <1> QED
    BY <1>1 DEF LineInv, WorkerGivesUp

LEMMA LineSubmit ==
  ASSUME C!CanvasConstants, LineInv,
         C!Apply \/ C!InitGroupFails \/ C!EnqueueNext \/ C!EnqueueFails \/ C!Applied
  PROVE  LineInv'
  <1>1. PICK L \in Seq(Signatures) : L = Line
    BY LineType DEF LineInv
  <1>2. workflow' = workflow /\ ran' = ran /\ Line' = L /\ \A m, k : LineMessage(m, k)' <=> LineMessage(m, k)
    BY <1>1 DEF C!Apply, C!InitGroupFails, C!EnqueueNext, C!EnqueueFails, C!Applied, Line, LineMessage
  <1>3. ~C!HasGroup
    BY DEF LineInv, C!HasGroup
  <1>4. CASE C!Apply
    <2>1. submission' = "enqueue" /\ todo' = C!Messages(workflow) /\ completed' = None /\ queue' = {} /\ ran = <<>>
      BY <1>3, <1>4 DEF C!Apply, LineInv
    <2>2. \/ todo' = <<>>
          \/ Len(Line) > 0 /\ \E m : todo' = <<m>> /\ LineMessage(m, 1)
      BY <2>1, LineMessages DEF LineInv
    <2>3. todo' # <<>> => (\E m : todo' = <<m>> /\ LineMessage(m, 1)') /\ Len(Line') > 0
      BY <1>1, <1>2, <2>2
    <2> QED
      BY <1>1, <1>2, <2>1, <2>3 DEF LineInv, Statuses
  <1>5. CASE C!InitGroupFails
    BY <1>3, <1>5 DEF C!InitGroupFails
  <1>6. CASE C!EnqueueNext \/ C!EnqueueFails
    <2>1. todo # <<>> /\ submission = "enqueue"
      BY <1>6 DEF C!EnqueueNext, C!EnqueueFails
    <2>2. PICK m : todo = <<m>> /\ LineMessage(m, 1)
      BY <2>1 DEF LineInv
    <2>3. Len(Line) > 0 /\ queue = {} /\ ran = <<>> /\ completed = None
      BY <2>1 DEF LineInv
    <2>4. Head(todo) = m /\ Tail(todo) = <<>>
      BY <2>2
    <2>5. queue' \subseteq {m} /\ todo' = <<>> /\ submission' \in {"enqueue", "err"} /\ completed' = None
      BY <1>6, <2>1, <2>3, <2>4 DEF C!EnqueueNext, C!EnqueueFails
    <2>6. Len(ran) = 0 /\ Len(ran) + 1 = 1
      BY <2>3
    <2>7. (\A q \in queue : Len(ran) < Len(Line) /\ LineMessage(q, Len(ran) + 1))'
      <3>1. LineMessage(m, 1)' /\ Len(ran)' + 1 = 1 /\ Len(ran)' < Len(Line)'
        BY <1>1, <1>2, <2>2, <2>3, <2>6
      <3> QED
        BY <2>5, <3>1
    <2> QED
      BY <1>1, <1>2, <2>3, <2>5, <2>6, <2>7 DEF LineInv, Statuses
  <1>7. CASE C!Applied
    BY <1>1, <1>2, <1>7 DEF C!Applied, LineInv, Statuses
  <1> QED
    BY <1>4, <1>5, <1>6, <1>7

-----------------------------------------------------------------------------
(* Groups and chords *)

Members == C!FlattenGroup(workflow.parts)
Cb == C!Callback(workflow)
Member(i) == C!IntoMessage(Members[i], Len(Members), Cb, <<>>)
CbMessage == C!IntoMessage(Cb, None, None, <<>>)

\* A chord whose callback flattens to nothing: apply enqueues no message.
Silent == workflow.kind = "chord" /\ Cb = None

SilentInv ==
    /\ workflow \in Workflows /\ Silent
    /\ submission \in Statuses /\ completed \in {None, 0}
    /\ todo = <<>> /\ queue = {} /\ ran = <<>>

\* The members that have run, and how many have been enqueued.
Done == {i \in 1..Len(Members) : \E j \in 1..Len(ran) : ran[j] = Members[i]}
Enqueued == Len(Members) - Len(todo)

\* What apply still has to enqueue are the last members.
TodoInv ==
    /\ todo \in Seq({Member(i) : i \in 1..Len(Members)}) /\ Len(todo) <= Len(Members)
    /\ \A j \in 1..Len(todo) : todo[j] = Member(Enqueued + j)
    /\ submission \in {"ok", "err"} => todo = <<>>

\* A member that was enqueued is in the queue or has run or was given up, and never
\* in the queue after it has run.
QueueInv ==
    /\ \A m \in queue : m = CbMessage \/ \E i \in 1..Enqueued : m = Member(i)
    /\ \A i \in Done : i <= Enqueued /\ Member(i) \notin queue
    /\ submission \in {"enqueue", "ok"} /\ broken = {} =>
          \A i \in 1..Enqueued : i \in Done \/ Member(i) \in queue

\* The counter of the group counts the members that have run, at most.
CompletedInv ==
    /\ completed # None => /\ completed \in Nat /\ completed <= Cardinality(Done)
                           /\ broken = {} => completed = Cardinality(Done)
    /\ submission \in {"enqueue", "ok"} => completed # None
    /\ completed = None => todo = <<>> /\ queue = {} /\ ran = <<>>

RanInv ==
    /\ ran \in Seq(Signatures) /\ OneToOne(ran)
    /\ \A j \in 1..Len(ran) : (ran[j] = Cb /\ Cb # None) \/ \E i \in 1..Len(Members) : ran[j] = Members[i]

\* The callback waits for all the members, and comes when they have run.
CallbackInv ==
    /\ CbMessage \in queue => /\ Done = 1..Len(Members) /\ Cb # None
                              /\ \A j \in 1..Len(ran) : ran[j] # Cb
    /\ \A j \in 1..Len(ran) : ran[j] = Cb =>
          \A i \in 1..Len(Members) : \E k \in 1..(j - 1) : ran[k] = Members[i]
    /\ Done = 1..Len(Members) /\ Len(Members) # 0 /\ Cb # None /\ broken = {} =>
          CbMessage \in queue \/ \E j \in 1..Len(ran) : ran[j] = Cb

GroupInv ==
    /\ workflow \in Workflows /\ workflow.kind \in {"group", "chord"} /\ ~Silent
    /\ submission \in Statuses
    /\ submission = "ready" => completed = None
    /\ TodoInv /\ QueueInv /\ CompletedInv /\ RanInv /\ CallbackInv

\* The members and the callback are different signatures.
LEMMA GroupTypes ==
  ASSUME C!CanvasConstants, workflow \in Workflows, workflow.kind \in {"group", "chord"}
  PROVE  /\ Members \in Seq(Signatures) /\ Len(Members) \in Nat /\ OneToOne(Members)
         /\ \A i \in 1..Len(Members) : Members[i] \in Signatures /\ Members[i] # Cb /\ Members[i] # None
         /\ \A i \in 1..Len(Members) : Members[i] \in C!Leaves[workflow]
         /\ Cb # None => Cb \in Signatures /\ Cb \in C!Leaves[workflow]
  <1>1. PICK c \in Workflows : c = workflow /\ c.kind \in {"group", "chord"}
    OBVIOUS
  <1>2. PICK G \in Seq(Signatures) : G = Members /\ G = C!FlattenGroup(c.parts)
    BY <1>1, GroupFlat DEF Members
  <1>3. \A p \in C!Parts(c) : C!Leaves[p] \subseteq C!Leaves[c]
    BY <1>1, LeavesEq
  <1>4. \A i \in DOMAIN c.parts : c.parts[i] \in C!Parts(c)
    BY <1>1, CanvasParts
  <1>5. None \notin C!Leaves[c] /\ C!Leaves[c] \subseteq Signatures
    BY LeavesEq DEF C!CanvasConstants
  <1>6. PICK cb : cb = Cb /\ cb = C!Callback(c)
    BY <1>1 DEF Cb
  <1>7. cb # None => c.kind = "chord" /\ cb \in C!Leaves[c.callback] /\ cb \in C!Leaves[c]
    <2>1. cb # None => c.kind = "chord" /\ cb \in C!Leaves[c.callback]
      BY <1>1, <1>6, CallbackFlat
    <2>2. c.kind = "chord" => c.callback \in C!Parts(c)
      BY CanvasParts
    <2> QED
      BY <1>3, <2>1, <2>2
  <1>8. ASSUME NEW j \in 1..Len(G) PROVE G[j] \in C!Leaves[c] /\ G[j] # cb /\ G[j] # None
    <2>1. PICK i \in DOMAIN c.parts : G[j] \in C!Leaves[c.parts[i]]
      BY <1>1, <1>2, GroupFlat
    <2>2. G[j] \in C!Leaves[c] /\ G[j] # None
      BY <1>3, <1>4, <1>5, <2>1
    <2>3. cb # None => G[j] \notin C!Leaves[c.callback]
      BY <1>7, <2>1 DEF C!CanvasConstants
    <2> QED
      BY <1>7, <2>2, <2>3
  <1>9. OneToOne(G)
    BY <1>1, <1>2, GroupFlat
  <1> QED
    BY <1>1, <1>2, <1>5, <1>6, <1>7, <1>8, <1>9

\* The messages of a group are different from each other and from the callback's.
LEMMA MemberFields ==
  ASSUME C!CanvasConstants, workflow \in Workflows, workflow.kind \in {"group", "chord"}
  PROVE  /\ \A i : /\ Member(i).sig = Members[i] /\ Member(i).total = Len(Members)
                   /\ Member(i).callback = Cb /\ Member(i).rest = <<>>
         /\ CbMessage.sig = Cb /\ CbMessage.total = None /\ CbMessage.callback = None /\ CbMessage.rest = <<>>
         /\ \A i : Member(i) # CbMessage
         /\ \A i, j \in 1..Len(Members) : Member(i) = Member(j) => i = j
  <1>1. \A i : /\ Member(i).sig = Members[i] /\ Member(i).total = Len(Members)
               /\ Member(i).callback = Cb /\ Member(i).rest = <<>>
    BY DEF Member, C!IntoMessage
  <1>2. CbMessage.sig = Cb /\ CbMessage.total = None /\ CbMessage.callback = None /\ CbMessage.rest = <<>>
    BY DEF CbMessage, C!IntoMessage
  <1>3. Len(Members) # None
    BY GroupTypes DEF C!CanvasConstants
  <1>4. \A i : Member(i) # CbMessage
    BY <1>1, <1>2, <1>3
  <1>5. \A i, j \in 1..Len(Members) : Member(i) = Member(j) => i = j
    BY <1>1, GroupTypes DEF OneToOne
  <1> QED
    BY <1>1, <1>2, <1>4, <1>5

LEMMA GroupSame ==
  ASSUME workflow' = workflow
  PROVE  /\ Members' = Members /\ Cb' = Cb /\ CbMessage' = CbMessage /\ Silent' = Silent
         /\ \A i : Member(i)' = Member(i)
         /\ ran' = ran => Done' = Done
  <1>1. Members' = Members /\ Cb' = Cb
    BY DEF Members, Cb
  <1> QED
    BY <1>1 DEF CbMessage, Member, Silent, Done

\* A step of the submission that has the members from, ..., to enqueued.
LEMMA GroupQuiet ==
  ASSUME C!CanvasConstants, GroupInv, UNCHANGED <<workflow, ran, completed, broken>>, completed # None, TodoInv',
         submission' \in Statuses \ {"ready"}, Enqueued <= Enqueued',
         queue \subseteq queue',
         \A m \in queue' : m \in queue \/ \E i \in 1..Enqueued' : i > Enqueued /\ m = Member(i),
         submission' \in {"enqueue", "ok"} =>
            /\ submission \in {"enqueue", "ok"}
            /\ \A i \in 1..Enqueued' : i > Enqueued => Member(i) \in queue'
  PROVE  GroupInv'
  <1>1. /\ Members' = Members /\ Cb' = Cb /\ CbMessage' = CbMessage /\ Silent' = Silent
        /\ (\A i : Member(i)' = Member(i)) /\ Done' = Done
    BY GroupSame
  <1>2. PICK e, f \in Int : e = Enqueued /\ f = Enqueued' /\ e <= f /\ f <= Len(Members)
    <2>1. Len(todo) \in Nat /\ Len(todo') \in Nat /\ Len(Members) \in Nat
      BY <1>1, GroupTypes DEF GroupInv, TodoInv
    <2>2. Enqueued = Len(Members) - Len(todo) /\ Enqueued' = Len(Members) - Len(todo')
      BY <1>1 DEF Enqueued
    <2>3. Enqueued \in Int /\ Enqueued' \in Int /\ Enqueued' <= Len(Members)
      BY <2>1, <2>2
    <2> QED
      BY <2>3
  <1>3. \A i, j \in 1..Len(Members) : Member(i) = Member(j) => i = j
    BY MemberFields DEF GroupInv
  <1>4. \A i : Member(i) # CbMessage
    BY MemberFields DEF GroupInv
  <1>5. QueueInv'
    <2>1. \A m \in queue' : m = CbMessage \/ \E i \in 1..f : m = Member(i)
      <3> SUFFICES ASSUME NEW m \in queue', m # CbMessage PROVE \E i \in 1..f : m = Member(i)
        OBVIOUS
      <3>1. CASE m \in queue
        <4>1. PICK i \in 1..e : m = Member(i)
          BY <1>2, <3>1 DEF GroupInv, QueueInv
        <4> QED
          BY <1>2, <4>1
      <3>2. CASE m \notin queue
        BY <1>2, <3>2
      <3> QED
        BY <3>1, <3>2
    <2>2. \A i \in Done : i <= f /\ Member(i) \notin queue'
      <3> SUFFICES ASSUME NEW i \in Done PROVE i <= f /\ Member(i) \notin queue'
        OBVIOUS
      <3>1. i \in 1..Len(Members) /\ i <= e /\ Member(i) \notin queue
        BY <1>2 DEF Done, GroupInv, QueueInv
      <3>2. ASSUME Member(i) \in queue' PROVE FALSE
        <4>1. PICK j \in 1..f : j > e /\ Member(i) = Member(j)
          BY <1>2, <3>1, <3>2
        <4>2. i \in Int /\ j \in 1..Len(Members)
          BY <1>2, <3>1, <4>1
        <4>3. i = j
          BY <1>3, <3>1, <4>1, <4>2
        <4> QED
          BY <1>2, <3>1, <4>1, <4>2, <4>3
      <3> QED
        BY <1>2, <3>1, <3>2
    <2>3. submission' \in {"enqueue", "ok"} /\ broken = {} => \A i \in 1..f : i \in Done \/ Member(i) \in queue'
      <3> SUFFICES ASSUME submission' \in {"enqueue", "ok"}, broken = {}, NEW i \in 1..f
                   PROVE  i \in Done \/ Member(i) \in queue'
        OBVIOUS
      <3>1. CASE i > e
        BY <1>2, <3>1
      <3>2. CASE ~(i > e)
        <4>1. i \in 1..e
          BY <1>2, <3>2
        <4> QED
          BY <1>2, <4>1 DEF GroupInv, QueueInv
      <3> QED
        BY <3>1, <3>2
    <2> QED
      BY <1>1, <1>2, <2>1, <2>2, <2>3 DEF QueueInv
  <1>6. CompletedInv'
    BY <1>1 DEF CompletedInv, GroupInv
  <1>7. RanInv'
    BY <1>1 DEF RanInv, GroupInv
  <1>8. CbMessage \in queue' <=> CbMessage \in queue
    BY <1>4
  <1>9. CallbackInv'
    BY <1>1, <1>8 DEF CallbackInv, GroupInv
  <1> QED
    BY <1>1, <1>5, <1>6, <1>7, <1>9 DEF GroupInv

LEMMA GroupApply ==
  ASSUME C!CanvasConstants, GroupInv, C!Apply
  PROVE  GroupInv'
  <1>1. /\ submission = "ready" /\ submission' = "enqueue" /\ todo' = C!Messages(workflow) /\ completed' = 0
        /\ UNCHANGED <<workflow, queue, ran, broken>>
    BY DEF C!Apply, C!HasGroup, GroupInv
  <1>2. queue = {} /\ ran = <<>>
    BY <1>1 DEF GroupInv, CompletedInv
  <1>3. /\ Members' = Members /\ Cb' = Cb /\ CbMessage' = CbMessage /\ Silent' = Silent
        /\ (\A i : Member(i)' = Member(i)) /\ Done' = Done
    BY <1>1, GroupSame
  <1>4. PICK G \in Seq(Signatures) : G = Members /\ Len(G) \in Nat /\ DOMAIN G = 1..Len(G)
    BY GroupTypes DEF GroupInv
  <1>5. todo' = [i \in 1..Len(G) |-> Member(i)]
    <2>1. workflow.kind \notin {"single", "chain"} /\ ~(workflow.kind = "chord" /\ C!Callback(workflow) = None)
      BY DEF GroupInv, Silent, Cb
    <2>2. C!Messages(workflow) =
            [i \in DOMAIN G |-> C!IntoMessage(G[i], C!TotalOf(workflow), C!Callback(workflow), <<>>)]
      BY <1>4, <2>1 DEF C!Messages, Members
    <2> QED
      BY <1>1, <1>4, <2>2 DEF Member, C!TotalOf, Cb, Members
  <1>6. Len(todo') = Len(G) /\ todo' \in Seq({Member(i) : i \in 1..Len(G)})
    BY <1>4, <1>5
  <1>7. Enqueued' = 0
    BY <1>3, <1>4, <1>6 DEF Enqueued
  <1>8. TodoInv'
    <2>1. \A j \in 1..Len(todo') : todo'[j] = Member(0 + j)
      BY <1>5, <1>6
    <2> QED
      BY <1>1, <1>3, <1>4, <1>6, <1>7, <2>1 DEF TodoInv
  <1>9. Done = {}
    BY <1>2 DEF Done
  <1>10. QueueInv'
    BY <1>1, <1>2, <1>3, <1>7, <1>9 DEF QueueInv
  <1>11. CompletedInv'
    <2>1. Cardinality(Done') = 0
      BY <1>3, <1>9, FS_EmptySet
    <2>2. 0 # None
      BY DEF C!CanvasConstants
    <2> QED
      BY <1>1, <2>1, <2>2 DEF CompletedInv
  <1>12. RanInv'
    BY <1>1, <1>3 DEF RanInv, GroupInv
  <1>13. CallbackInv'
    <2>1. Len(Members) # 0 => Done # 1..Len(Members)
      BY <1>4, <1>9
    <2> QED
      BY <1>1, <1>2, <1>3, <2>1 DEF CallbackInv
  <1> QED
    BY <1>1, <1>3, <1>8, <1>10, <1>11, <1>12, <1>13 DEF GroupInv, Statuses

LEMMA GroupSubmit ==
  ASSUME C!CanvasConstants, GroupInv, C!InitGroupFails \/ C!EnqueueNext \/ C!EnqueueFails \/ C!Applied
  PROVE  GroupInv'
  <1>1. workflow' = workflow /\ ran' = ran /\ completed' = completed /\ broken' = broken
    BY DEF C!InitGroupFails, C!EnqueueNext, C!EnqueueFails, C!Applied
  <1>2. /\ Members' = Members /\ Cb' = Cb /\ CbMessage' = CbMessage /\ Silent' = Silent
        /\ (\A i : Member(i)' = Member(i)) /\ Done' = Done
    BY <1>1, GroupSame
  <1>3. PICK n \in Nat : n = Len(Members)
    BY GroupTypes DEF GroupInv
  <1>4. PICK k \in Nat : k = Len(todo) /\ k <= n /\ Enqueued = n - k
    BY <1>3 DEF GroupInv, TodoInv, Enqueued
  <1>5. CASE C!InitGroupFails
    <2>1. submission = "ready" /\ submission' = "err" /\ UNCHANGED <<todo, queue>>
      BY <1>5 DEF C!InitGroupFails
    <2>2. todo = <<>> /\ queue = {} /\ ran = <<>> /\ completed = None
      BY <2>1 DEF GroupInv, CompletedInv
    <2>3. Enqueued' = Enqueued
      BY <1>2, <2>1 DEF Enqueued
    <2>4. TodoInv' /\ QueueInv' /\ CompletedInv' /\ RanInv' /\ CallbackInv'
      BY <1>1, <1>2, <2>1, <2>2, <2>3 DEF GroupInv, TodoInv, QueueInv, CompletedInv, RanInv, CallbackInv
    <2> QED
      BY <1>1, <1>2, <2>1, <2>4 DEF GroupInv, Statuses
  <1>6. CASE C!EnqueueNext \/ C!EnqueueFails
    <2>1. submission = "enqueue" /\ todo # <<>> /\ completed # None
      BY <1>6 DEF C!EnqueueNext, C!EnqueueFails, GroupInv, CompletedInv
    <2>2. k >= 1 /\ Head(todo) = todo[1] /\ 1 \in 1..Len(todo)
      BY <1>4, <2>1 DEF GroupInv, TodoInv
    <2>3. Head(todo) = Member((n - k) + 1)
      BY <1>4, <2>2 DEF GroupInv, TodoInv
    <2>4. CASE C!EnqueueNext
      <3>1. queue' = queue \cup {Member((n - k) + 1)} /\ todo' = Tail(todo) /\ submission' = "enqueue"
        BY <2>1, <2>3, <2>4 DEF C!EnqueueNext
      <3>2. /\ Tail(todo) \in Seq({Member(i) : i \in 1..n}) /\ Len(Tail(todo)) = k - 1
            /\ \A j \in 1..(k - 1) : Tail(todo)[j] = todo[j + 1]
        BY <1>3, <1>4, <2>1 DEF GroupInv, TodoInv
      <3>3. Enqueued' = (n - k) + 1
        BY <1>2, <1>3, <1>4, <3>1, <3>2 DEF Enqueued
      <3>4. \A j \in 1..(k - 1) : todo'[j] = Member(((n - k) + 1) + j)
        <4> SUFFICES ASSUME NEW j \in 1..(k - 1) PROVE todo'[j] = Member(((n - k) + 1) + j)
          OBVIOUS
        <4>1. j + 1 \in 1..Len(todo) /\ (n - k) + (j + 1) = ((n - k) + 1) + j
          BY <1>4
        <4>2. todo[j + 1] = Member((n - k) + (j + 1))
          BY <1>4, <4>1 DEF GroupInv, TodoInv
        <4> QED
          BY <3>1, <3>2, <4>1, <4>2
      <3>5. TodoInv'
        BY <1>2, <1>3, <1>4, <2>2, <3>1, <3>2, <3>3, <3>4 DEF TodoInv
      <3>6. (n - k) + 1 \in 1..Enqueued' /\ \A i \in 1..Enqueued' : i > Enqueued => i = (n - k) + 1
        BY <1>4, <3>3
      <3> QED
        BY <1>1, <1>4, <2>1, <3>1, <3>3, <3>5, <3>6, GroupQuiet DEF Statuses
    <2>5. CASE C!EnqueueFails
      <3>1. /\ queue' \in {queue, queue \cup {Member((n - k) + 1)}} /\ todo' = <<>> /\ submission' = "err"
        BY <2>1, <2>3, <2>5 DEF C!EnqueueFails
      <3>2. Enqueued' = n
        BY <1>2, <1>3, <3>1 DEF Enqueued
      <3>3. TodoInv'
        BY <1>2, <1>3, <3>1 DEF TodoInv
      <3>4. (n - k) + 1 \in 1..Enqueued' /\ (n - k) + 1 > Enqueued /\ Enqueued <= Enqueued'
        BY <1>4, <2>2, <3>2
      <3> QED
        BY <1>1, <1>4, <2>1, <3>1, <3>3, <3>4, GroupQuiet DEF Statuses
    <2> QED
      BY <1>6, <2>4, <2>5
  <1>7. CASE C!Applied
    <2>1. submission = "enqueue" /\ submission' = "ok" /\ todo = <<>> /\ UNCHANGED <<todo, queue>> /\ completed # None
      BY <1>7 DEF C!Applied, GroupInv, CompletedInv
    <2>2. Enqueued' = Enqueued /\ TodoInv'
      BY <1>2, <2>1 DEF Enqueued, TodoInv, GroupInv
    <2>3. Enqueued \in Int /\ \A i \in 1..Enqueued' : ~(i > Enqueued)
      BY <1>4, <2>2
    <2> QED
      BY <1>1, <2>1, <2>2, <2>3, GroupQuiet DEF Statuses
  <1> QED
    BY <1>5, <1>6, <1>7

\* A member runs: the counter goes on, and the last one brings the callback, unless
\* one of the calls fails.
LEMMA GroupRunsMember ==
  ASSUME C!CanvasConstants, GroupInv, NEW i \in 1..Len(Members), Member(i) \in queue, WorkerRuns(Member(i))
  PROVE  GroupInv'
  <1>1. /\ \A j : /\ Member(j).sig = Members[j] /\ Member(j).total = Len(Members)
                  /\ Member(j).callback = Cb /\ Member(j).rest = <<>>
        /\ \A j : Member(j) # CbMessage
        /\ \A j, k \in 1..Len(Members) : Member(j) = Member(k) => j = k
    BY MemberFields DEF GroupInv
  <1>2. PICK n \in Nat : n = Len(Members) /\ n # None
    BY GroupTypes DEF GroupInv, C!CanvasConstants
  <1>3. /\ \A j \in 1..n : Members[j] \in Signatures /\ Members[j] # Cb
        /\ \A j, k \in 1..n : Members[j] = Members[k] => j = k
    BY <1>2, GroupTypes DEF GroupInv, OneToOne
  <1>4. PICK c \in Nat : c = completed /\ c <= Cardinality(Done) /\ (broken = {} => c = Cardinality(Done))
    BY DEF GroupInv, CompletedInv
  <1>5. i \notin Done
    BY DEF GroupInv, QueueInv
  <1>6. /\ UNCHANGED <<workflow, submission, todo>> /\ ran' = Append(ran, Members[i])
        /\ C!Counted(Member(i)) = c + 1 /\ completed' \in {c, c + 1}
        /\ broken' = {} => broken = {} /\ completed' = c + 1
    BY <1>1, <1>2, <1>4 DEF WorkerRuns, C!Counted
  <1>7. /\ Members' = Members /\ Cb' = Cb /\ CbMessage' = CbMessage /\ Silent' = Silent
        /\ (\A j : Member(j)' = Member(j))
    BY <1>6, GroupSame
  <1>8. PICK l \in Nat : l = Len(ran)
    BY DEF GroupInv, RanInv
  <1>9. /\ ran' \in Seq(Signatures) /\ Len(ran') = l + 1 /\ ran'[l + 1] = Members[i]
        /\ \A j \in 1..l : ran'[j] = ran[j]
    BY <1>2, <1>3, <1>6, <1>8 DEF GroupInv, RanInv
  <1>10. \A j \in 1..l : ran[j] # Members[i]
    BY <1>2, <1>5, <1>8 DEF Done
  <1>11. Done' = Done \cup {i}
    <2>1. \A j \in 1..n : (\E k \in 1..(l + 1) : ran'[k] = Members[j]) <=>
                          (j = i \/ \E k \in 1..l : ran[k] = Members[j])
      <3> SUFFICES ASSUME NEW j \in 1..n
                   PROVE  (\E k \in 1..(l + 1) : ran'[k] = Members[j]) <=>
                          (j = i \/ \E k \in 1..l : ran[k] = Members[j])
        OBVIOUS
      <3>1. \A k \in 1..(l + 1) : k = l + 1 \/ k \in 1..l
        BY <1>8
      <3>2. l + 1 \in 1..(l + 1) /\ \A k \in 1..l : k \in 1..(l + 1)
        BY <1>8
      <3>3. Members[j] = Members[i] <=> j = i
        BY <1>2, <1>3
      <3> QED
        BY <1>9, <3>1, <3>2, <3>3
    <2> QED
      BY <1>2, <1>7, <1>8, <1>9, <2>1 DEF Done
  <1>12. ~(CbMessage \in queue) /\ \A j \in 1..l : ran[j] # Cb
    <2>1. CbMessage \notin queue
      BY <1>5 DEF GroupInv, CallbackInv
    <2>2. ASSUME NEW j \in 1..l, ran[j] = Cb PROVE FALSE
      <3>1. PICK k \in 1..(j - 1) : ran[k] = Members[i]
        BY <1>8, <2>2 DEF GroupInv, CallbackInv
      <3>2. k \in 1..l
        BY <1>8, <3>1
      <3> QED
        BY <1>10, <3>1, <3>2
    <2> QED
      BY <2>1, <2>2
  <1>13. PICK fired : /\ fired = C!FiredCallback(Member(i), c + 1)
                      /\ fired = IF Cb # None /\ c + 1 = n THEN {CbMessage} ELSE {}
    BY <1>1, <1>2 DEF C!FiredCallback, CbMessage
  <1>14. PICK sent \in SUBSET fired : queue' = (queue \ {Member(i)}) \cup sent /\ (broken' = {} => sent = fired)
    <2>1. C!Successor(Member(i)) = {}
      BY <1>1 DEF C!Successor
    <2> QED
      BY <1>6, <1>13, <2>1 DEF WorkerRuns
  <1>15. /\ CbMessage \in queue' => Cb # None /\ c + 1 = n
         /\ broken' = {} /\ Cb # None /\ c + 1 = n => CbMessage \in queue'
    BY <1>12, <1>13, <1>14
  <1>16. \A j : Member(j) \in queue' <=> (Member(j) \in queue /\ Member(j) # Member(i))
    BY <1>1, <1>13, <1>14
  <1>17. /\ IsFiniteSet(Done) /\ c + 1 <= Cardinality(Done \cup {i})
         /\ broken = {} => Cardinality(Done \cup {i}) = c + 1
         /\ c + 1 = n => Done \cup {i} = 1..n
         /\ broken = {} /\ Done \cup {i} = 1..n => c + 1 = n
         /\ Cardinality(Done \cup {i}) \in Nat
    <2>1. IsFiniteSet(1..n) /\ Cardinality(1..n) = n
      BY FS_Interval
    <2>2. Done \cup {i} \subseteq 1..n /\ Done \subseteq 1..n
      BY <1>2 DEF Done
    <2>3. IsFiniteSet(Done) /\ IsFiniteSet(Done \cup {i})
      BY <2>1, <2>2, FS_Subset
    <2>4. Cardinality(Done \cup {i}) = Cardinality(Done) + 1 /\ Cardinality(Done) \in Nat
      BY <1>5, <2>3, FS_AddElement, FS_CardinalityType
    <2>5. /\ Cardinality(Done \cup {i}) = Cardinality(1..n) => Done \cup {i} = 1..n
          /\ Cardinality(Done \cup {i}) <= Cardinality(1..n)
      BY <2>1, <2>2, FS_Subset
    <2>6. PICK d, x \in Nat : d = Cardinality(Done) /\ x = Cardinality(Done \cup {i}) /\ x = d + 1
      BY <2>4
    <2>7. x <= n /\ (x = n => Done \cup {i} = 1..n) /\ (Done \cup {i} = 1..n => x = n)
      BY <2>1, <2>5, <2>6
    <2>8. c <= d /\ (broken = {} => c = d)
      BY <1>4, <2>6
    <2>9. c + 1 <= x /\ (broken = {} => x = c + 1) /\ (c + 1 = n => x = n)
      BY <2>6, <2>7, <2>8
    <2> QED
      BY <2>3, <2>6, <2>7, <2>9
  <1>18. Enqueued' = Enqueued /\ TodoInv'
    BY <1>6, <1>7 DEF Enqueued, TodoInv, GroupInv
  <1>19. QueueInv'
    <2>0. Len(todo) \in Nat /\ Enqueued = n - Len(todo)
      BY <1>2 DEF Enqueued, GroupInv, TodoInv
    <2>1. PICK e \in Int : e = Enqueued
      BY <2>0
    <2>2. i <= e
      <3>1. PICK j \in 1..e : Member(i) = Member(j)
        BY <1>1, <2>1 DEF GroupInv, QueueInv
      <3>2. e <= n
        BY <1>2, <2>1 DEF Enqueued, GroupInv, TodoInv
      <3>3. j \in 1..Len(Members)
        BY <1>2, <2>1, <3>1, <3>2
      <3>4. i = j
        BY <1>1, <3>1, <3>3
      <3> QED
        BY <2>1, <3>1, <3>4
    <2>3. \A m \in queue' : m = CbMessage \/ \E j \in 1..e : m = Member(j)
      BY <1>13, <1>14, <2>1 DEF GroupInv, QueueInv
    <2>4. \A j \in Done \cup {i} : j <= e /\ Member(j) \notin queue'
      BY <1>16, <2>1, <2>2 DEF GroupInv, QueueInv
    <2>5. submission \in {"enqueue", "ok"} /\ broken' = {} =>
            \A j \in 1..e : j \in Done \cup {i} \/ Member(j) \in queue'
      <3> SUFFICES ASSUME submission \in {"enqueue", "ok"}, broken = {}, NEW j \in 1..e, j # i, j \notin Done
                   PROVE  Member(j) \in queue'
        BY <1>6
      <3>1. Member(j) \in queue
        BY <2>1 DEF GroupInv, QueueInv
      <3>2. j \in 1..Len(Members)
        BY <1>2, <2>1 DEF Enqueued, GroupInv, TodoInv
      <3>3. Member(j) # Member(i)
        BY <1>1, <3>2
      <3> QED
        BY <1>16, <3>1, <3>3
    <2> QED
      BY <1>6, <1>7, <1>11, <1>18, <2>1, <2>3, <2>4, <2>5 DEF QueueInv
  <1>20. CompletedInv'
    <2>1. /\ completed' \in Nat /\ completed' <= Cardinality(Done') /\ completed' # None
          /\ broken' = {} => completed' = Cardinality(Done')
      BY <1>6, <1>11, <1>17 DEF C!CanvasConstants
    <2> QED
      BY <2>1 DEF CompletedInv
  <1>21. RanInv'
    <2>1. \A j \in 1..(l + 1) : j = l + 1 \/ j \in 1..l
      BY <1>8
    <2>2. OneToOne(ran)'
      <3>1. \A j, k \in 1..l : ran[j] = ran[k] => j = k
        BY <1>8 DEF GroupInv, RanInv, OneToOne
      <3>2. \A j, k \in 1..(l + 1) : ran'[j] = ran'[k] => j = k
        BY <1>9, <1>10, <2>1, <3>1
      <3> QED
        BY <1>9, <3>2 DEF OneToOne
    <2>3. \A j \in 1..(l + 1) : (ran'[j] = Cb /\ Cb # None) \/ \E k \in 1..n : ran'[j] = Members[k]
      <3>1. \A j \in 1..l : (ran[j] = Cb /\ Cb # None) \/ \E k \in 1..n : ran[j] = Members[k]
        BY <1>2, <1>8 DEF GroupInv, RanInv
      <3> QED
        BY <1>2, <1>9, <2>1, <3>1
    <2> QED
      BY <1>2, <1>7, <1>9, <2>2, <2>3 DEF RanInv
  <1>22. CallbackInv'
    <2>1. \A j \in 1..(l + 1) : ran'[j] # Cb
      <3>1. \A j \in 1..(l + 1) : j = l + 1 \/ j \in 1..l
        BY <1>8
      <3> QED
        BY <1>2, <1>3, <1>9, <1>12, <3>1
    <2>2. /\ CbMessage \in queue' => Cb # None /\ Done' = 1..n
          /\ broken' = {} /\ Cb # None /\ Done' = 1..n => CbMessage \in queue'
      BY <1>6, <1>11, <1>15, <1>17
    <2> QED
      BY <1>2, <1>7, <1>9, <2>1, <2>2 DEF CallbackInv
  <1> QED
    BY <1>6, <1>7, <1>18, <1>19, <1>20, <1>21, <1>22 DEF GroupInv, CompletedInv

\* The callback runs, after all the members.
LEMMA GroupRunsCallback ==
  ASSUME C!CanvasConstants, GroupInv, CbMessage \in queue, WorkerRuns(CbMessage)
  PROVE  GroupInv'
  <1>1. CbMessage.sig = Cb /\ CbMessage.total = None /\ CbMessage.callback = None /\ CbMessage.rest = <<>>
    BY MemberFields DEF GroupInv
  <1>2. \A j : Member(j) # CbMessage
    BY MemberFields DEF GroupInv
  <1>3. PICK n \in Nat : n = Len(Members)
    BY GroupTypes DEF GroupInv
  <1>4. Done = 1..n /\ Cb # None /\ \A j \in 1..Len(ran) : ran[j] # Cb
    BY <1>3 DEF GroupInv, CallbackInv
  <1>5. Cb \in Signatures /\ \A j \in 1..n : Members[j] # Cb
    BY <1>3, <1>4, GroupTypes DEF GroupInv
  <1>6. /\ UNCHANGED <<workflow, submission, todo, completed>> /\ ran' = Append(ran, Cb)
        /\ broken' = {} => broken = {}
    BY <1>1 DEF WorkerRuns, C!Counted
  <1>7. /\ Members' = Members /\ Cb' = Cb /\ CbMessage' = CbMessage /\ Silent' = Silent
        /\ (\A j : Member(j)' = Member(j))
    BY <1>6, GroupSame
  <1>8. queue' = queue \ {CbMessage}
    <2>1. C!Successor(CbMessage) = {}
      BY <1>1 DEF C!Successor
    <2>2. C!FiredCallback(CbMessage, C!Counted(CbMessage)) = {}
      BY <1>1 DEF C!FiredCallback
    <2> QED
      BY <2>1, <2>2 DEF WorkerRuns
  <1>9. PICK l \in Nat : l = Len(ran)
    BY DEF GroupInv, RanInv
  <1>10. /\ ran' \in Seq(Signatures) /\ Len(ran') = l + 1 /\ ran'[l + 1] = Cb
         /\ \A j \in 1..l : ran'[j] = ran[j]
    BY <1>5, <1>6, <1>9 DEF GroupInv, RanInv
  <1>11. \A j \in 1..(l + 1) : j = l + 1 \/ j \in 1..l
    BY <1>9
  <1>12. \A i \in 1..n : \E k \in 1..l : ran[k] = Members[i]
    BY <1>3, <1>4, <1>9 DEF Done
  <1>13. Done' = Done
    <2>1. \A i \in 1..n : \E k \in 1..(l + 1) : ran'[k] = Members[i]
      BY <1>9, <1>10, <1>12
    <2> QED
      BY <1>3, <1>4, <1>7, <1>10, <2>1 DEF Done
  <1>14. Enqueued' = Enqueued /\ TodoInv'
    BY <1>6, <1>7 DEF Enqueued, TodoInv, GroupInv
  <1>15. QueueInv'
    BY <1>2, <1>6, <1>7, <1>8, <1>13, <1>14 DEF QueueInv, GroupInv
  <1>16. CompletedInv'
    BY <1>6, <1>13 DEF CompletedInv, GroupInv
  <1>17. RanInv'
    <2>1. \A j, k \in 1..l : ran[j] = ran[k] => j = k
      BY <1>9 DEF GroupInv, RanInv, OneToOne
    <2>2. \A j, k \in 1..(l + 1) : ran'[j] = ran'[k] => j = k
      BY <1>4, <1>9, <1>10, <1>11, <2>1
    <2>3. \A j \in 1..l : (ran[j] = Cb /\ Cb # None) \/ \E k \in 1..n : ran[j] = Members[k]
      BY <1>3, <1>9 DEF GroupInv, RanInv
    <2>4. \A j \in 1..(l + 1) : (ran'[j] = Cb /\ Cb # None) \/ \E k \in 1..n : ran'[j] = Members[k]
      BY <1>4, <1>10, <1>11, <2>3
    <2> QED
      BY <1>3, <1>7, <1>10, <2>2, <2>4 DEF RanInv, OneToOne
  <1>18. CallbackInv'
    <2>1. CbMessage \notin queue'
      BY <1>8
    <2>2. \A j \in 1..(l + 1) : ran'[j] = Cb => \A i \in 1..n : \E k \in 1..(j - 1) : ran'[k] = Members[i]
      <3> SUFFICES ASSUME NEW j \in 1..(l + 1), ran'[j] = Cb, NEW i \in 1..n
                   PROVE  \E k \in 1..(j - 1) : ran'[k] = Members[i]
        OBVIOUS
      <3>1. j = l + 1
        BY <1>4, <1>9, <1>10, <1>11
      <3>2. PICK k \in 1..l : ran[k] = Members[i]
        BY <1>12
      <3> QED
        BY <1>9, <1>10, <3>1, <3>2
    <2>3. \E j \in 1..(l + 1) : ran'[j] = Cb
      BY <1>9, <1>10
    <2> QED
      BY <1>3, <1>7, <1>10, <2>1, <2>2, <2>3 DEF CallbackInv
  <1> QED
    BY <1>6, <1>7, <1>14, <1>15, <1>16, <1>17, <1>18 DEF GroupInv

-----------------------------------------------------------------------------
(* Every workflow *)

\* A message of a group is given up: the counter cannot reach the total any more,
\* or the callback was the last to run.
LEMMA GroupGivesUp ==
  ASSUME C!CanvasConstants, GroupInv, NEW m \in queue, WorkerGivesUp(m)
  PROVE  GroupInv'
  <1>1. UNCHANGED <<workflow, submission, todo, completed, ran>> /\ queue' \subseteq queue /\ broken' # {}
    BY DEF WorkerGivesUp
  <1>2. /\ Members' = Members /\ Cb' = Cb /\ CbMessage' = CbMessage /\ Silent' = Silent
        /\ (\A i : Member(i)' = Member(i)) /\ Done' = Done /\ Enqueued' = Enqueued
    BY <1>1, GroupSame DEF Enqueued
  <1>3. TodoInv' /\ RanInv'
    BY <1>1, <1>2 DEF GroupInv, TodoInv, RanInv
  <1>4. QueueInv' /\ CallbackInv'
    BY <1>1, <1>2 DEF GroupInv, QueueInv, CallbackInv
  <1>5. CompletedInv'
    BY <1>1, <1>2 DEF GroupInv, CompletedInv
  <1> QED
    BY <1>1, <1>2, <1>3, <1>4, <1>5 DEF GroupInv

NothingInv ==
    /\ workflow = None /\ submission = "ready" /\ completed = None
    /\ todo = <<>> /\ queue = {} /\ ran = <<>>

CanvasInv == NothingInv \/ LineInv \/ SilentInv \/ GroupInv

LEMMA CanvasInit ==
  ASSUME C!CanvasConstants, C!Init
  PROVE  CanvasInv
  <1>1. CASE workflow = None
    BY <1>1 DEF C!Init, CanvasInv, NothingInv
  <1>2. CASE workflow \in Workflows /\ workflow.kind \in {"single", "chain"}
    <2>1. Len(Line) \in Nat
      BY <1>2, LineType
    <2>2. Len(ran) = 0 /\ ran \in Seq(Signatures)
      BY DEF C!Init
    <2> QED
      BY <1>2, <2>1, <2>2 DEF C!Init, CanvasInv, LineInv, Statuses
  <1>3. CASE workflow \in Workflows /\ workflow.kind \in {"group", "chord"} /\ Silent
    BY <1>3 DEF C!Init, CanvasInv, SilentInv, Statuses
  <1>4. CASE workflow \in Workflows /\ workflow.kind \in {"group", "chord"} /\ ~Silent
    <2>1. PICK n \in Nat : n = Len(Members)
      BY <1>4, GroupTypes
    <2>2. todo = <<>> /\ queue = {} /\ ran = <<>> /\ completed = None /\ submission = "ready"
      BY DEF C!Init
    <2>3. Len(ran) = 0 /\ Len(todo) = 0 /\ ran \in Seq(Signatures) /\ 1..0 = {}
      BY <2>2
    <2>4. Done = {} /\ (n # 0 => Done # 1..n)
      BY <2>1, <2>3 DEF Done
    <2>5. TodoInv
      BY <2>1, <2>2, <2>3 DEF TodoInv
    <2>6. QueueInv /\ CompletedInv /\ RanInv
      BY <2>2, <2>3, <2>4 DEF QueueInv, CompletedInv, RanInv, OneToOne
    <2>7. CallbackInv
      BY <2>1, <2>2, <2>3, <2>4 DEF CallbackInv
    <2> QED
      BY <1>4, <2>2, <2>5, <2>6, <2>7 DEF CanvasInv, GroupInv, Statuses
  <1>5. workflow # None => workflow \in Workflows /\ workflow.kind \in {"single", "chain", "group", "chord"}
    BY CanvasParts DEF C!Init
  <1> QED
    BY <1>1, <1>2, <1>3, <1>4, <1>5

LEMMA SilentStep ==
  ASSUME C!CanvasConstants, SilentInv, C!Next
  PROVE  SilentInv'
  <1>1. workflow' = workflow /\ Silent' = Silent
    <2>1. workflow' = workflow
      BY DEF C!Next, SilentInv, C!Apply, C!InitGroupFails, C!EnqueueNext, C!EnqueueFails, C!Applied
    <2> QED
      BY <2>1, GroupSame
  <1>2. C!Messages(workflow) = <<>>
    BY DEF SilentInv, Silent, Cb, C!Messages
  <1>3. C!Apply \/ C!InitGroupFails \/ C!Applied
    BY DEF C!Next, SilentInv, C!EnqueueNext, C!EnqueueFails
  <1>4. CASE C!Apply
    BY <1>1, <1>2, <1>4 DEF C!Apply, C!HasGroup, SilentInv, Statuses
  <1>5. CASE C!InitGroupFails \/ C!Applied
    BY <1>1, <1>5 DEF C!InitGroupFails, C!Applied, SilentInv, Statuses
  <1> QED
    BY <1>3, <1>4, <1>5

LEMMA CanvasStep ==
  ASSUME C!CanvasConstants, CanvasInv, [C!Next]_(C!vars)
  PROVE  CanvasInv'
  <1>1. CASE UNCHANGED C!vars
    <2>1. UNCHANGED <<workflow, submission, todo, queue, completed, ran, broken>>
      BY <1>1 DEF C!vars
    <2>2. CASE NothingInv
      BY <2>1, <2>2 DEF NothingInv, CanvasInv
    <2>3. CASE LineInv
      BY <2>1, <2>3 DEF LineInv, CanvasInv, Line, LineMessage
    <2>4. CASE SilentInv
      BY <2>1, <2>4 DEF SilentInv, CanvasInv, Silent, Cb
    <2>5. CASE GroupInv
      <3>1. /\ Members' = Members /\ Cb' = Cb /\ CbMessage' = CbMessage /\ Silent' = Silent
            /\ (\A i : Member(i)' = Member(i)) /\ Done' = Done /\ Enqueued' = Enqueued
        BY <2>1, GroupSame DEF Enqueued
      <3>2. TodoInv' /\ QueueInv' /\ CompletedInv' /\ RanInv' /\ CallbackInv'
        BY <2>1, <2>5, <3>1 DEF GroupInv, TodoInv, QueueInv, CompletedInv, RanInv, CallbackInv
      <3> QED
        BY <2>1, <2>5, <3>1, <3>2 DEF CanvasInv, GroupInv
    <2> QED
      BY <2>2, <2>3, <2>4, <2>5 DEF CanvasInv
  <1>2. CASE C!Next
    <2>1. CASE NothingInv
      BY <1>2, <2>1 DEF NothingInv, C!Next, C!Apply, C!InitGroupFails, C!EnqueueNext, C!EnqueueFails,
                        C!Applied
    <2>2. CASE LineInv
      <3>1. CASE C!Apply \/ C!InitGroupFails \/ C!EnqueueNext \/ C!EnqueueFails \/ C!Applied
        BY <2>2, <3>1, LineSubmit DEF CanvasInv
      <3>2. ASSUME NEW m \in queue, WorkerRuns(m) \/ WorkerGivesUp(m)
            PROVE  CanvasInv'
        BY <2>2, <3>2, LineExecute, LineGivesUp DEF CanvasInv
      <3> QED
        BY <1>2, <3>1, <3>2, WorkerSteps DEF C!Next
    <2>3. CASE SilentInv
      BY <1>2, <2>3, SilentStep DEF CanvasInv
    <2>4. CASE GroupInv
      <3>1. CASE C!Apply
        BY <2>4, <3>1, GroupApply DEF CanvasInv
      <3>2. CASE C!InitGroupFails \/ C!EnqueueNext \/ C!EnqueueFails \/ C!Applied
        BY <2>4, <3>2, GroupSubmit DEF CanvasInv
      <3>3. ASSUME NEW m \in queue, WorkerRuns(m)
            PROVE  CanvasInv'
        <4>1. CASE m = CbMessage
          BY <2>4, <3>3, <4>1, GroupRunsCallback DEF CanvasInv
        <4>2. CASE m # CbMessage
          <5>1. PICK i \in 1..Enqueued : m = Member(i)
            BY <2>4, <4>2 DEF GroupInv, QueueInv
          <5>2. Enqueued \in Int /\ Enqueued <= Len(Members) /\ Len(Members) \in Nat
            <6>1. Len(todo) \in Nat /\ Len(Members) \in Nat
              BY <2>4, GroupTypes DEF GroupInv, TodoInv
            <6> QED
              BY <6>1 DEF Enqueued
          <5>3. i \in 1..Len(Members)
            BY <5>1, <5>2
          <5>4. Member(i) \in queue /\ WorkerRuns(Member(i))
            BY <3>3, <5>1
          <5> QED
            BY <2>4, <5>3, <5>4, GroupRunsMember DEF CanvasInv
        <4> QED
          BY <4>1, <4>2
      <3>4. ASSUME NEW m \in queue, WorkerGivesUp(m)
            PROVE  CanvasInv'
        BY <2>4, <3>4, GroupGivesUp DEF CanvasInv
      <3> QED
        BY <1>2, <3>1, <3>2, <3>3, <3>4, WorkerSteps DEF C!Next
    <2> QED
      BY <2>1, <2>2, <2>3, <2>4 DEF CanvasInv
  <1> QED
    BY <1>1, <1>2

\* What has run of a chain is a prefix of it.
LEMMA LineDrawn ==
  ASSUME C!CanvasConstants, LineInv
  PROVE  WorkflowAsDrawn
  <1>1. PICK c \in Workflows : c = workflow
    BY DEF LineInv
  <1>2. PICK L \in Seq(Signatures) : L = Line /\ L = C!FlattenStep[c]
    BY <1>1, LineType DEF Line
  <1>3. /\ ran \in Seq(Signatures) /\ DOMAIN ran = 1..Len(ran) /\ Len(ran) <= Len(L)
        /\ Len(ran) \in Nat /\ Len(L) \in Nat
        /\ \A i \in 1..Len(ran) : i \in 1..Len(L) /\ ran[i] = L[i]
    BY <1>2 DEF LineInv
  <1>4. FlatInv(c)
    BY FlattenKeepsOrder
  <1>5. C!TypeOK
    <2>1. \A i \in 1..Len(ran) : ran[i] \in C!Leaves[workflow]
      BY <1>1, <1>2, <1>3, <1>4 DEF FlatInv
    <2> QED
      BY <1>3, <2>1 DEF C!TypeOK, C!Range, LineInv, Statuses
  <1>6. C!OrderKept
    <2>1. C!IsInjective(ran)
      <3>1. \A j, k \in 1..Len(L) : L[j] = L[k] => j = k
        BY <1>2, <1>4 DEF FlatInv, OneToOne
      <3> QED
        BY <1>3, <3>1 DEF C!IsInjective
    <2>2. C!Supported(workflow) => C!OnlyChains[c]
      BY <1>1 DEF C!Supported, LineInv
    <2>3. ASSUME NEW p \in C!Before[workflow], NEW j \in 1..Len(ran), ran[j] = p[2], C!Supported(workflow)
          PROVE  \E i \in 1..(j - 1) : ran[i] = p[1]
      <3>1. j \in 1..Len(L) /\ L[j] = p[2] /\ p \in C!Before[c] /\ C!OnlyChains[c]
        BY <1>1, <1>3, <2>2, <2>3
      <3>2. PICK i \in 1..(j - 1) : L[i] = p[1]
        BY <1>2, <1>4, <3>1 DEF FlatInv
      <3>3. i \in 1..Len(ran)
        BY <1>3, <3>2
      <3> QED
        BY <1>3, <3>2, <3>3
    <2> QED
      BY <1>3, <2>1, <2>3 DEF C!OrderKept
  <1>7. C!TotalReachable
    BY DEF C!TotalReachable, LineInv
  <1> QED
    BY <1>5, <1>6, <1>7 DEF WorkflowAsDrawn

\* The callback of a chord runs after all its members.
LEMMA GroupDrawn ==
  ASSUME C!CanvasConstants, GroupInv
  PROVE  WorkflowAsDrawn
  <1>1. PICK c \in Workflows : c = workflow /\ c.kind \in {"group", "chord"}
    BY DEF GroupInv
  <1>2. PICK n \in Nat : n = Len(Members)
    BY <1>1, GroupTypes
  <1>3. /\ \A i \in 1..n : Members[i] \in C!Leaves[c]
        /\ Cb # None => Cb \in C!Leaves[c]
    BY <1>1, <1>2, GroupTypes
  <1>4. /\ ran \in Seq(Signatures) /\ DOMAIN ran = 1..Len(ran) /\ OneToOne(ran)
        /\ \A j \in 1..Len(ran) : (ran[j] = Cb /\ Cb # None) \/ \E i \in 1..n : ran[j] = Members[i]
    BY <1>2 DEF GroupInv, RanInv
  <1>5. \A j \in 1..Len(ran) : ran[j] \in C!Leaves[c]
    BY <1>3, <1>4
  <1>6. C!TypeOK
    <2>1. completed \in Nat \cup {None}
      BY DEF GroupInv, CompletedInv
    <2> QED
      BY <1>1, <1>4, <1>5, <2>1 DEF C!TypeOK, C!Range, GroupInv, Statuses
  <1>7. C!OrderKept
    <2>1. C!IsInjective(ran)
      BY <1>4 DEF C!IsInjective, OneToOne
    <2>2. ASSUME NEW p \in C!Before[workflow], NEW j \in 1..Len(ran), ran[j] = p[2], C!Supported(workflow)
          PROVE  \E i \in 1..(j - 1) : ran[i] = p[1]
      <3>1. ~C!OnlyChains[c]
        BY <1>1, OnlyChainsEq
      <3>2. /\ \A i \in DOMAIN c.parts : c.parts[i].kind = "single" /\ c.parts[i] \in Workflows
            /\ c.kind = "chord" => c.callback.kind = "single" /\ c.callback \in Workflows
        BY <1>1, <2>2, <3>1, CanvasParts DEF C!Supported
      <3>3. \A d \in C!Parts(c) : d.kind = "single" /\ d \in Workflows
        BY <1>1, <3>2, CanvasParts
      <3>4. \A d \in Workflows : d.kind = "single" => C!Before[d] = {}
        <4> SUFFICES ASSUME NEW d \in Workflows, d.kind = "single" PROVE C!Before[d] = {}
          OBVIOUS
        <4>1. C!Parts(d) = {} /\ C!InOrder(d) = {}
          BY CanvasParts DEF C!InOrder
        <4> QED
          BY <4>1, BeforeEq
      <3>5. p \in C!InOrder(c)
        BY <1>1, <2>2, <3>3, <3>4, BeforeEq
      <3>6. c.kind = "chord"
        BY <1>1, <3>5, InOrderLeaves
      <3>7. PICK i \in DOMAIN c.parts : p \in C!Leaves[c.parts[i]] \X C!Leaves[c.callback]
        BY <3>5, <3>6, InOrderLeaves
      <3>8. p[1] = c.parts[i].sig /\ p[2] \in C!Leaves[c.callback]
        <4>1. C!Leaves[c.parts[i]] = {c.parts[i].sig}
          BY <3>2, LeavesEq
        <4> QED
          BY <3>7, <4>1
      <3>9. \A k \in 1..n : Members[k] \notin C!Leaves[c.callback]
        <4> SUFFICES ASSUME NEW k \in 1..n PROVE Members[k] \notin C!Leaves[c.callback]
          OBVIOUS
        <4>1. Members = C!FlattenGroup(c.parts)
          BY <1>1 DEF Members
        <4>2. PICK x \in DOMAIN c.parts : Members[k] \in C!Leaves[c.parts[x]]
          BY <1>1, <1>2, <4>1, GroupFlat
        <4>3. C!Leaves[c.parts[x]] \cap C!Leaves[c.callback] = {}
          BY <3>6 DEF C!CanvasConstants
        <4> QED
          BY <4>2, <4>3
      <3>10. ran[j] = Cb
        BY <1>4, <2>2, <3>8, <3>9
      <3>11. PICK k \in 1..n : Members[k] = p[1]
        <4>1. Members = C!FlattenGroup(c.parts)
          BY <1>1 DEF Members
        <4>2. \E k \in 1..n : Members[k] = c.parts[i].sig
          BY <1>1, <1>2, <3>2, <4>1, GroupFlat
        <4> QED
          BY <3>8, <4>2
      <3>12. \E m \in 1..(j - 1) : ran[m] = Members[k]
        BY <1>2, <3>10 DEF GroupInv, CallbackInv
      <3> QED
        BY <3>11, <3>12
    <2> QED
      BY <1>4, <2>1, <2>2 DEF C!OrderKept
  <1>8. C!TotalReachable
    <2> SUFFICES ASSUME submission = "ok", queue = {}, completed # None, broken = {}
                 PROVE  /\ completed = C!TotalOf(workflow)
                        /\ C!Callback(workflow) # None /\ completed > 0 => C!Callback(workflow) \in C!Range(ran)
      BY DEF C!TotalReachable
    <2>1. todo = <<>> /\ Enqueued = n
      BY <1>2 DEF GroupInv, TodoInv, Enqueued
    <2>2. Done = 1..n
      BY <1>2, <2>1 DEF GroupInv, QueueInv, Done
    <2>3. completed = n
      BY <2>2, FS_Interval DEF GroupInv, CompletedInv
    <2>4. C!TotalOf(workflow) = n /\ C!Callback(workflow) = Cb
      BY <1>2 DEF C!TotalOf, Members, Cb
    <2>5. ASSUME Cb # None, completed > 0 PROVE Cb \in C!Range(ran)
      <3>1. \E j \in 1..Len(ran) : ran[j] = Cb
        BY <1>2, <2>2, <2>3, <2>5 DEF GroupInv, CallbackInv
      <3> QED
        BY <1>4, <3>1 DEF C!Range
    <2> QED
      BY <2>3, <2>4, <2>5
  <1> QED
    BY <1>6, <1>7, <1>8 DEF WorkflowAsDrawn

\* For any set of canvases, however deep they are nested, with any handlers and any
\* calls of broker and backend failing: each task that runs is one of the workflow
\* and runs once; in a workflow that apply supports it runs after all that the canvas
\* puts before it; and the total that apply announces is what the members reach if
\* none of them fails.
THEOREM WorkflowsAsDrawn ==
  C!Spec => []WorkflowAsDrawn
  <1>1. C!Init => CanvasInv
    BY CanvasInit, PartsAssumption
  <1>2. CanvasInv /\ [C!Next]_(C!vars) => CanvasInv'
    BY CanvasStep, PartsAssumption
  <1>3. CanvasInv => WorkflowAsDrawn
    <2>1. CASE NothingInv
      BY <2>1 DEF NothingInv, WorkflowAsDrawn, C!TypeOK, C!OrderKept, C!TotalReachable
    <2>2. CASE LineInv
      BY <2>2, LineDrawn, PartsAssumption
    <2>3. CASE SilentInv
      <3>1. C!TypeOK
        BY <2>3 DEF SilentInv, Statuses, C!TypeOK, C!Range
      <3>2. C!OrderKept
        BY <2>3 DEF SilentInv, C!OrderKept, C!IsInjective
      <3>3. C!TotalReachable
        BY <2>3 DEF SilentInv, Silent, Cb, C!TotalReachable
      <3> QED
        BY <3>1, <3>2, <3>3 DEF WorkflowAsDrawn
    <2>4. CASE GroupInv
      BY <2>4, GroupDrawn, PartsAssumption
    <2> QED
      BY <2>1, <2>2, <2>3, <2>4 DEF CanvasInv
  <1> QED
    BY <1>1, <1>2, <1>3, PTL DEF C!Spec

=============================================================================
