---------------------------- MODULE MaintenanceLoop ----------------------------
(***************************************************************************)
(* The maintenance worker of src/src/service.rs and its schedule in        *)
(* src/src/service_cache.rs: when branches are refreshed, when the cache   *)
(* is collected in owed, and when only a compaction is retried.            *)
(*                                                                         *)
(* Deadlines are kept as the time left until they pass, 0 once they have.  *)
(* What an operation does is left out: any outcome that its code returns.  *)
(***************************************************************************)
EXTENDS Integers

CONSTANTS
  Interval,   \* between two collections, 15 minutes
  Regular,    \* between two refreshes of the branches
  Retry,      \* the shortest wait of a retry, 30 seconds
  Soon,       \* between two steps of the startup sweep, 1 second
  MaxWork,    \* the longest that an operation takes
  None

VARIABLES
  pc,          \* "sleep", "startup", "check", "retry", "branches", "collect", "git" or "stopped"
  collection,  \* until the next collection
  compaction,  \* None, or until the next retry of the compaction
  stalled,     \* the wait after the next collection without progress
  regular,     \* until the next refresh of the branches
  startup,     \* None once the sweep is done, else until its next step
  owed,        \* what this iteration owes: "nothing", "branches" or "all"
  shutdown,
  work,        \* how long the running operation has taken
  spent,       \* how long this iteration has taken
  idle,        \* since the last collection ended
  unfetched,   \* since the last refresh of the branches began
  row          \* collections without progress in a row

schedule == <<collection, compaction, stalled>>
clocks == <<idle, unfetched>>
vars == <<pc, schedule, regular, startup, owed, shutdown, work, spent, clocks, row>>

Least(a, b) == IF a < b THEN a ELSE b

Init ==
  /\ pc = "sleep" /\ owed = "nothing" /\ shutdown = FALSE
  /\ collection = Interval /\ compaction = None /\ stalled = Retry
  /\ regular = Regular /\ startup = Soon
  /\ work = 0 /\ spent = 0 /\ idle = 0 /\ unfetched = 0 /\ row = 0

-----------------------------------------------------------------------------
(* Time                                                                    *)

Left(t) == IF t = 0 THEN 0 ELSE t - 1

Due ==
  \/ collection = 0 \/ regular = 0
  \/ compaction = 0 \/ startup = 0

\* Timers are prompt, and an operation takes at most MaxWork.
Tick ==
  /\ pc \notin {"check", "stopped"}
  /\ IF pc = "sleep" THEN ~Due /\ UNCHANGED <<work, spent>>
     ELSE work < MaxWork /\ work' = work + 1 /\ spent' = spent + 1
  /\ collection' = Left(collection) /\ regular' = Left(regular)
  /\ compaction' = IF compaction = None THEN None ELSE Left(compaction)
  /\ startup' = IF startup = None THEN None ELSE Left(startup)
  /\ idle' = idle + 1 /\ unfetched' = unfetched + 1
  /\ UNCHANGED <<pc, stalled, owed, shutdown, row>>

Shutdown ==
  /\ ~shutdown /\ shutdown' = TRUE
  /\ UNCHANGED <<pc, schedule, regular, startup, owed, work, spent, clocks, row>>

-----------------------------------------------------------------------------
(* What the operations answer                                              *)

Outcome(pressure, progress, deferred) ==
  [pressure |-> pressure, progress |-> progress, deferred |-> deferred]

\* Mutant: only a check that ran its course reports pressure.
AnsweredIdle ==
  {None, Outcome(FALSE, FALSE, "busy"), Outcome(TRUE, FALSE, "other"),
   Outcome(TRUE, FALSE, None), Outcome(TRUE, TRUE, None), Outcome(FALSE, TRUE, None)}

\* try_compaction_with()
Retried ==
  {None, Outcome(TRUE, FALSE, "busy"), Outcome(TRUE, FALSE, "other"),
   Outcome(TRUE, FALSE, None), Outcome(TRUE, TRUE, None), Outcome(FALSE, TRUE, None)}

\* maintain_disk(): a collection, and under pressure a compaction.
Collected ==
  {None} \union {Outcome(FALSE, progress, None) : progress \in BOOLEAN}
         \union {Outcome(TRUE, progress, deferred) : progress \in BOOLEAN, deferred \in {"busy", "other", None}}

-----------------------------------------------------------------------------
(* The schedule                                                            *)

BusyRetry(outcome) ==
  IF outcome # None /\ outcome.deferred = "busy" THEN Retry ELSE None

\* MaintenanceSchedule::collected()
AfterCollection(outcome) ==
  IF outcome # None /\ (~outcome.pressure \/ outcome.progress)
    THEN /\ stalled' = Retry /\ row' = 0
         /\ collection' = IF outcome.pressure THEN Retry ELSE Interval
    ELSE /\ stalled' = Least(2 * stalled, Interval)
         /\ row' = Least(row + 1, Interval)
         /\ collection' = Least(stalled, Interval)

\* Mutant: what a compaction freed does not end the backing off.
CompactionAside(outcome) ==
  IF ~outcome.pressure THEN collection' = Interval /\ UNCHANGED stalled /\ row' = 0
  ELSE IF outcome.progress
    THEN collection' = Least(collection, Retry) /\ UNCHANGED stalled /\ row' = 0
  ELSE UNCHANGED <<collection, stalled, row>>

\* MaintenanceSchedule::compacted()
AfterCompaction(outcome) ==
  IF ~outcome.pressure THEN collection' = Interval /\ stalled' = Retry /\ row' = 0
  ELSE IF outcome.progress
    THEN collection' = Least(collection, Retry) /\ stalled' = Retry /\ row' = 0
  ELSE UNCHANGED <<collection, stalled, row>>

-----------------------------------------------------------------------------
(* The worker                                                              *)

Goto(next) == pc' = next /\ work' = 0

Wake ==
  /\ pc = "sleep" /\ Due /\ ~shutdown
  /\ Goto(IF startup = 0 THEN "startup" ELSE "check") /\ spent' = 0
  /\ UNCHANGED <<schedule, regular, startup, owed, shutdown, clocks, row>>

\* maintain_startup() answers: the sweep is done, goes on soon, or failed.
Swept ==
  /\ pc = "startup"
  /\ startup' \in IF shutdown THEN {startup} ELSE {None, Soon, Retry}
  /\ Goto(IF shutdown THEN "stopped" ELSE "check")
  /\ UNCHANGED <<schedule, regular, owed, shutdown, spent, clocks, row>>

\* Mutant: a collection comes instead of a refresh.
FetchOrCollect(due) ==
  /\ Goto(CASE due = "nothing" -> "sleep" [] due = "branches" -> "branches" [] due = "all" -> "collect")
  /\ unfetched' = IF due = "branches" THEN 0 ELSE unfetched

\* Repositories::maintain() begins, if anything but a retry was due.
Fetch(due) ==
  /\ Goto(IF due = "nothing" THEN "sleep" ELSE "branches")
  /\ unfetched' = IF due = "nothing" THEN unfetched ELSE 0

\* One reading of the clock decides what the rest of the iteration does.
Check ==
  /\ pc = "check" /\ ~shutdown
  /\ owed' = IF collection = 0 THEN "all" ELSE IF regular = 0 THEN "branches" ELSE "nothing"
  /\ IF collection # 0 /\ compaction = 0 THEN Goto("retry") /\ UNCHANGED unfetched
     ELSE Fetch(owed')
  /\ UNCHANGED <<schedule, regular, startup, shutdown, spent, idle, row>>

\* Mutant: a failed retry keeps its deadline.
RetryAgain(outcome) ==
  IF outcome = None THEN UNCHANGED <<schedule, row>>
  ELSE AfterCompaction(outcome) /\ compaction' = BusyRetry(outcome)

AfterRetry(outcome) ==
  /\ compaction' = BusyRetry(outcome)
  /\ IF outcome = None THEN UNCHANGED <<collection, stalled, row>> ELSE AfterCompaction(outcome)

\* retry_compaction() answers.
Compacted ==
  /\ pc = "retry"
  /\ \E outcome \in Retried : AfterRetry(outcome)
  /\ Fetch(owed)
  /\ UNCHANGED <<regular, startup, owed, shutdown, spent, idle>>

\* Repositories::maintain() answers; its failure is only logged.
Fetched ==
  /\ pc = "branches"
  /\ Goto(IF shutdown THEN "stopped" ELSE IF owed = "all" THEN "collect" ELSE "sleep")
  /\ regular' = IF ~shutdown /\ owed = "branches" THEN Regular ELSE regular
  /\ UNCHANGED <<schedule, startup, owed, shutdown, spent, clocks, row>>

Maintained ==
  /\ pc = "collect"
  /\ \E outcome \in Collected :
       AfterCollection(outcome) /\ compaction' = BusyRetry(outcome)
  /\ Goto(IF shutdown THEN "stopped" ELSE "git")
  /\ idle' = 0
  /\ UNCHANGED <<regular, startup, owed, shutdown, spent, unfetched>>

\* maintain_git() answers, or had nothing to do.
Packed ==
  /\ pc = "git"
  /\ Goto("sleep") /\ regular' = Regular
  /\ UNCHANGED <<schedule, startup, owed, shutdown, spent, clocks, row>>

Stop ==
  /\ shutdown /\ pc \in {"sleep", "check"}
  /\ Goto("stopped")
  /\ UNCHANGED <<schedule, regular, startup, owed, shutdown, spent, clocks, row>>

Worker ==
  \/ Wake \/ Swept \/ Check \/ Compacted
  \/ Fetched \/ Maintained \/ Packed \/ Stop

Next == Worker \/ Tick \/ Shutdown

Spec == Init /\ [][Next]_vars

-----------------------------------------------------------------------------
(* Properties                                                              *)

TypeOK ==
  /\ pc \in {"sleep", "startup", "check", "retry", "branches", "collect", "git", "stopped"}
  /\ collection \in 0 .. Interval /\ regular \in 0 .. Regular
  /\ compaction \in {None} \union (0 .. Retry)
  /\ startup \in {None} \union Nat
  /\ stalled \in Retry .. Interval

\* Retries of the compaction never keep the cache from being collected: two
\* intervals and one iteration of work after a collection the next one ended,
\* or the worker has stopped.
CollectionDue == pc # "stopped" => idle <= 2 * Interval + 5 * MaxWork

\* Neither the startup sweep nor a compaction that is always busy keeps the
\* branches from being refreshed: at worst one iteration is over before they
\* are due, one retries while they become due, and one has to sweep and retry.
BranchesDue == pc # "stopped" => unfetched <= Regular + 6 * MaxWork

\* Full scans that free nothing are spaced out twice as far each time, and a
\* compaction that freed something brings the short wait back.
Doubled[n \in Nat] == IF n = 0 THEN Retry ELSE 2 * Doubled[n - 1]
BackOff == stalled = Least(Doubled[row], Interval)

\* An iteration that took no time leaves nothing to do at once: the worker
\* does not spin, whatever fails.
NoSpin == [][pc # "sleep" /\ pc' = "sleep" /\ spent = 0 => ~Due']_vars
=============================================================================
