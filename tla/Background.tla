------------------------------ MODULE Background ------------------------------
(***************************************************************************)
(* The components that serve all requests at once: the memory that is      *)
(* reserved for work on sources (MemoryBudget), the worker that maintains  *)
(* the cache (MaintenanceLoop), the watches of directories (WatchFence),   *)
(* the journal of operations (Journal), and the copies of a repository     *)
(* whose default branch is renamed (DefaultBranch).  They share no state.  *)
(***************************************************************************)
EXTENDS DefaultBranch, FiniteSets, Sequences

CONSTANTS
  \* MemoryBudget
  Tasks, Capacity, Workers, MaxBytes, Kinds,
  \* MaintenanceLoop
  Interval, Regular, RetryAfter, Soon, MaxWork,
  \* WatchFence
  Dirs, Files, DirOf(_), Readers, Reads(_), KernelQueue, Batch, Batches,
  EventLimit, MaxVersion, MaxWatches,
  \* Journal
  Ops, MaxDays, Retain, MaxActive, MaxQueue, Limits

VARIABLES
  \* MemoryBudget
  available, workers, waiting, memoryAt, want, held, working, cancelled,
  \* MaintenanceLoop
  pc, collection, compaction, stalled, regular, startup, owed, shutdown, work,
  spent, idle, unfetched, row,
  \* WatchFence
  version, present, watched, watchQueue, count, mon, uses, reading, snapshot,
  \* Journal
  limits, today, op, day, queue, dropped, at, mem, shared, opened, pending,
  prepared, packing, snap, file, cursor, got, exporting, shown, crashes,
  failures, exports

Memory == INSTANCE MemoryBudget WITH at <- memoryAt
Loop == INSTANCE MaintenanceLoop WITH Retry <- RetryAfter
Watch == INSTANCE WatchFence WITH queue <- watchQueue
Log == INSTANCE Journal

memoryVars == <<available, workers, waiting, memoryAt, want, held, working,
  cancelled>>
loopVars == <<pc, collection, compaction, stalled, regular, startup, owed,
  shutdown, work, spent, idle, unfetched, row>>
watchVars == <<version, present, watched, watchQueue, count, mon, uses, reading,
  snapshot>>
journalVars == <<limits, today, op, day, queue, dropped, at, mem, shared,
  opened, pending, prepared, packing, snap, file, cursor, got, exporting, shown,
  crashes, failures, exports>>

\* Tasks are counted; budgets and parser workers are numbers.
ASSUME TasksAssumption ==
  IsFiniteSet(Tasks) /\ Kinds \subseteq {"batch", "file", "view"}
ASSUME CapacityAssumption ==
  Capacity \in [Memory!Budgets -> Nat] /\ Workers \in Nat

\* Retries come at least as often as collections, and time passes between two
\* refreshes and between two steps of the startup sweep.
ASSUME ScheduleAssumption ==
  /\ Interval \in Nat /\ Regular \in Nat \ {0} /\ RetryAfter \in 1..Interval
  /\ Soon \in Nat \ {0} /\ MaxWork \in Nat /\ None \notin Nat \union {"busy"}

\* Files are in one directory each, readers are counted, and something can be
\* read from the kernel.
ASSUME WatchAssumption ==
  /\ \A f \in Files : DirOf(f) \in Dirs
  /\ IsFiniteSet(Readers) /\ \A r \in Readers : Reads(r) \subseteq Dirs
  /\ Batch \in Nat \ {0} /\ Batches \in Nat \ {0}
  /\ {KernelQueue, EventLimit, MaxVersion, MaxWatches} \subseteq Nat
ASSUME WatchNoneAssumption ==
  None \notin [generation : Nat, read : UNION {[some -> Nat] : some \in SUBSET Files}]

\* Operations are counted, and so are days; None is no file and no position.
ASSUME JournalAssumption ==
  /\ IsFiniteSet(Ops) /\ MaxDays \in Nat \ {0} /\ Retain \in Nat
  /\ Limits \subseteq Log!Circumstances
ASSUME JournalNoneAssumption ==
  /\ None \notin [gen : Nat \X Nat, frames : Seq(Log!Frames)]
  /\ None \notin [gen : Nat \X Nat, next : Nat]
  /\ None \notin [day : Log!Days, gen : Nat \X Nat, next : Nat, kept : Seq(Log!Happened)]
  /\ None \notin [active : SUBSET Ops, gaps : Nat, next : Nat, due : SUBSET Ops]

-----------------------------------------------------------------------------
\* The memory budgets: every byte and every worker is free or in one
\* reservation, through shrinking, dropping, failing and going away, and the
\* queues have exactly the tickets of those who wait.
MemoryTrue == Memory!TypeOK /\ Memory!Conserved /\ Memory!Ticketed

\* The maintenance worker: the cache is collected and the branches are
\* refreshed in time although retries of the compaction and the startup sweep
\* come between, full scans that free nothing back off, and the worker does
\* not spin, whatever fails.
LoopTrue ==
  /\ [](Loop!CollectionDue /\ Loop!BranchesDue /\ Loop!BackOff)
  /\ Loop!NoSpin

\* Watches: what a snapshot does not report has not changed, and a directory
\* that somebody relies on is watched.
WatchTrue == Watch!FenceTrue /\ Watch!WatchesShared

\* The journal: what ended is recorded once, readable, and never forgotten by
\* a crash, a failure or the packing of a day; an export misses nothing and
\* its position names the frames it has seen.
JournalTrue ==
  /\ [](Log!NoneStranded /\ Log!RecordedOnce /\ Log!CursorTrue /\ Log!WholeExport)
  /\ Log!NeverForgotten /\ Log!PackingKeeps
=============================================================================
