---------------------------- MODULE MemoryBudget ----------------------------
(***************************************************************************)
(* The memory admission of src/src/memory.rs and what holds its            *)
(* reservations: batches of sources that are indexed                       *)
(* (src/src/workspace.rs), single files, and views that read a source and  *)
(* may parse it to minify it (src/src/navigation/sources.rs).              *)
(*                                                                         *)
(* There are two budgets, for parsing and for sources.  Each admits in the *)
(* order of arrival.  A waiter looks at the queue at least every 50 ms, so *)
(* no step here depends on a notification.                                 *)
(*                                                                         *)
(* Abstracted: bytes are small numbers.                                    *)
(***************************************************************************)
EXTENDS Integers, Sequences, SequencesExt, FiniteSetsExt

CONSTANTS
  Tasks,
  Capacity, \* budget -> bytes
  Workers,  \* parser workers
  MaxBytes, \* the largest request
  Kinds     \* what tasks do: a subset of {"batch", "file", "view"}

Budgets == {"parsing", "sources"}

VARIABLES
  available, \* budget -> AdmissionState::available
  workers,   \* AdmissionState::workers of the parsing budget
  waiting,   \* budget -> tasks in order of their tickets
  at,        \* task -> where it is
  want,      \* task -> bytes it asks for
  held,      \* task -> budget -> bytes of its reservation
  working,   \* task -> whether its reservation has a worker
  cancelled  \* tasks whose caller went away

vars == <<available, workers, waiting, at, want, held, working, cancelled>>

Asking == {"batch?", "file?", "source?", "render?"}
BudgetOf(place) == IF place = "source?" THEN "sources" ELSE "parsing"
Idle == [b \in Budgets |-> 0]

Init ==
  /\ available = Capacity /\ workers = Workers
  /\ waiting = [b \in Budgets |-> <<>>]
  /\ at = [t \in Tasks |-> "idle"]
  /\ want = [t \in Tasks |-> 0]
  /\ held = [t \in Tasks |-> Idle]
  /\ working = [t \in Tasks |-> FALSE]
  /\ cancelled = {}

-----------------------------------------------------------------------------
(* Budget::reserve                                                         *)

\* Mutant: a request larger than the budget is queued as it is.
AsAsked(b, n) == n

\* "An oversized input runs alone."
Clamped(b, n) == Min({Max({n, 1}), Capacity[b]})

\* Ask in `place` and take a ticket.
Ask(t, place, n) ==
  /\ at' = [at EXCEPT ![t] = place]
  /\ want' = [want EXCEPT ![t] = Clamped(BudgetOf(place), n)]
  /\ waiting' = [waiting EXCEPT ![BudgetOf(place)] = Append(@, t)]

Granted == [p \in Asking |-> CASE p = "batch?" -> "parse"
                               [] p = "file?" -> "file"
                               [] p = "source?" -> "read"
                               [] p = "render?" -> "render"]

\* The head of the queue is admitted once there is room for it.
Admit(t) ==
  /\ at[t] \in Asking
  /\ LET b == BudgetOf(at[t]) IN
       /\ t \notin cancelled
       /\ Head(waiting[b]) = t
       /\ available[b] >= want[t]
       /\ b = "parsing" => workers > 0
       /\ waiting' = [waiting EXCEPT ![b] = Tail(@)]
       /\ available' = [available EXCEPT ![b] = @ - want[t]]
       /\ workers' = workers - IF b = "parsing" THEN 1 ELSE 0
       /\ held' = [held EXCEPT ![t][b] = want[t]]
       /\ working' = [working EXCEPT ![t] = b = "parsing"]
       /\ at' = [at EXCEPT ![t] = Granted[at[t]]]
  /\ UNCHANGED <<want, cancelled>>

\* What the task holds goes back as its reservations are dropped.
Returned(t) ==
  /\ available' = [b \in Budgets |-> available[b] + held[t][b]]
  /\ workers' = workers + IF working[t] THEN 1 ELSE 0
  /\ held' = [held EXCEPT ![t] = Idle]
  /\ working' = [working EXCEPT ![t] = FALSE]

\* Mutant: only the head of the queue looks at its cancellation.
HeadOnly(t) == Head(waiting[BudgetOf(at[t])]) = t

AnyPlace(t) == TRUE

\* Mutant: the ticket of a caller that went away stays in the queue.
StaysQueued(t) == waiting' = waiting

LeavesQueue(t) ==
  LET b == BudgetOf(at[t]) IN
  \E i \in DOMAIN waiting[b] :
    waiting[b][i] = t /\ waiting' = [waiting EXCEPT ![b] = RemoveAt(@, i)]

\* A waiter that finds itself cancelled leaves the queue, from any place in it,
\* and with the error drops what it held.
GiveUp(t) ==
  /\ at[t] \in Asking
  /\ t \in cancelled
  /\ AnyPlace(t)
  /\ LeavesQueue(t)
  /\ Returned(t)
  /\ at' = [at EXCEPT ![t] = "idle"]
  /\ cancelled' = cancelled \ {t}
  /\ UNCHANGED want

Cancel(t) ==
  /\ at[t] # "idle" /\ t \notin cancelled
  /\ cancelled' = cancelled \union {t}
  /\ UNCHANGED <<available, workers, waiting, at, want, held, working>>

-----------------------------------------------------------------------------
(* Who reserves                                                            *)

Begin(t) ==
  /\ at[t] = "idle"
  /\ \E k \in Kinds, n \in 0..MaxBytes :
       Ask(t, CASE k = "batch" -> "batch?" [] k = "file" -> "file?" [] k = "view" -> "source?", n)
  /\ UNCHANGED <<available, workers, held, working, cancelled>>

\* Mutant: the space that is kept is given back with the rest.
GivesAll(t, kept) == held[t].parsing

GivesRest(t, kept) == held[t].parsing - kept

\* The batch is parsed: its worker goes back, and the working space beyond what
\* the encoded facts need (release_worker, shrink_to).
Shrink(t) ==
  /\ at[t] = "parse"
  /\ \E kept \in 0..held[t].parsing :
       /\ held' = [held EXCEPT ![t].parsing = kept]
       /\ available' = [available EXCEPT !.parsing = @ + GivesRest(t, kept)]
  /\ workers' = workers + 1
  /\ working' = [working EXCEPT ![t] = FALSE]
  /\ at' = [at EXCEPT ![t] = "install"]
  /\ UNCHANGED <<waiting, want, cancelled>>

\* Mutant: a file that must be tried again is admitted before the batch is
\* dropped.
KeptForRetry(t) == UNCHANGED <<available, workers, held, working>>

\* "Never acquire more budget while holding another reservation."
DroppedForRetry(t) == Returned(t)

\* The batch is installed and dropped.  A file whose object a collection took
\* is indexed again on its own.
Retry(t) ==
  /\ at[t] = "install"
  /\ \E n \in 0..MaxBytes : Ask(t, "file?", n)
  /\ DroppedForRetry(t)
  /\ UNCHANGED cancelled

\* A view that was read is minified with the source still in memory.
Render(t) ==
  /\ at[t] = "read"
  /\ \E n \in 0..MaxBytes : Ask(t, "render?", n)
  /\ UNCHANGED <<available, workers, held, working, cancelled>>

\* The work ends, well or not.
End(t) ==
  /\ at[t] \in {"parse", "install", "file", "read", "render"}
  /\ Returned(t)
  /\ at' = [at EXCEPT ![t] = "idle"]
  /\ cancelled' = cancelled \ {t}
  /\ UNCHANGED <<waiting, want>>

Work(t) == Shrink(t) \/ Retry(t) \/ Render(t) \/ End(t)

Next == \E t \in Tasks : Begin(t) \/ Admit(t) \/ GiveUp(t) \/ Cancel(t) \/ Work(t)

Spec == Init /\ [][Next]_vars

-----------------------------------------------------------------------------
(* Properties                                                              *)

\* What is available of a budget is never negative and never more than it has.
TypeOK ==
  /\ \A b \in Budgets : available[b] \in 0..Capacity[b]
  /\ workers \in 0..Workers
  /\ waiting \in [Budgets -> Seq(Tasks)]
  /\ at \in [Tasks -> Asking \union {"idle", "parse", "install", "file", "read", "render"}]
  /\ want \in [Tasks -> Nat]
  /\ held \in [Tasks -> [Budgets -> Nat]]
  /\ working \in [Tasks -> BOOLEAN]
  /\ cancelled \subseteq Tasks

\* Every byte and every worker is free or in one reservation: nothing is lost
\* or handed out twice by shrinking, dropping, failing or going away.
Conserved ==
  /\ \A b \in Budgets :
       available[b] + MapThenSumSet(LAMBDA t : held[t][b], Tasks) = Capacity[b]
  /\ workers + Cardinality({t \in Tasks : working[t]}) = Workers

\* Whoever waits has one ticket, in the queue it waits in, and nobody else has.
Ticketed ==
  \A b \in Budgets :
    /\ ToSet(waiting[b]) = {t \in Tasks : at[t] \in Asking /\ BudgetOf(at[t]) = b}
    /\ IsInjective(waiting[b])
=============================================================================
