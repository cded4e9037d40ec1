--------------------------- MODULE AcquisitionGate ---------------------------
(***************************************************************************)
(* src/src/acquisition.rs: one preparation per destination, two at a time, *)
(* a memory of failures, and a shutdown that reaches everybody who waits.  *)
(*                                                                         *)
(* The permits are a count under a mutex with a condition variable; the    *)
(* stop flag is an atomic that is set and announced without that mutex.    *)
(*                                                                         *)
(* Abstracted: what a preparation downloads; the 30 seconds a failure is   *)
(* remembered end at any time.                                             *)
(***************************************************************************)
EXTENDS Integers, FiniteSets

CONSTANTS
  Callers, Identities, Versions,
  Nobody,
  Wants,    \* caller -> the destinations it may ask for
  Permits,  \* preparations that run at a time
  MaxCalls

VARIABLES
  at,       \* caller -> where it is
  call,     \* caller -> destination and version it asks for
  holder,   \* identity -> who holds its mutex
  poisoned, \* identities whose mutex saw a panic
  failure,  \* identity -> version of the remembered failure, or Nobody
  active,   \* the count of CAPACITY
  mutex,    \* who holds the mutex of CAPACITY
  asleep,   \* who waits on its condition variable
  stopped,  \* STOPPED
  stopping, \* where shutdown() is
  calls

vars == <<at, call, holder, poisoned, failure, active, mutex, asleep, stopped,
          stopping, calls>>
identities == <<holder, poisoned, failure>>
capacity == <<active, mutex, asleep>>
stop == <<stopped, stopping>>

Init ==
  /\ at = [t \in Callers |-> "idle"]
  /\ call = [t \in Callers |-> CHOOSE c \in Wants[t] \X Versions : TRUE]
  /\ holder = [i \in Identities |-> Nobody]
  /\ poisoned = {} /\ failure = [i \in Identities |-> Nobody]
  /\ active = 0 /\ mutex = Nobody /\ asleep = {}
  /\ stopped = FALSE /\ stopping = "no" /\ calls = 0

Goes(t, here, next) == at[t] = here /\ at' = [at EXCEPT ![t] = next]

Call(t) ==
  /\ calls < MaxCalls
  /\ calls' = calls + 1
  /\ \E c \in Wants[t] \X Versions : call' = [call EXCEPT ![t] = c]
  /\ Goes(t, "idle", "called")
  /\ UNCHANGED <<identities, capacity, stop>>

\* Take the mutex of the destination; a poisoned one panics.
Enter(t) ==
  LET i == call[t][1] IN
  /\ holder[i] = Nobody
  /\ IF i \in poisoned
       THEN Goes(t, "called", "idle") /\ UNCHANGED holder
       ELSE Goes(t, "called", "entered") /\ holder' = [holder EXCEPT ![i] = t]
  /\ UNCHANGED <<call, poisoned, failure, capacity, stop, calls>>

\* A failure of the same version is repeated while it is remembered; after
\* STOPPED nothing begins.
Consult(t) ==
  LET i == call[t][1] IN
  /\ IF failure[i] = call[t][2] \/ stopped
       THEN /\ Goes(t, "entered", "idle")
            /\ holder' = [holder EXCEPT ![i] = Nobody]
       ELSE Goes(t, "entered", "admission") /\ UNCHANGED holder
  /\ UNCHANGED <<call, poisoned, failure, capacity, stop, calls>>

\* Take the mutex of CAPACITY, at first or after a wait.
Lock(t) ==
  /\ mutex = Nobody /\ mutex' = t
  /\ t \notin asleep
  /\ at[t] \in {"admission", "waiting"}
  /\ at' = [at EXCEPT ![t] = "check"]
  /\ UNCHANGED <<call, identities, active, asleep, stop, calls>>

\* Mutant: only a free permit ends the wait.
FullOnly == active >= Permits

MustWait == active >= Permits /\ ~stopped

Check(t) ==
  /\ Goes(t, "check", IF MustWait THEN "sleep" ELSE "decide")
  /\ UNCHANGED <<call, identities, capacity, stop, calls>>

\* Condvar::wait gives the mutex up and sleeps in one step.
Sleep(t) ==
  /\ Goes(t, "sleep", "waiting")
  /\ mutex' = Nobody /\ asleep' = asleep \union {t}
  /\ UNCHANGED <<call, identities, active, stop, calls>>

\* Leave with a failure: it is remembered and the destination is let go.
Failed(t) ==
  /\ holder' = [holder EXCEPT ![call[t][1]] = Nobody]
  /\ failure' = [failure EXCEPT ![call[t][1]] = call[t][2]]
  /\ UNCHANGED poisoned

Decide(t) ==
  /\ mutex' = Nobody
  /\ IF stopped
       THEN Goes(t, "decide", "idle") /\ Failed(t) /\ UNCHANGED active
       ELSE Goes(t, "decide", "prepare") /\ active' = active + 1 /\ UNCHANGED identities
  /\ UNCHANGED <<call, asleep, stop, calls>>

\* The preparation ends in success, an error or a panic; the permit is dropped
\* in each case.
Prepare(t) ==
  /\ at[t] = "prepare"
  /\ \E outcome \in {"success", "failure", "panic"} :
       at' = [at EXCEPT ![t] = outcome]
  /\ UNCHANGED <<call, identities, capacity, stop, calls>>

Ended == {"success", "failure", "panic"}
Announcing == [success |-> "succeeded", failure |-> "failed", panic |-> "panicked"]
Outcome(place) == CHOOSE o \in Ended : place = Announcing[o]

\* Mutant: the permit is not counted back when the preparation panics.
ReturnsUnlessPanic(t) == active' = active - IF at[t] = "panic" THEN 0 ELSE 1

ReturnsPermit(t) == active' = active - 1

Release(t) ==
  /\ at[t] \in Ended
  /\ mutex = Nobody
  /\ ReturnsPermit(t)
  /\ at' = [at EXCEPT ![t] = Announcing[at[t]]]
  /\ UNCHANGED <<call, identities, mutex, asleep, stop, calls>>

\* notify_one, then what became of the preparation is remembered.
Notify(t) ==
  /\ \E o \in Ended : at[t] = Announcing[o]
  /\ IF asleep = {} THEN UNCHANGED asleep
                    ELSE \E u \in asleep : asleep' = asleep \ {u}
  /\ at' = [at EXCEPT ![t] = "idle"]
  /\ holder' = [holder EXCEPT ![call[t][1]] = Nobody]
  /\ CASE Outcome(at[t]) = "success" ->
            /\ failure' = [failure EXCEPT ![call[t][1]] = Nobody]
            /\ UNCHANGED poisoned
       [] Outcome(at[t]) = "failure" -> Failed(t)
       [] Outcome(at[t]) = "panic" ->
            /\ poisoned' = poisoned \union {call[t][1]}
            /\ UNCHANGED failure
  /\ UNCHANGED <<call, active, mutex, stop, calls>>

Forget ==
  /\ \E i \in Identities :
       /\ failure[i] # Nobody /\ holder[i] = Nobody
       /\ failure' = [failure EXCEPT ![i] = Nobody]
  /\ UNCHANGED <<at, call, holder, poisoned, capacity, stop, calls>>

\* shutdown(): the flag, then notify_all, with no mutex held.
Stop ==
  /\ stopping = "no"
  /\ stopped' = TRUE /\ stopping' = "announce"
  /\ UNCHANGED <<at, call, identities, capacity, calls>>

Announce ==
  /\ stopping = "announce"
  /\ asleep' = {} /\ stopping' = "done"
  /\ UNCHANGED <<at, call, identities, active, mutex, stopped, calls>>

CallerStep(t) ==
  \/ Enter(t) \/ Consult(t) \/ Lock(t) \/ Check(t) \/ Sleep(t) \/ Decide(t)
  \/ Prepare(t) \/ Release(t) \/ Notify(t)

Next ==
  \/ \E t \in Callers : Call(t) \/ CallerStep(t)
  \/ Forget \/ Stop \/ Announce

Spec == Init /\ [][Next]_vars

-----------------------------------------------------------------------------
(* Properties                                                              *)

TypeOK ==
  /\ \A t \in Callers :
       at[t] \in {"idle", "called", "entered", "admission", "check", "sleep", "waiting",
                  "decide", "prepare"} \union Ended \union {Announcing[o] : o \in Ended}
  /\ call \in [Callers -> Identities \X Versions]
  /\ holder \in [Identities -> Callers \union {Nobody}]
  /\ poisoned \subseteq Identities
  /\ failure \in [Identities -> Versions \union {Nobody}]
  /\ active \in Nat /\ mutex \in Callers \union {Nobody}
  /\ asleep \subseteq Callers
  /\ stopped \in BOOLEAN /\ stopping \in {"no", "announce", "done"}

\* The permits that are counted are those that are held, and never more than
\* there are: errors and panics return theirs.
PermitsKept ==
  /\ active = Cardinality({t \in Callers : at[t] \in {"prepare"} \union Ended})
  /\ active <= Permits
=============================================================================
