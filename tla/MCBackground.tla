----------------------------- MODULE MCBackground -----------------------------
(***************************************************************************)
(* Small instances of the components that run beside requests: four        *)
(* telemetry journals, the directory watches, the maintenance loop, the    *)
(* memory budget and the default branch of a repository; and publishers of *)
(* two workspaces, whose batches meet in one group.  They share no state:  *)
(* one of them runs in a behaviour, `part`, and the others stay in an      *)
(* initial state.                                                          *)
(***************************************************************************)
EXTENDS Background, TLC

CONSTANTS
  o1, o2, o3, t1, t2, t3, m1, m2, m3

VARIABLES
  part,   \* the component that runs
  \* GroupCommit
  db, tx, groupWaiting, leader, stage, group, outcome, applied, put, result,
  asleep, groupPc, plan, batch, single, expected, encoded, answer, changed,
  faults, others

\* Watch: one reader of both directories, one of the first.
FileDir(f) == IF f = "f1" THEN "d1" ELSE "d2"
ReaderDirs(r) == IF r = "r1" THEN {"d1", "d2"} ELSE {"d1"}

\* Groups: single files of three publishers in two workspaces.
ThreeScopes == [p1 |-> "s1", p2 |-> "s1", p3 |-> "s2"]
SingleFiles == [p1 |-> {"f1"}, p2 |-> {"f2"}, p3 |-> {"f3"}]
OneObject == [p \in {"p1", "p2", "p3"} |-> [f \in {"f1", "f2", "f3"} |-> "object"]]

TwoAndOne == [b \in {"parsing", "sources"} |-> IF b = "parsing" THEN 2 ELSE 1]

\* Journals with a crash, with two of them, with exports of packed days, and
\* with days rolled up
Crashing == [ops |-> {o1, o2, o3}, days |-> 1, crashes |-> 1, failures |-> 1,
             exports |-> 0, faults |-> {"append", "snapshot"}]
Restarting == [Crashing EXCEPT !.ops = {o1, o2}, !.crashes = 2]
Exporting == [ops |-> {o1, o2}, days |-> 2, crashes |-> 0, failures |-> 0,
              exports |-> 2, faults |-> {}]
RollingUp == [ops |-> {o1, o2}, days |-> 3, crashes |-> 1, failures |-> 1,
              exports |-> 0, faults |-> {"append", "truncate", "snapshot"}]
Journals == {Crashing, Restarting, Exporting, RollingUp}

Groups == INSTANCE GroupCommit WITH
  Publishers <- {"p1", "p2", "p3"}, Scopes <- {"s1", "s2"}, Files <- {"f1",
  "f2", "f3"}, Objects <- {"object"}, NoObject <- None, NoOne <- None, NoTx <-
  None, ScopeOf <- ThreeScopes, Want <- OneObject, Work <- SingleFiles, Limit
  <- 2, MaxFaults <- 1, MaxOthers <- 1, waiting <- groupWaiting, pc <- groupPc

groupsVars == <<db, tx, groupWaiting, leader, stage, group, outcome, applied,
  put, result, asleep, groupPc, plan, batch, single, expected, encoded, answer,
  changed, faults, others>>
parts == <<part, journalVars, watchVars, loopVars, memoryVars, groupsVars, vars>>

\* The other components stay in an initial state.  The groups start from a
\* second workspace with nothing; the first one's publishers are alike.
PartsInit ==
  /\ part \in {"journal", "watch", "loop", "memory", "groups", "default"}
  /\ Log!Init
  /\ part # "journal" => limits = Crashing
  /\ Watch!Init
  /\ Loop!Init
  /\ Memory!Init
  /\ Groups!Init
  /\ part # "groups" =>
       db = CHOOSE d \in Groups!Databases :
              /\ d.live = {}
              /\ \A f \in {"f1", "f2", "f3"} : d.bound[f] = None
              /\ \A s \in {"s1", "s2"} : d.phase[s] = "clean"
  /\ part = "groups" =>
       /\ db.bound["f3"] = None
       /\ db.bound["f2"] # None => db.bound["f1"] # None
  /\ Init
  /\ part # "default" => remote = m1

PartsNext ==
  /\ UNCHANGED part
  /\ \/ part = "journal" /\ Log!Next
        /\ UNCHANGED <<watchVars, loopVars, memoryVars, groupsVars, vars>>
     \/ part = "watch" /\ Watch!Next
        /\ UNCHANGED <<journalVars, loopVars, memoryVars, groupsVars, vars>>
     \/ part = "loop" /\ Loop!Next
        /\ UNCHANGED <<journalVars, watchVars, memoryVars, groupsVars, vars>>
     \/ part = "memory" /\ Memory!Next
        /\ UNCHANGED <<journalVars, watchVars, loopVars, groupsVars, vars>>
     \/ part = "groups" /\ Groups!Next
        /\ UNCHANGED <<journalVars, watchVars, loopVars, memoryVars, vars>>
     \/ part = "default" /\ Next
        /\ UNCHANGED <<journalVars, watchVars, loopVars, memoryVars, groupsVars>>

PartsSpec == PartsInit /\ [][PartsNext]_parts

Symmetry == Permutations({o1, o2})

-----------------------------------------------------------------------------
\* Neither a neighbour's failure nor one disturbance of its own costs a file
\* its result: a fault, or another publisher of the same file.  Bisection and
\* the fresh retry need two to give up.
GroupsResilient == Groups!Resilient

\* What a publisher is told of a file that only it publishes is what the
\* database holds: the new object, or untouched.
GroupsAnswersTrue == Groups!AnswersTrue

\* Groups: what one workspace does costs the batches of another nothing, and
\* a success is answered only for what was committed.
GroupsTrue == GroupsResilient /\ GroupsAnswersTrue
=============================================================================
