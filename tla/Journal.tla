------------------------------- MODULE Journal -------------------------------
(***************************************************************************)
(* src/src/telemetry/journal.rs (and the recorder's queue in telemetry.rs):*)
(* the monitoring journal.                                                 *)
(*                                                                         *)
(* Requests queue the operations they start and finish.  A writer thread   *)
(* keeps the active ones in a snapshot file and appends the finished ones  *)
(* to a journal file of the day they started on; it repacks old days.      *)
(* Another process exports the journal, and resumes at its last position.  *)
(*                                                                         *)
(* Abstracted: a frame is a sequence of events that is complete or torn;   *)
(* an event is an operation and how it ended; a summary names the          *)
(* operations it counts; a position is a number of frames, and an exporter *)
(* has the frames before it.  What a running operation reports meanwhile,  *)
(* disk samples, older formats and the byte bounds are left out.           *)
(***************************************************************************)
EXTENDS Integers, Sequences, FiniteSets, SequencesExt

CONSTANTS
  Ops, None,
  MaxDays,     \* days that pass
  Retain,      \* RETAIN_DAYS
  MaxActive,   \* MAX_ACTIVE
  MaxQueue,    \* messages in the channel
  Limits       \* the circumstances a journal may be in

Days == 1 .. MaxDays
Faults == {"append", "truncate", "snapshot"}

VARIABLES
  limits,    \* what may happen to this journal: the operations and days there
             \* are, its crashes and exports, and the writes that may fail
  today,
  op,        \* operation -> "new", "running" or "over"
  day,       \* operation -> day it started on
  queue,     \* messages for the writer
  dropped,   \* the recorder's gaps the writer has not seen
  at,        \* writer: "down", "opening", "idle" or "flush"
  mem,       \* its snapshot: gaps, active and unknown operations
  shared,    \* shared_gaps: the gaps it has agreed on with the recorder
  opened,    \* the gaps of the snapshot it has opened
  pending,   \* day -> events to append
  prepared,  \* days it has appended to
  packing,   \* the day it repacks: position and events kept so far
  snap,      \* the snapshot on disk
  file,      \* day -> None, or generation and frames
  cursor,    \* day -> the exporter's position
  got,       \* day -> frames the exporter's reader keeps of it
  exporting, \* None, or the active operations and the days left to read
  shown,     \* operations the last export reported active
  crashes, failures, exports

requests == <<today, op, day>>
channel == <<queue, dropped>>
gaps == <<shared, opened>>
writer == <<at, mem, gaps, pending, prepared, packing>>
disk == <<snap, file>>
reader == <<cursor, got, exporting, shown, exports>>
trouble == <<limits, crashes, failures>>
vars == <<requests, channel, writer, disk, reader, trouble>>

\* An operation ended, or a rollup counted it.
Statuses == {"success", "unfinished", "counted"}
Happened == Ops \X Statuses
Frames == [ok : BOOLEAN, events : Seq(Happened)]

\* What the limits are made of
Circumstances == [ops : SUBSET Ops, days : Nat, crashes : Nat, failures : Nat,
                  exports : Nat, faults : SUBSET Faults]

NoSnapshot == [gaps |-> 0, active |-> {}, unknown |-> {}]
NoEvents == [d \in Days |-> <<>>]

Init ==
  /\ limits \in Limits /\ today = 1
  /\ op = [o \in Ops |-> "new"] /\ day = [o \in Ops |-> 1]
  /\ queue = <<>> /\ dropped = 0
  /\ at = "down" /\ mem = NoSnapshot /\ shared = 0 /\ opened = 0
  /\ pending = NoEvents /\ prepared = {} /\ packing = None
  /\ snap = NoSnapshot /\ file = [d \in Days |-> None]
  /\ cursor = [d \in Days |-> None] /\ got = NoEvents /\ exporting = None /\ shown = {}
  /\ crashes = 0 /\ failures = 0 /\ exports = 0

Midnight ==
  /\ today + 1 \in Days /\ today < limits.days /\ today' = today + 1
  /\ UNCHANGED <<op, day, channel, writer, disk, reader, trouble>>

-----------------------------------------------------------------------------
(* Frames                                                                  *)

\* The frames before the first torn one.
Complete(frames) ==
  IF \E i \in DOMAIN frames : ~frames[i].ok
    THEN SubSeq(frames, 1, (CHOOSE i \in DOMAIN frames :
                              ~frames[i].ok /\ \A k \in 1 .. (i - 1) : frames[k].ok) - 1)
    ELSE frames

\* read_frame() ends at a torn last frame, and fails at one before the tail.
Stranded(d) ==
  file[d] # None /\ Len(Complete(file[d].frames)) + 1 < Len(file[d].frames)

Frame(events) == [ok |-> TRUE, events |-> events]
Torn == [ok |-> FALSE, events |-> <<>>]

Events(frames) == UNION {ToSet(frames[i].events) : i \in DOMAIN frames}
Named(frames) == {e[1] : e \in Events(frames)}

Journaled(d) == IF file[d] = None THEN <<>> ELSE Complete(file[d].frames)
Recorded(d) == {e[1] : e \in {x \in Events(Journaled(d)) : x[2] # "counted"}}

-----------------------------------------------------------------------------
(* The recorder                                                            *)

\* There is a recorder once the journal is open.
Recording == at \in {"idle", "flush"}

\* send(): a message the channel has no room for is counted.
Send(o, over) ==
  IF Len(queue) < MaxQueue
    THEN queue' = Append(queue, [op |-> o, over |-> over]) /\ UNCHANGED dropped
    ELSE dropped' = dropped + 1 /\ UNCHANGED queue

Start(o) ==
  /\ Recording /\ op[o] = "new" /\ o \in limits.ops
  /\ op' = [op EXCEPT ![o] = "running"]
  /\ day' = [day EXCEPT ![o] = today]
  /\ Send(o, FALSE)
  /\ UNCHANGED <<today, writer, disk, reader, trouble>>

Finish(o) ==
  /\ Recording /\ op[o] = "running"
  /\ op' = [op EXCEPT ![o] = "over"]
  /\ Send(o, TRUE)
  /\ UNCHANGED <<today, day, writer, disk, reader, trouble>>

-----------------------------------------------------------------------------
(* The writer                                                              *)

\* Mutant: the operations of the old snapshot are all unfinished.
AllActive == snap.active

\* Those of the snapshot whose end was not recorded.
Unfinished == {o \in snap.active : o \notin Recorded(day[o])}

\* Writer::open(), up to its flush.
Open ==
  /\ at = "down" /\ \A d \in Days : ~Stranded(d)
  /\ at' = "opening"
  /\ opened' = snap.gaps /\ UNCHANGED shared
  /\ mem' = [gaps |-> snap.gaps, active |-> {}, unknown |-> {}]
  /\ pending' = [d \in Days |->
       SetToSeq({<<o, "unfinished">> : o \in {u \in Unfinished : day[u] = d}})]
  /\ prepared' = {} /\ packing' = None
  /\ queue' = <<>> /\ dropped' = 0
  /\ UNCHANGED <<requests, disk, reader, trouble>>

\* An active operation is kept while there is room; those that are unknown make
\* room for it.
Activate(m, o) ==
  IF Cardinality(m.active) < MaxActive THEN {[m EXCEPT !.active = @ \union {o}]}
  ELSE IF m.unknown = {} THEN {[m EXCEPT !.gaps = @ + 1]}
  ELSE {[m EXCEPT !.active = (@ \ {u}) \union {o}, !.unknown = @ \ {u}] : u \in m.unknown}

\* accept()
Accept ==
  /\ at = "idle" /\ queue # <<>>
  /\ LET m == Head(queue)
         o == m.op IN
     IF m.over
       THEN /\ mem' = [mem EXCEPT !.active = @ \ {o}, !.unknown = @ \ {o}]
            /\ pending' = [pending EXCEPT ![day[o]] = Append(@, <<o, "success">>)]
       ELSE mem' \in Activate(mem, o) /\ UNCHANGED pending
  /\ queue' = Tail(queue)
  /\ UNCHANGED <<requests, dropped, at, gaps, prepared, packing, disk, reader, trouble>>

\* The recorder and the writer agree on their gaps: what was active may have
\* ended unseen.  A message that is dropped meanwhile is counted, and no more.
Count ==
  /\ at = "idle" /\ packing = None
  /\ dropped > 0 \/ mem.gaps > shared
  /\ shared' = mem.gaps + dropped /\ dropped' = 0
  /\ \/ mem' = [mem EXCEPT !.gaps = @ + dropped, !.unknown = mem.active]
     \/ mem.gaps = shared /\ mem' = [mem EXCEPT !.gaps = @ + dropped]
  /\ UNCHANGED <<requests, queue, at, opened, pending, prepared, packing, disk, reader, trouble>>

\* flush() is due.
Flush ==
  /\ at = "idle" /\ at' = "flush"
  /\ pending # NoEvents \/ mem # snap
  /\ UNCHANGED <<requests, channel, mem, gaps, pending, prepared, packing, disk, reader, trouble>>

Next4(gen) == <<gen[1] + 1, 0>>

\* The first append to a day makes a packed day eligible again, and cuts off
\* a torn tail, which counts.
Prepare(d) ==
  LET f == IF file[d] = None THEN [gen |-> <<0, 0>>, frames |-> <<>>] ELSE file[d]
      kept == Complete(f.frames)
      tail == kept # f.frames
      fresh == IF f.gen[2] # 0 THEN Next4(f.gen) ELSE f.gen IN
  IF d \in prepared THEN [gen |-> f.gen, frames |-> f.frames, tail |-> 0]
  ELSE [gen |-> IF tail THEN Next4(fresh) ELSE fresh, frames |-> kept,
        tail |-> IF tail THEN 1 ELSE 0]

\* Mutant: the tail is looked at only when the day is created.
AsItIs(d) ==
  LET f == IF file[d] = None THEN [gen |-> <<0, 0>>, frames |-> <<>>] ELSE file[d] IN
  [gen |-> IF f.gen[2] # 0 THEN Next4(f.gen) ELSE f.gen, frames |-> f.frames, tail |-> 0]

Prepared(d) == Prepare(d)

Written(d, added) == [gen |-> Prepared(d).gen, frames |-> Prepared(d).frames \o added]

Fails(write) ==
  /\ write \subseteq limits.faults /\ failures < limits.failures
  /\ failures' = failures + 1

Flushing == at \in {"opening", "flush"}

\* append() of one day: it is written, or fails and is cut off again; the
\* process may die within it.
AppendDay(d) ==
  /\ Flushing /\ pending[d] # <<>> /\ \A c \in Days : c < d => pending[c] = <<>>
  /\ pending' = [pending EXCEPT ![d] = <<>>]
  /\ LET lost == Len(pending[d]) IN
     IF d \notin prepared /\ Stranded(d)
       THEN mem' = [mem EXCEPT !.gaps = @ + lost] /\ UNCHANGED <<file, prepared, failures>>
       ELSE /\ prepared' = prepared \union {d}
            /\ \/ /\ file' = [file EXCEPT ![d] = Written(d, <<Frame(pending[d])>>)]
                  /\ mem' = [mem EXCEPT !.gaps = @ + Prepared(d).tail]
                  /\ UNCHANGED failures
               \/ /\ Fails({"append"})
                  /\ mem' = [mem EXCEPT !.gaps = @ + Prepared(d).tail + lost]
                  /\ file' = [file EXCEPT ![d] = Written(d, <<>>)]
               \/ /\ Fails({"append", "truncate"})  \* set_len() as well
                  /\ mem' = [mem EXCEPT !.gaps = @ + Prepared(d).tail + lost]
                  /\ file' = [file EXCEPT ![d] = Written(d, <<Torn>>)]
  /\ UNCHANGED <<requests, channel, at, gaps, packing, snap, reader, limits, crashes>>

\* Mutant: the snapshot is written before the frames.
AtOnce == TRUE

\* The frames of a flush precede its snapshot.
Appended == pending = NoEvents

\* The snapshot is replaced.  The first one opens the journal.
Snapshot ==
  /\ Flushing /\ Appended
  /\ at' = "idle" /\ snap' = mem
  /\ shared' = IF at = "opening" THEN mem.gaps ELSE shared
  /\ UNCHANGED <<requests, channel, mem, opened, pending, prepared, packing, file, reader,
                 trouble>>

\* Its write fails: this counts, but within a repacking, which it ends; and a
\* journal is not opened without it.
SnapshotFails ==
  /\ Flushing /\ Appended /\ Fails({"snapshot"})
  /\ IF at = "opening" THEN at' = "down" ELSE at' = "idle"
  /\ mem' = IF at = "opening" THEN NoSnapshot
            ELSE [mem EXCEPT !.gaps = @ + IF packing = None THEN 1 ELSE 0]
  /\ packing' = None
  /\ prepared' = IF at = "opening" THEN {} ELSE prepared
  /\ UNCHANGED <<requests, channel, gaps, pending, disk, reader, limits, crashes>>

\* retain_one(): a past day that none of the active operations started on.
Level(d) == IF d + Retain < today THEN 2 ELSE 1
Retained(d) ==
  /\ d < today /\ file[d] # None /\ \A o \in mem.active : day[o] # d
  /\ file[d].gen[2] < Level(d)

Pack(d) ==
  /\ at = "idle" /\ packing = None
  /\ Retained(d) /\ \A c \in Days : c < d => ~Retained(c)
  /\ packing' = [day |-> d, gen |-> <<file[d].gen[1], Level(d)>>, next |-> 1, kept |-> <<>>]
  /\ UNCHANGED <<requests, channel, at, mem, gaps, pending, prepared, disk, reader, trouble>>

\* Mutant: a rollup drops what it counts.
Dropped(events) ==
  SelectSeq(events, LAMBDA e : ~(packing.gen[2] = 2 /\ e[2] = "success"))

\* A rollup keeps a success only in a summary.
Rolled(events) ==
  [i \in DOMAIN events |-> IF packing.gen[2] = 2 /\ events[i][2] = "success"
                             THEN <<events[i][1], "counted">> ELSE events[i]]

\* compact() reads one frame; between two, the writer accepts and flushes.
PackFrame ==
  /\ at = "idle" /\ packing # None
  /\ LET f == file[packing.day].frames IN
     /\ packing.next <= Len(Complete(f))
     /\ packing' = [packing EXCEPT !.next = @ + 1,
                      !.kept = @ \o Rolled(f[packing.next].events)]
  /\ UNCHANGED <<requests, channel, at, mem, gaps, pending, prepared, disk, reader, trouble>>

\* The new file replaces the day, unless a torn frame lies before its tail.
PackEnd ==
  /\ at = "idle" /\ packing # None
  /\ LET d == packing.day IN
     /\ packing.next > Len(Complete(file[d].frames))
     /\ IF Stranded(d)
          THEN UNCHANGED <<mem, prepared, file>>
          ELSE /\ file' = [file EXCEPT ![d] = [gen |-> packing.gen,
                    frames |-> IF packing.kept = <<>> THEN <<>> ELSE <<Frame(packing.kept)>>]]
               /\ prepared' = prepared \ {d}
               /\ mem' = [mem EXCEPT !.gaps = @ +
                            IF Complete(file[d].frames) # file[d].frames THEN 1 ELSE 0]
  /\ packing' = None
  /\ UNCHANGED <<requests, channel, at, gaps, pending, snap, reader, trouble>>

\* The process dies, perhaps within an append; its operations die with it.
Crash ==
  /\ at # "down" /\ crashes < limits.crashes
  /\ crashes' = crashes + 1
  /\ \/ UNCHANGED file
     \/ \E d \in Days :
          /\ Flushing /\ pending[d] # <<>> /\ \A c \in Days : c < d => pending[c] = <<>>
          /\ d \in prepared \/ ~Stranded(d)
          /\ file' = [file EXCEPT ![d] = Written(d, <<Torn>>)]
  /\ at' = "down" /\ queue' = <<>> /\ dropped' = 0
  /\ mem' = NoSnapshot /\ pending' = NoEvents /\ prepared' = {} /\ packing' = None
  /\ op' = [o \in Ops |-> IF op[o] = "running" THEN "over" ELSE op[o]]
  /\ UNCHANGED <<limits, today, day, gaps, snap, reader, failures>>

-----------------------------------------------------------------------------
(* The exporter                                                            *)

\* export() reads the snapshot before the days.
Export ==
  /\ exporting = None /\ exports < limits.exports
  /\ exports' = exports + 1
  /\ exporting' = [active |-> snap.active, gaps |-> snap.gaps, next |-> 1,
                   due |-> shown \union UNION {Recorded(d) : d \in Days}]
  /\ shown' = snap.active
  /\ UNCHANGED <<requests, channel, writer, disk, cursor, got, trouble>>

\* Mutant: a position is kept whatever became of the file.
AnyGeneration(d) == cursor[d] # None

\* The position holds while the generation does.
Resumes(d) == cursor[d] # None /\ cursor[d].gen = file[d].gen

\* One day is read from the position, or from its start, and then replaced; a
\* page may end after any frame.
ExportDay(d) ==
  /\ exporting # None /\ exporting.next = d /\ file[d] # None /\ ~Stranded(d)
  /\ LET from == IF Resumes(d) THEN cursor[d].next ELSE 1
         all == Complete(file[d].frames)
         kept == IF Resumes(d) THEN got[d] ELSE <<>> IN
     \E last \in (from - 1) .. Len(all) :
       /\ last = Len(all) \/ last >= from
       /\ cursor' = [cursor EXCEPT ![d] = [gen |-> file[d].gen, next |-> last + 1]]
       /\ got' = [got EXCEPT ![d] = kept \o SubSeq(all, from, last)]
       /\ exporting' = IF last = Len(all) THEN [exporting EXCEPT !.next = d + 1] ELSE None
  /\ UNCHANGED <<requests, channel, writer, disk, shown, exports, trouble>>

SkipDay(d) ==
  /\ exporting # None /\ exporting.next = d /\ file[d] = None
  /\ exporting' = [exporting EXCEPT !.next = d + 1]
  /\ UNCHANGED <<requests, channel, writer, disk, cursor, got, shown, exports, trouble>>

\* The export ends, or fails, which leaves the reader its old cursor.
ExportEnd ==
  /\ exporting # None
  /\ exporting.next \in Days => Stranded(exporting.next)
  /\ exporting' = None
  /\ UNCHANGED <<requests, channel, writer, disk, cursor, got, shown, exports, trouble>>

-----------------------------------------------------------------------------
Next ==
  \/ Midnight \/ Open \/ Accept \/ Count \/ Flush \/ Snapshot \/ SnapshotFails
  \/ PackFrame \/ PackEnd \/ Crash
  \/ \E o \in Ops : Start(o) \/ Finish(o)
  \/ \E d \in Days : AppendDay(d) \/ Pack(d) \/ ExportDay(d) \/ SkipDay(d)
  \/ Export \/ ExportEnd

Spec == Init /\ [][Next]_vars

-----------------------------------------------------------------------------
(* Properties                                                              *)

TypeOK ==
  /\ limits \in Circumstances /\ today \in Days
  /\ op \in [Ops -> {"new", "running", "over"}] /\ day \in [Ops -> Days]
  /\ queue \in Seq([op : Ops, over : BOOLEAN]) /\ Len(queue) <= MaxQueue /\ dropped \in Nat
  /\ at \in {"down", "opening", "idle", "flush"} /\ prepared \subseteq Days
  /\ {shared, opened} \subseteq Nat
  /\ \A s \in {mem, snap} : s.gaps \in Nat /\ s.unknown \subseteq s.active /\ s.active \subseteq Ops
  /\ \A d \in Days : ToSet(pending[d]) \subseteq Happened
                     /\ Events(got[d]) \subseteq Happened
                     /\ Events(Journaled(d)) \subseteq Happened

\* No day gets old enough to be rolled up.
NeverRolledUp == limits.days <= Retain + 1

\* However the process died, an operation is recorded once: an operation whose
\* end was journaled is not reported unfinished after a restart as well.  This
\* does not hold where the days are rolled up: a summary names nothing.
Once(frames) ==
  \A i, j \in DOMAIN frames :
    \A k \in DOMAIN frames[i].events, l \in DOMAIN frames[j].events :
      frames[i].events[k][1] = frames[j].events[l][1] => i = j /\ k = l
RecordedOnce == NeverRolledUp => \A d \in Days : Once(Journaled(d))

\* The writes that fail can be undone.
Undone == "truncate" \notin limits.faults

\* An operation leaves the snapshot on disk only when its end is in the journal
\* or the gaps have grown since the journal was opened: an operation may make
\* room once anything is known to be missing.
Accounted ==
  Undone => \A o \in snap.active \ snap'.active :
    o \in Named(Journaled(day[o])') \/ snap'.gaps > opened
NeverForgotten == [][Accounted]_vars

\* Repacking keeps every event of the day, those that arrive meanwhile too.
KeepsEvents == \A d \in Days : Named(Journaled(d)) \subseteq Named(Journaled(d)')
PackingKeeps == [][KeepsEvents]_vars

\* The generation of a day tells its contents: with crashes or days that are
\* rolled up, a day that is packed while it is written to can get one twice.
Distinguished == Undone /\ NeverRolledUp /\ limits.crashes = 0

\* A reader that resumes at its cursor has what lies before the position: it
\* reads only new frames, and misses none.
CursorTrue ==
  Distinguished => \A d \in Days : file[d] # None /\ Resumes(d) =>
    /\ cursor[d].next <= Len(file[d].frames) + 1
    /\ got[d] = SubSeq(file[d].frames, 1, cursor[d].next - 1)

\* A whole export has every operation the last one reported active and every
\* one recorded when it began: none is in neither place while it moves from the
\* snapshot to its day.
WholeExport ==
  Distinguished /\ exporting # None /\ exporting.next \notin Days /\ exporting.gaps = 0 =>
    \A o \in exporting.due \ exporting.active : \E d \in Days : o \in Named(got[d])

\* A partial frame is never left before a later one.
NoneStranded == Undone => \A d \in Days : ~Stranded(d)
=============================================================================
