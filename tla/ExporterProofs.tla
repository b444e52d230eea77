--------------------------- MODULE ExporterProofs ---------------------------
(***************************************************************************)
(* What TLAPS proves of module Exporter, for every number of exporters,    *)
(* versions, destinations, events and failures: trimming the log never     *)
(* takes an event from an exporter that is under way, a paused or failed   *)
(* exporter moves only by an operation of its operator, and no stored      *)
(* offset goes back but to zero.                                           *)
(***************************************************************************)
EXTENDS Exporter, TLAPS

\* A leaf that names no prover is proved by Zenon.
USE Zenon

-----------------------------------------------------------------------------
(***************************************************************************)
(* The inductive invariant: where every cursor is, relative to the floor.  *)
(***************************************************************************)
Rec == [state : States, offset : Nat, dest : Dests]
Reading == {"events", "version"}
Copying == {"snapshot", "copy", "reconcile"}

RecordsIn(table) == \A n \in DOMAIN table : table[n] \in Rec /\ table[n].offset <= Len(log)

\* The records are records, and point into the log.
Shape ==
    /\ log \in Seq([kind : Kinds, key : Keys])
    /\ RecordsIn(exporters) /\ RecordsIn(todo)
    /\ floor \in Nat /\ at \in Nat /\ until \in Nat /\ keep \in Nat
    /\ floor <= Len(log) /\ keep <= Len(log)

\* A worker that reads events is above the floor, one that copies ends above
\* it, and one about to trim the log takes nothing that is needed.
Place ==
    /\ pc \in Reading => floor <= at /\ at < until /\ until <= Len(log)
    /\ pc \in Copying => at <= until /\ floor <= until /\ until <= Len(log)
    /\ pc = "prune" => \A n \in DOMAIN exporters : exporters[n].offset = 0 \/ exporters[n].offset >= keep

IInv == Shape /\ Place /\ TrimmedOnlyAtZero

LEMMA Initially == Init => IInv
BY SMT DEF Init, IInv, Shape, Place, TrimmedOnlyAtZero, RecordsIn, NoExporters, Reading, Copying

(***************************************************************************)
(* exporter_state.                                                         *)
(***************************************************************************)
\* What writing a record from offset "from" to offset "to" may do to table e.
Moved(e, from, to) ==
    /\ DOMAIN e = DOMAIN exporters
    /\ \A m \in DOMAIN exporters :
          /\ e[m] \in Rec
          /\ e[m].offset = exporters[m].offset \/ (exporters[m].offset = from /\ e[m].offset = to)
          /\ exporters[m].state \in {"PAUSED", "FAILED"} => e[m] = exporters[m]

LEMMA StateMoves ==
    ASSUME Shape, NEW STATE n, NEW STATE from, from \in Nat, NEW STATE to, to \in Nat, NEW state \in States
    PROVE  Moved(ExporterState(n, from, to, state), from, to)
<1> DEFINE e == [exporters EXCEPT ![n].offset = to, ![n].state = state]
<1>1. CASE /\ n \in DOMAIN exporters
           /\ exporters[n].offset = from
           /\ exporters[n].state \notin {"PAUSED", "FAILED"}
  <2>1. ExporterState(n, from, to, state) = e
    BY <1>1 DEF ExporterState
  <2>2. DOMAIN e = DOMAIN exporters
    OBVIOUS
  <2>3. exporters[n] \in Rec
    BY <1>1 DEF Shape, RecordsIn
  <2>4. e[n] = [exporters[n] EXCEPT !.offset = to, !.state = state]
    BY <1>1
  <2>5. e[n] \in Rec /\ e[n].offset = to
    BY <2>3, <2>4 DEF Rec
  <2>6. \A m \in DOMAIN exporters : m # n => e[m] = exporters[m]
    OBVIOUS
  <2>7. \A m \in DOMAIN exporters : exporters[m] \in Rec
    BY DEF Shape, RecordsIn
  <2> HIDE DEF e
  <2> QED  BY <1>1, <2>1, <2>2, <2>5, <2>6, <2>7 DEF Moved
<1>2. CASE ~(/\ n \in DOMAIN exporters
             /\ exporters[n].offset = from
             /\ exporters[n].state \notin {"PAUSED", "FAILED"})
  <2>1. ExporterState(n, from, to, state) = exporters
    BY <1>2 DEF ExporterState
  <2> QED  BY <2>1 DEF Moved, Shape, RecordsIn
<1> QED  BY <1>1, <1>2

-----------------------------------------------------------------------------
(***************************************************************************)
(* The steps of the worker fall into a few kinds.                          *)
(***************************************************************************)
\* No cursor moves, and the worker stays in the same part of its loop.
Quiet ==
    /\ UNCHANGED <<log, floor, exporters, todo, at, until, keep, ops>>
    /\ pc' \in Reading => pc \in Reading
    /\ pc' \in Copying => pc \in Copying
    /\ pc' # "prune"

\* The attempt ends, and its record moves from "at" to offset "to".
Ends(to) ==
    /\ UNCHANGED <<log, floor, todo, keep, ops>>
    /\ pc' = "next" /\ at' = 0 /\ until' = 0
    /\ \E state \in States : exporters' = ExporterState(job.name, at, to, state)

LEMMA HaltEnds ==
    ASSUME NEW STATE state, state \in States, Halt(state), UNCHANGED <<log, floor, ops>>
    PROVE  Ends(at)
BY DEF Halt, Leave, Ends

\* The steps inside an attempt end it or move no cursor.
LEMMA Inside ==
    ASSUME NEW fate, NEW k,
           \/ ExportReference(k) \/ ExportMode(fate) \/ ExportPost(fate) \/ ExportMirror(fate)
           \/ StartEvent \/ DeleteEvent(fate) \/ Snapshot \/ CopyVersion(k)
           \/ ReconcileMode(fate) \/ Reconcile(k, fate)
    PROVE  Quiet \/ Ends(at)
<1>Answers. ASSUME NEW STATE v, NEW STATE permanent, NEW STATE s
      PROVE  /\ PostVersion(v).is \in States \cup {"ok"}
             /\ DeleteVersion(v, permanent).is \in States \cup {"ok"}
             /\ DeleteSubject(s).is \in States \cup {"ok"}
  <2>1. NotPermitted \in States
    BY DEF NotPermitted, States
  <2>2. PostVersion(v).is \in States \cup {"ok"}
    BY <2>1 DEF PostVersion, States
  <2>3. DeleteVersion(v, permanent).is \in States \cup {"ok"}
    BY <2>1 DEF DeleteVersion, States
  <2>4. DeleteSubject(s).is \in States \cup {"ok"}
    BY <2>1 DEF DeleteSubject, States
  <2> QED  BY <2>2, <2>3, <2>4
\* A write ends the attempt or goes on with what follows it.
<1>Sends. ASSUME NEW STATE call, call.is \in States \cup {"ok"}, NEW ACTION next, Send(call, fate, next)
      PROVE  Ends(at) \/ (next /\ UNCHANGED <<log, floor, ops>>)
  <2> USE <1>Sends
  <2>1. UNCHANGED <<log, floor, ops>>
    BY DEF Send, Work, source
  <2>2. CASE fate # "answered"
    <3>1. Halt("ERROR")
      BY <2>2 DEF Send
    <3> QED  BY <2>1, <3>1, HaltEnds DEF States
  <2>3. CASE fate = "answered" /\ call.is # "ok"
    <3>1. Halt(call.is)
      BY <2>3 DEF Send
    <3> QED  BY <2>1, <2>3, <3>1, HaltEnds
  <2>4. CASE fate = "answered" /\ call.is = "ok"
    BY <2>1, <2>4 DEF Send
  <2> QED  BY <2>2, <2>3, <2>4
<1>Ensures. ASSUME NEW ACTION next, EnsureImportMode(fate, next)
      PROVE  Ends(at) \/ (next /\ UNCHANGED <<log, floor, ops>>)
  <2> USE <1>Ensures
  <2>1. UNCHANGED <<log, floor, ops>>
    BY DEF EnsureImportMode, Work, source
  <2>2. Halt("ERROR") \/ Halt("PAUSED") \/ next
    BY DEF EnsureImportMode
  <2> QED  BY <2>1, <2>2, HaltEnds DEF States
<1> USE DEF Reading, Copying
<1>1. CASE ExportReference(k)
  BY <1>1 DEF ExportReference, Busy, Work, source, Quiet
<1>2. CASE ExportMode(fate)
  <2> DEFINE next == Goto("post") /\ Stay
  <2>1. EnsureImportMode(fate, next) /\ pc \in {"version", "copy"}
    BY <1>2 DEF ExportMode, Busy
  <2>2. Ends(at) \/ (next /\ UNCHANGED <<log, floor, ops>>)
    BY <2>1, <1>Ensures
  <2> QED  BY <2>1, <2>2 DEF Stay, Quiet
<1>3. CASE ExportPost(fate)
  <2> DEFINE next == /\ IF Top.kind = "deleted" THEN Goto("mirror") ELSE Pop
                     /\ Stay /\ UNCHANGED ready
  <2>1. Send(PostVersion(Top.key), fate, next) /\ pc \in {"version", "copy"}
    BY <1>3 DEF ExportPost, Busy
  <2>2. Ends(at) \/ (next /\ UNCHANGED <<log, floor, ops>>)
    BY <2>1, <1>Sends, <1>Answers
  <2> QED  BY <2>1, <2>2 DEF Stay, Quiet
<1>4. CASE ExportMirror(fate)
  <2> DEFINE next == Pop /\ Stay /\ UNCHANGED ready
  <2>1. Send(DeleteVersion(Top.key, FALSE), fate, next) /\ pc \in {"version", "copy"}
    BY <1>4 DEF ExportMirror, Busy
  <2>2. Ends(at) \/ (next /\ UNCHANGED <<log, floor, ops>>)
    BY <2>1, <1>Sends, <1>Answers
  <2> QED  BY <2>1, <2>2 DEF Stay, Quiet
<1>5. CASE StartEvent
  BY <1>5 DEF StartEvent, Work, source, Quiet
<1>6. CASE DeleteEvent(fate)
  <2> DEFINE next == /\ pc' = "version"
                     /\ UNCHANGED <<exporters, todo, job, at, until, current, exported, stack, keep, ready>>
  <2>1. Send(DeleteVersion(Event.key, Event.kind = "absent"), fate, next) /\ pc = "events"
    BY <1>6 DEF DeleteEvent
  <2>2. Ends(at) \/ (next /\ UNCHANGED <<log, floor, ops>>)
    BY <2>1, <1>Sends, <1>Answers
  <2> QED  BY <2>1, <2>2 DEF Quiet
<1>7. CASE Snapshot
  BY <1>7 DEF Snapshot, source, Quiet
<1>8. CASE CopyVersion(k)
  BY <1>8 DEF CopyVersion, Work, source, Quiet
<1>9. CASE ReconcileMode(fate)
  <2> DEFINE next == /\ pc' = "reconcile"
                     /\ UNCHANGED <<exporters, todo, job, at, until, current, exported, stack, keep>>
  <2>1. EnsureImportMode(fate, next) /\ pc = "copy"
    BY <1>9 DEF ReconcileMode, Copied
  <2>2. Ends(at) \/ (next /\ UNCHANGED <<log, floor, ops>>)
    BY <2>1, <1>Ensures
  <2> QED  BY <2>1, <2>2 DEF Quiet
<1>10. CASE Reconcile(k, fate)
  <2> DEFINE next == /\ pc' = "copy"
                     /\ UNCHANGED <<exporters, todo, job, at, until, current, exported, stack, keep, ready>>
  <2>1. Send(DeleteSubject(k), fate, next) /\ pc = "reconcile"
    BY <1>10 DEF Reconcile
  <2>2. Ends(at) \/ (next /\ UNCHANGED <<log, floor, ops>>)
    BY <2>1, <1>Sends, <1>Answers
  <2> QED  BY <2>1, <2>2 DEF Quiet
<1> QED  BY <1>1, <1>2, <1>3, <1>4, <1>5, <1>6, <1>7, <1>8, <1>9, <1>10

-----------------------------------------------------------------------------
(***************************************************************************)
(* Preservation.                                                           *)
(***************************************************************************)
\* An operator creates a record at zero, drops one, or changes one, whose
\* offset stays or goes back to zero.
Operated ==
    \A m \in DOMAIN exporters' :
      /\ exporters'[m] \in Rec
      /\ \/ exporters'[m].offset = 0
         \/ m \in DOMAIN exporters /\ exporters'[m].offset = exporters[m].offset

LEMMA Operates ==
    ASSUME Shape, Operator
    PROVE  Operated
<1>1. \A m \in DOMAIN exporters : exporters[m] \in Rec
  BY DEF Shape, RecordsIn
<1>2. ASSUME NEW n \in Names, NEW d \in Dests, CreateExporter(n, d)
      PROVE  Operated
  <2> DEFINE new == [state |-> "RUNNING", offset |-> 0, dest |-> d]
  <2>1. new \in Rec /\ new.offset = 0
    BY DEF Rec, States
  <2> HIDE DEF new
  <2>2. exporters' = [m \in DOMAIN exporters \cup {n} |-> IF m = n THEN new ELSE exporters[m]]
    BY <1>2 DEF CreateExporter, Store, new
  <2> QED  BY <1>1, <2>1, <2>2 DEF Operated
<1>3. ASSUME NEW n \in Names, DeleteExporter(n)
      PROVE  Operated
  BY <1>1, <1>3 DEF DeleteExporter, Operated
<1>4. ASSUME NEW n \in Names, NEW op \in {"pause", "resume", "reset"}, Transition(n, op)
      PROVE  Operated
  <2> DEFINE st == CASE op = "pause" -> "PAUSED"
                     [] op = "resume" -> "RUNNING"
                     [] op = "reset" -> IF exporters[n].state = "PAUSED" THEN exporters[n].state ELSE "RUNNING"
             off == IF op = "reset" THEN 0 ELSE exporters[n].offset
             new == [exporters[n] EXCEPT !.state = st, !.offset = off]
  <2>1. n \in DOMAIN exporters /\ exporters[n] \in Rec
    BY <1>1, <1>4 DEF Transition
  <2>2. st \in States /\ off \in Nat
    BY <2>1 DEF Rec, States
  <2>3. exporters' = [m \in DOMAIN exporters \cup {n} |-> IF m = n THEN new ELSE exporters[m]]
    BY <1>4 DEF Transition, Store
  <2>4. off = 0 \/ off = exporters[n].offset
    OBVIOUS
  <2> HIDE DEF st, off
  <2>5. new \in Rec /\ new.offset = off
    BY <2>1, <2>2 DEF Rec
  <2> HIDE DEF new
  <2> QED  BY <1>1, <2>1, <2>3, <2>4, <2>5 DEF Operated
<1>5. ASSUME NEW d \in Dests, NEW m \in {"IMPORT", "READWRITE", "READONLY"}, SetDestinationMode(d, m)
      PROVE  Operated
  BY <1>1, <1>5 DEF SetDestinationMode, Operated
<1> QED  BY <1>2, <1>3, <1>4, <1>5 DEF Operator

LEMMA Inductive == IInv /\ [Next]_vars => IInv'
<1>MinOfTwo. ASSUME NEW a \in Nat, NEW b \in Nat
      PROVE  Min({a, b}) \in {a, b} /\ Min({a, b}) <= a /\ Min({a, b}) <= b
  <2>1. \E x \in {a, b} : \A y \in {a, b} : x <= y
    BY SMT
  <2> QED  BY <2>1 DEF Min
<1>MaxOfTwo. ASSUME NEW a \in Nat, NEW b \in Nat
      PROVE  Max({a, b}) = IF a >= b THEN a ELSE b
  <2> DEFINE m == IF a >= b THEN a ELSE b
  <2>1. m \in {a, b} /\ \A y \in {a, b} : m >= y
    BY SMT
  <2>2. ASSUME NEW x \in {a, b}, \A y \in {a, b} : x >= y PROVE x = m
    BY <2>2, SMT
  <2> HIDE DEF m
  <2>3. \E x \in {a, b} : \A y \in {a, b} : x >= y
    BY <2>1
  <2>4. Max({a, b}) \in {a, b} /\ \A y \in {a, b} : Max({a, b}) >= y
    BY <2>3 DEF Max
  <2>5. Max({a, b}) = m
    BY <2>2, <2>4
  <2> QED  BY <2>5 DEF m
<1>QuietKeeps. IInv /\ Quiet => IInv'
  BY DEF IInv, Shape, Place, TrimmedOnlyAtZero, RecordsIn, Quiet, Reading, Copying
\* A record that moves from "at" lands at or above the floor.
<1>EndsKeeps. ASSUME IInv, NEW STATE to, to \in Nat, to <= Len(log), floor <= to, Ends(to)
      PROVE  IInv'
  <2> USE <1>EndsKeeps
  <2>1. PICK state \in States : exporters' = ExporterState(job.name, at, to, state)
    BY DEF Ends
  <2>2. Moved(exporters', at, to)
    BY <2>1, StateMoves DEF IInv, Shape
  <2>3. UNCHANGED <<log, floor, todo, keep>> /\ pc' = "next" /\ at' = 0 /\ until' = 0
    BY DEF Ends
  <2>4. RecordsIn(exporters)' /\ RecordsIn(todo)'
    BY <2>2, <2>3 DEF IInv, Shape, RecordsIn, Moved
  <2>5. Shape'
    BY <2>3, <2>4 DEF IInv, Shape
  <2>6. TrimmedOnlyAtZero'
    <3> SUFFICES ASSUME NEW n \in DOMAIN exporters', exporters'[n].offset < floor'
                 PROVE  exporters'[n].offset = 0
      BY DEF TrimmedOnlyAtZero
    <3>1. n \in DOMAIN exporters /\ floor' = floor /\ floor \in Nat
      BY <2>2, <2>3 DEF Moved, IInv, Shape
    <3>2. exporters'[n].offset = exporters[n].offset
      BY <2>2, <3>1, SMT DEF Moved
    <3> QED  BY <3>1, <3>2 DEF IInv, TrimmedOnlyAtZero
  <2> QED  BY <2>3, <2>5, <2>6 DEF IInv, Place, Reading, Copying
\* Ending where it stands: no offset moves at all.
<1>EndsAt. IInv /\ Ends(at) => IInv'
  <2> SUFFICES ASSUME IInv, Ends(at) PROVE IInv'
    OBVIOUS
  <2>1. PICK state \in States : exporters' = ExporterState(job.name, at, at, state)
    BY DEF Ends
  <2>2. Moved(exporters', at, at)
    BY <2>1, StateMoves DEF IInv, Shape
  <2>3. UNCHANGED <<log, floor, todo, keep>> /\ pc' = "next" /\ at' = 0 /\ until' = 0
    BY DEF Ends
  <2>4. RecordsIn(exporters)' /\ RecordsIn(todo)' /\ TrimmedOnlyAtZero'
    BY <2>2, <2>3 DEF IInv, Shape, RecordsIn, Moved, TrimmedOnlyAtZero
  <2> QED  BY <2>3, <2>4 DEF IInv, Shape, Place, Reading, Copying
<1>ProgressKeeps. IInv /\ Progress => IInv'
  <2> SUFFICES ASSUME IInv, Progress PROVE IInv'
    OBVIOUS
  <2>1. /\ at \in Nat /\ until \in Nat /\ floor \in Nat /\ Len(log) \in Nat
        /\ floor <= at /\ at < until /\ until <= Len(log)
    BY SMT DEF Progress, IInv, Shape, Place, Reading
  <2>2. UNCHANGED <<log, floor, todo, keep, ops>>
    BY DEF Progress, Leave, Work, source
  <2>3. exporters' = ExporterState(job.name, at, at + 1, "RUNNING")
    BY DEF Progress
  <2>4. CASE at + 1 = until
    <3>1. Ends(at + 1)
      BY <2>2, <2>3, <2>4 DEF Progress, Leave, Ends, States
    <3> QED  BY <2>1, <3>1, <1>EndsKeeps, SMT
  <2>5. CASE at + 1 # until
    <3>1. pc' = "events" /\ at' = at + 1 /\ until' = until
      BY <2>5 DEF Progress
    <3>2. Moved(exporters', at, at + 1)
      BY <2>1, <2>3, StateMoves, SMT DEF IInv, States
    <3>3. RecordsIn(exporters)' /\ RecordsIn(todo)'
      BY <2>1, <2>2, <3>2, SMT DEF IInv, Shape, RecordsIn, Moved
    <3>4. Shape'
      BY <2>1, <2>2, <3>1, <3>3, SMT DEF IInv, Shape
    <3>5. TrimmedOnlyAtZero'
      BY <2>1, <2>2, <3>2, SMT DEF IInv, TrimmedOnlyAtZero, Moved
    <3>6. Place'
      BY <2>1, <2>2, <2>5, <3>1, SMT DEF Place, Reading, Copying
    <3> QED  BY <3>4, <3>5, <3>6 DEF IInv
  <2> QED  BY <2>4, <2>5
<1>CopyDoneKeeps. ASSUME IInv, NEW fate, CopyDone(fate)
      PROVE  IInv'
  <2> USE <1>CopyDoneKeeps
  <2>1. UNCHANGED <<log, floor, ops>> /\ pc \in Copying
    BY DEF CopyDone, Copied, Work, source, Copying
  <2>2. CASE fate = "answered"
    <3>1. Ends(until)
      BY <2>1, <2>2 DEF CopyDone, Leave, Ends, States
    <3>2. until \in Nat /\ until <= Len(log) /\ floor <= until
      BY <2>1 DEF IInv, Shape, Place
    <3> QED  BY <3>1, <3>2, <1>EndsKeeps
  <2>3. CASE fate # "answered"
    <3>1. Halt("ERROR")
      BY <2>3 DEF CopyDone
    <3>2. Ends(at)
      BY <2>1, <3>1, HaltEnds DEF States
    <3> QED  BY <3>2, <1>EndsAt
  <2> QED  BY <2>2, <2>3
<1>TakeKeeps. ASSUME IInv, NEW n \in DOMAIN todo, Take(n)
      PROVE  IInv'
  <2> USE <1>TakeKeeps
  <2> DEFINE rec == todo[n]
             copy == rec.offset < floor
             end == IF copy THEN Len(log) ELSE Min({Len(log), rec.offset + Batch})
  <2>1. rec \in Rec /\ rec.offset \in Nat /\ rec.offset <= Len(log) /\ Len(log) \in Nat /\ floor \in Nat
    BY SMT DEF IInv, Shape, RecordsIn, Rec
  <2>2. end \in Nat /\ end <= Len(log) /\ (copy => end = Len(log))
    <3>1. Batch \in Nat
      BY ExporterAssumption
    <3>2. rec.offset + Batch \in Nat
      BY <2>1, <3>1, SMT
    <3>3. /\ Min({Len(log), rec.offset + Batch}) \in {Len(log), rec.offset + Batch}
          /\ Min({Len(log), rec.offset + Batch}) <= Len(log)
      BY <2>1, <3>2, <1>MinOfTwo
    <3> QED  BY <2>1, <3>2, <3>3, SMT
  <2> HIDE DEF end
  <2>3. UNCHANGED <<log, floor, keep>> /\ pc = "next" /\ todo' = [m \in DOMAIN todo \ {n} |-> todo[m]]
    BY DEF Take, Work, source
  <2>4. Moved(exporters', rec.offset, rec.offset)
    <3>1. exporters' = exporters \/ exporters' = ExporterState(n, rec.offset, rec.offset, "RUNNING")
      BY DEF Take
    <3>2. Moved(exporters, rec.offset, rec.offset)
      BY DEF Moved, IInv, Shape, RecordsIn
    <3>3. Moved(ExporterState(n, rec.offset, rec.offset, "RUNNING"), rec.offset, rec.offset)
      BY <2>1, StateMoves DEF IInv, States
    <3> QED  BY <3>1, <3>2, <3>3
  <2>5. RecordsIn(exporters)' /\ RecordsIn(todo)' /\ TrimmedOnlyAtZero'
    BY <2>1, <2>3, <2>4 DEF IInv, Shape, RecordsIn, Moved, TrimmedOnlyAtZero
  <2>6. \/ pc' = "next" /\ at' = at /\ until' = until
        \/ copy /\ pc' = "snapshot" /\ at' = rec.offset /\ until' = end
        \/ ~copy /\ ~(end <= rec.offset) /\ pc' = "events" /\ at' = rec.offset /\ until' = end
    BY <2>3 DEF Take, end
  <2>7. Shape'
    BY <2>1, <2>2, <2>3, <2>5, <2>6 DEF IInv, Shape
  <2>8. Place'
    BY <2>1, <2>2, <2>3, <2>6, SMT DEF Place, Reading, Copying, IInv, Shape
  <2> QED  BY <2>5, <2>7, <2>8 DEF IInv
<1>FloorIsLow. ASSUME Shape, NEW m \in PruneFloor
      PROVE  /\ m \in Nat /\ m <= Len(log)
             /\ \A n \in DOMAIN exporters : exporters[n].offset >= m
  <2> USE <1>FloorIsLow
  <2> DEFINE S == {Len(log)} \cup {exporters[n].offset : n \in DOMAIN exporters}
  <2>1. S \in SUBSET Nat /\ Len(log) \in S
    BY SMT DEF Shape, RecordsIn, Rec
  <2>2. \A n \in DOMAIN exporters : exporters[n].offset \in S
    OBVIOUS
  <2>3. m \in S /\ \A o \in S : m <= o
    BY DEF PruneFloor
  <2> HIDE DEF S
  <2> QED  BY <2>1, <2>2, <2>3
<1>LoopKeeps. IInv /\ (List \/ Rest \/ PruneLog \/ Crash) => IInv'
  <2> SUFFICES ASSUME IInv, List \/ Rest \/ PruneLog \/ Crash PROVE IInv'
    OBVIOUS
  <2> USE DEF Reading, Copying
  <2>1. CASE List
    BY <2>1 DEF List, Work, source, IInv, Shape, Place, TrimmedOnlyAtZero, RecordsIn
  <2>2. CASE Rest
    <3>1. UNCHANGED <<log, floor, exporters, todo, at, until>>
      BY <2>2 DEF Rest, Work, source
    <3>2. CASE pc' = "idle" /\ keep' = keep
      BY <3>1, <3>2 DEF IInv, Shape, Place, TrimmedOnlyAtZero, RecordsIn
    <3>3. CASE pc' = "prune" /\ keep' \in PruneFloor
      <4>1. PICK m \in PruneFloor : keep' = m
        BY <3>3
      <4>2. m \in Nat /\ m <= Len(log) /\ \A n \in DOMAIN exporters : exporters[n].offset >= m
        BY <1>FloorIsLow DEF IInv
      <4> QED  BY <3>1, <3>3, <4>1, <4>2 DEF IInv, Shape, Place, TrimmedOnlyAtZero, RecordsIn
    <3> QED  BY <2>2, <3>2, <3>3 DEF Rest
  <2>3. CASE PruneLog
    <3>1. UNCHANGED <<log, exporters, todo, at, until>> /\ pc = "prune" /\ pc' = "idle" /\ keep' = 0
      BY <2>3 DEF PruneLog, Work, source
    <3>2. floor' = IF floor >= keep THEN floor ELSE keep
      BY <2>3, <1>MaxOfTwo DEF PruneLog, IInv, Shape
    <3>3. Shape' /\ Place'
      BY <3>1, <3>2, SMT DEF IInv, Shape, Place, RecordsIn
    <3>4. TrimmedOnlyAtZero'
      BY <3>1, <3>2, SMT DEF IInv, Shape, Place, RecordsIn, Rec, TrimmedOnlyAtZero
    <3> QED  BY <3>3, <3>4 DEF IInv
  <2>4. CASE Crash
    <3>1. UNCHANGED <<log, floor, exporters>>
      BY <2>4 DEF Crash
    <3>2. pc' = "idle" /\ DOMAIN todo' = {} /\ at' = 0 /\ until' = 0 /\ keep' = 0
      BY <2>4 DEF Crash, NoExporters
    <3>3. Shape'
      BY <3>1, <3>2, SMT DEF IInv, Shape, RecordsIn
    <3>4. Place' /\ TrimmedOnlyAtZero'
      BY <3>1, <3>2 DEF IInv, Place, TrimmedOnlyAtZero, Reading, Copying
    <3> QED  BY <3>3, <3>4 DEF IInv
  <2> QED  BY <2>1, <2>2, <2>3, <2>4
<1>SourceKeeps. IInv /\ (Client \/ Publish) => IInv'
  <2> SUFFICES ASSUME IInv, Client \/ Publish PROVE IInv'
    OBVIOUS
  <2>1. CASE Publish
    BY <2>1 DEF Publish, worker, IInv, Shape, Place, TrimmedOnlyAtZero, RecordsIn
  <2>2. CASE Client
    <3>1. PICK k \in Keys, kind \in Kinds : Write(k, kind)
      BY <2>2 DEF Client, Register, SoftDelete, HardDelete, Kinds
    <3>2. log' = Append(log, [kind |-> kind, key |-> k]) /\ [kind |-> kind, key |-> k] \in [kind : Kinds, key : Keys]
      BY <3>1 DEF Write
    <3>3. log' \in Seq([kind : Kinds, key : Keys]) /\ Len(log') = Len(log) + 1 /\ Len(log) \in Nat
      BY <3>2, SMT DEF IInv, Shape
    <3>4. UNCHANGED <<floor, exporters, todo, at, until, keep, pc>>
      BY <3>1 DEF Write, worker
    <3>5. Shape'
      BY <3>3, <3>4, SMT DEF IInv, Shape, RecordsIn, Rec
    <3>6. Place' /\ TrimmedOnlyAtZero'
      BY <3>3, <3>4, SMT DEF IInv, Shape, Place, TrimmedOnlyAtZero, Reading, Copying
    <3> QED  BY <3>5, <3>6 DEF IInv
  <2> QED  BY <2>1, <2>2
<1>OperatorKeeps. IInv /\ Operator => IInv'
  <2> SUFFICES ASSUME IInv, Operator PROVE IInv'
    OBVIOUS
  <2>1. UNCHANGED <<log, floor, todo, at, until, keep, pc>>
    BY DEF Operator, CreateExporter, DeleteExporter, Transition, SetDestinationMode, Operate, source, worker
  <2>2. Operated
    BY Operates DEF IInv
  <2>3. RecordsIn(exporters)' /\ RecordsIn(todo)'
    BY <2>1, <2>2, SMT DEF Operated, IInv, Shape, RecordsIn
  <2>4. TrimmedOnlyAtZero'
    BY <2>1, <2>2 DEF Operated, IInv, TrimmedOnlyAtZero
  <2>5. Place'
    BY <2>1, <2>2 DEF Operated, IInv, Place
  <2>6. Shape'
    BY <2>1, <2>3 DEF IInv, Shape
  <2> QED  BY <2>4, <2>5, <2>6 DEF IInv
<1>WorkerKeeps. IInv /\ Worker => IInv'
  <2> SUFFICES ASSUME IInv, Worker PROVE IInv'
    OBVIOUS
  <2>1. CASE List \/ Rest \/ PruneLog
    BY <2>1, <1>LoopKeeps
  <2>2. CASE Progress
    BY <2>2, <1>ProgressKeeps
  <2>3. CASE \E n \in DOMAIN todo : Take(n)
    BY <2>3, <1>TakeKeeps
  <2>4. CASE \E fate \in Fates : CopyDone(fate)
    BY <2>4, <1>CopyDoneKeeps
  <2>5. ASSUME NEW fate, NEW k,
               \/ ExportReference(k) \/ ExportMode(fate) \/ ExportPost(fate) \/ ExportMirror(fate)
               \/ StartEvent \/ DeleteEvent(fate) \/ Snapshot \/ CopyVersion(k)
               \/ ReconcileMode(fate) \/ Reconcile(k, fate)
        PROVE  IInv'
    <3>1. Quiet \/ Ends(at)
      BY <2>5, Inside
    <3> QED  BY <3>1, <1>QuietKeeps, <1>EndsAt
  <2> QED  BY <2>1, <2>2, <2>3, <2>4, <2>5 DEF Worker
<1> SUFFICES ASSUME IInv, [Next]_vars PROVE IInv'
  OBVIOUS
<1>1. CASE UNCHANGED vars
  BY <1>1 DEF vars, source, worker, IInv, Shape, Place, TrimmedOnlyAtZero, RecordsIn
<1> QED  BY <1>1, <1>SourceKeeps, <1>OperatorKeeps, <1>WorkerKeeps, <1>LoopKeeps DEF Next

LEMMA Invariant == Spec => []IInv
<1> QED  BY Initially, Inductive, PTL DEF Spec

\* However exporters move, fail, are reset, created and deleted between the
\* choice of a floor (prune_floor) and the trimming of the log (prune_log), no
\* exporter that is under way loses an event it has still to replay.
THEOREM NothingNeededIsTrimmed == Spec => []TrimmedOnlyAtZero
<1>1. IInv => TrimmedOnlyAtZero
  BY DEF IInv
<1> QED  BY <1>1, Invariant, PTL

-----------------------------------------------------------------------------
(***************************************************************************)
(* Paused and failed exporters.                                            *)
(***************************************************************************)
\* Whatever the worker writes moves a cursor from where it stood, and forward.
LEMMA WorkerMoves ==
    ASSUME IInv, Worker
    PROVE  /\ ops' = ops
           /\ \E from, to \in Nat : from <= to /\ Moved(exporters', from, to)
<1> DEFINE Forward == \E from, to \in Nat : from <= to /\ Moved(exporters', from, to)
<1> SUFFICES ops' = ops /\ Forward
  OBVIOUS
<1>0. at \in Nat /\ until \in Nat
  BY DEF IInv, Shape
<1>Stays. ASSUME exporters' = exporters PROVE Forward
  <2>1. Moved(exporters', 0, 0)
    BY <1>Stays DEF Moved, IInv, Shape, RecordsIn
  <2> QED  BY <2>1, SMT
<1>Ends. ASSUME NEW STATE to, to \in Nat, at <= to, Ends(to)
      PROVE  ops' = ops /\ Forward
  <2> USE <1>Ends
  <2>1. PICK state \in States : exporters' = ExporterState(job.name, at, to, state)
    BY DEF Ends
  <2>2. Moved(exporters', at, to)
    BY <2>1, <1>0, StateMoves DEF IInv
  <2> QED  BY <1>0, <2>2 DEF Ends
<1>EndsAt. Ends(at) => ops' = ops /\ Forward
  <2>1. at <= at
    BY <1>0, SMT
  <2> QED  BY <1>0, <2>1, <1>Ends
<1>1. CASE List \/ Rest \/ PruneLog
  <2>1. ops' = ops /\ exporters' = exporters
    BY <1>1 DEF List, Rest, PruneLog, Work
  <2> QED  BY <2>1, <1>Stays
<1>2. CASE Progress
  <2>1. at + 1 \in Nat /\ at <= at + 1
    BY <1>0, SMT
  <2>2. Moved(exporters', at, at + 1)
    BY <1>0, <1>2, <2>1, StateMoves DEF Progress, IInv, States
  <2>3. ops' = ops
    BY <1>2 DEF Progress, Work
  <2> QED  BY <1>0, <2>1, <2>2, <2>3
<1>3. ASSUME NEW n \in DOMAIN todo, Take(n) PROVE ops' = ops /\ Forward
  <2>1. todo[n].offset \in Nat
    BY DEF IInv, Shape, RecordsIn, Rec
  <2>2. todo[n].offset <= todo[n].offset
    BY <2>1, SMT
  <2>3. \/ exporters' = exporters
        \/ exporters' = ExporterState(n, todo[n].offset, todo[n].offset, "RUNNING")
    BY <1>3 DEF Take
  <2>4. Moved(ExporterState(n, todo[n].offset, todo[n].offset, "RUNNING"), todo[n].offset, todo[n].offset)
    BY <2>1, StateMoves DEF IInv, States
  <2>5. ops' = ops
    BY <1>3 DEF Take, Work
  <2> QED  BY <2>1, <2>2, <2>3, <2>4, <2>5, <1>Stays
<1>4. ASSUME NEW fate \in Fates, CopyDone(fate) PROVE ops' = ops /\ Forward
  <2>1. UNCHANGED <<log, floor, ops>> /\ pc \in Copying
    BY <1>4 DEF CopyDone, Copied, Work, source, Copying
  <2>2. CASE fate = "answered"
    <3>1. Ends(until)
      BY <1>4, <2>1, <2>2 DEF CopyDone, Leave, Ends, States
    <3>2. at <= until
      BY <2>1 DEF IInv, Place
    <3> QED  BY <1>0, <3>1, <3>2, <1>Ends
  <2>3. CASE fate # "answered"
    <3>1. Halt("ERROR")
      BY <1>4, <2>3 DEF CopyDone
    <3>2. Ends(at)
      BY <2>1, <3>1, HaltEnds DEF States
    <3> QED  BY <3>2, <1>EndsAt
  <2> QED  BY <2>2, <2>3
<1>5. ASSUME NEW fate, NEW k,
             \/ ExportReference(k) \/ ExportMode(fate) \/ ExportPost(fate) \/ ExportMirror(fate)
             \/ StartEvent \/ DeleteEvent(fate) \/ Snapshot \/ CopyVersion(k)
             \/ ReconcileMode(fate) \/ Reconcile(k, fate)
      PROVE  ops' = ops /\ Forward
  <2>1. Quiet \/ Ends(at)
    BY <1>5, Inside
  <2>2. Quiet => ops' = ops /\ exporters' = exporters
    BY DEF Quiet
  <2> QED  BY <2>1, <2>2, <1>Stays, <1>EndsAt
<1> HIDE DEF Forward
<1> QED  BY <1>1, <1>2, <1>3, <1>4, <1>5 DEF Worker

Waiting ==
    \A n \in DOMAIN exporters \cap DOMAIN exporters' :
        exporters[n].state \in {"PAUSED", "FAILED"} /\ ops' = ops => exporters'[n] = exporters[n]

\* A paused or failed exporter changes only when an operator acts: whatever
\* answers arrive late, the compare-and-set of exporter_state discards them.
THEOREM OnlyOperatorsWake == Spec => WaitsForOperator
<1>StepWaits. IInv /\ ops \in Nat /\ [Next]_vars => Waiting /\ ops' \in Nat
  <2> SUFFICES ASSUME IInv, ops \in Nat, [Next]_vars PROVE Waiting /\ ops' \in Nat
    OBVIOUS
  <2>1. CASE UNCHANGED vars
    BY <2>1 DEF vars, counters, Waiting
  <2>2. CASE Client \/ Publish
    BY <2>2 DEF Client, Publish, Register, SoftDelete, HardDelete, Write, counters, Waiting
  <2>3. CASE Operator
    <3>1. ops' = ops + 1
      BY <2>3 DEF Operator, CreateExporter, DeleteExporter, Transition, SetDestinationMode, Operate
    <3> QED  BY <3>1, SMT DEF Waiting
  <2>4. CASE Worker
    BY <2>4, WorkerMoves DEF Moved, Waiting
  <2>5. CASE Crash
    BY <2>5 DEF Crash, Waiting
  <2> QED  BY <2>1, <2>2, <2>3, <2>4, <2>5 DEF Next
<1> DEFINE J == IInv /\ ops \in Nat
<1>1. Init => J
  BY Initially, SMT DEF Init
<1>2. J /\ [Next]_vars => J'
  BY Inductive, <1>StepWaits
<1>3. J /\ [Next]_vars => [Waiting]_vars
  BY <1>StepWaits
<1> HIDE DEF J
<1>4. Spec => [][Waiting]_vars
  BY <1>1, <1>2, <1>3, PTL DEF Spec
<1> QED  BY <1>4 DEF WaitsForOperator, Waiting

\* The offset of a record stays or grows; only an operator's request takes it
\* back, and then to zero.
Advance ==
    \A n \in DOMAIN exporters \cap DOMAIN exporters' :
        \/ exporters[n].offset <= exporters'[n].offset
        \/ exporters'[n].offset = 0 /\ ops' # ops
OffsetsAdvance == [][Advance]_vars

\* A cursor never goes back by itself: whatever is reset, recreated or paused
\* while an attempt runs, the answer of the attempt, which exporter_state
\* stores late, moves the record on from where it stands or not at all.
THEOREM CursorsGoForward == Spec => OffsetsAdvance
<1>1. IInv /\ ops \in Nat /\ [Next]_vars => Advance /\ ops' \in Nat
  <2> SUFFICES ASSUME IInv, ops \in Nat, [Next]_vars PROVE Advance /\ ops' \in Nat
    OBVIOUS
  <2>0. \A n \in DOMAIN exporters : exporters[n].offset \in Nat
    BY DEF IInv, Shape, RecordsIn, Rec
  <2>Stays. exporters' = exporters => Advance
    BY <2>0, SMT DEF Advance
  <2>1. CASE UNCHANGED vars
    BY <2>1, <2>Stays DEF vars, counters
  <2>2. CASE Client \/ Publish
    <3>1. exporters' = exporters /\ ops' = ops
      BY <2>2 DEF Client, Publish, Register, SoftDelete, HardDelete, Write, worker, counters
    <3> QED  BY <3>1, <2>Stays
  <2>3. CASE Operator
    <3>1. ops' = ops + 1
      BY <2>3 DEF Operator, CreateExporter, DeleteExporter, Transition, SetDestinationMode, Operate
    <3>2. ops' \in Nat /\ ops' # ops
      BY <3>1, SMT
    <3>3. Operated
      BY <2>3, Operates DEF IInv
    <3> QED  BY <2>0, <3>2, <3>3, SMT DEF Operated, Advance
  <2>4. CASE Worker
    <3>1. PICK from, to \in Nat : from <= to /\ Moved(exporters', from, to)
      BY <2>4, WorkerMoves
    <3>2. ops' = ops
      BY <2>4, WorkerMoves
    <3>3. \A m \in DOMAIN exporters :
             exporters'[m].offset = exporters[m].offset \/ (exporters[m].offset = from /\ exporters'[m].offset = to)
      BY <3>1 DEF Moved
    <3> QED  BY <2>0, <3>1, <3>2, <3>3, SMT DEF Advance
  <2>5. CASE Crash
    BY <2>5, <2>Stays DEF Crash
  <2> QED  BY <2>1, <2>2, <2>3, <2>4, <2>5 DEF Next
<1> DEFINE J == IInv /\ ops \in Nat
<1>2. Init => J
  BY Initially, SMT DEF Init
<1>3. J /\ [Next]_vars => J'
  BY Inductive, <1>1
<1>4. J /\ [Next]_vars => [Advance]_vars
  BY <1>1
<1> HIDE DEF J
<1>5. Spec => [][Advance]_vars
  BY <1>2, <1>3, <1>4, PTL DEF Spec
<1> QED  BY <1>5 DEF OffsetsAdvance

-----------------------------------------------------------------------------
(***************************************************************************)
(* The copies: the source, the stack of versions under export, and what is *)
(* true of the worker and of the destinations between two steps.           *)
(***************************************************************************)
CONSTANT home       \* the destination of each name

\* A name stands for one destination, and a destination for one name.  (The
\* compare-and-set of exporter_state does not see a name that comes back with
\* another destination.)
Homes ==
    /\ \A n, m \in DOMAIN home : home[n] = home[m] => n = m
    /\ \A n \in DOMAIN exporters : n \in DOMAIN home /\ exporters[n].dest = home[n]

-----------------------------------------------------------------------------
(***************************************************************************)
(* The log, without counting.                                              *)
(***************************************************************************)
At(k, kind, i) == log[i].kind = kind /\ log[i].key = k

\* Among the first x events is one of this kind.
Has(k, kind, x) == \E i \in 1..x : At(k, kind, i)
Ever(k, kind) == Has(k, kind, Len(log))
Once(k) == \A i, j \in 1..Len(log) : At(k, "live", i) /\ At(k, "live", j) => i = j

Follow(k) ==
    /\ k \notin early /\ Once(k)
    /\ copies => ~Ever(k, "absent")
    /\ Above(k) # {k} /\ Ever(k, "deleted") => \A j \in Above(k) : ~Ever(j, "absent")

Entry == [kind : Kinds, key : Keys]

LEMMA Entries ==
    ASSUME Shape
    PROVE  /\ Len(log) \in Nat /\ DOMAIN log = 1..Len(log)
           /\ \A i \in 1..Len(log) : log[i] \in Entry /\ log[i].kind \in Kinds /\ log[i].key \in Keys
<1>1. log \in Seq(Entry)
  BY DEF Shape, Entry
<1> HIDE DEF Entry
<1>2. Len(log) \in Nat /\ DOMAIN log = 1..Len(log) /\ \A i \in 1..Len(log) : log[i] \in Entry
  BY <1>1, SMT
<1>3. \A e \in Entry : e.kind \in Kinds /\ e.key \in Keys
  BY DEF Entry
<1> QED  BY <1>2, <1>3

-----------------------------------------------------------------------------
(***************************************************************************)
(* What references a version.                                              *)
(***************************************************************************)
LEMMA AboveSelf ==
    ASSUME NEW k \in Keys
    PROVE  k \in Above(k)
BY DEF Above

LEMMA AboveStep ==
    ASSUME NEW k, NEW r \in Above(k), NEW i \in Keys, r \in Refs[i]
    PROVE  i \in Above(k)
<1> SUFFICES ASSUME NEW S \in SUBSET Keys, k \in S, \A m \in Keys : Refs[m] \cap S # {} => m \in S
             PROVE  i \in S
  BY DEF Above
<1>1. r \in S
  BY DEF Above
<1> QED  BY <1>1

-----------------------------------------------------------------------------
(***************************************************************************)
(* What a step leaves true of the log.                                     *)
(***************************************************************************)
\* The version was published, or is gone for good.
Shown(k) == snap[k] # "absent" \/ Ever(k, "absent")

\* A replay of a later event meets the version again.
Redo(k, x) ==
    \E i \in (x + 1)..Len(log) :
        log[i].kind = "live" /\ log[i].key \in Selected \cap Above(k) /\ Shown(log[i].key)

\* What holds of version k at a destination, v, for an exporter at offset x.
GoodKey(k, v, x) ==
    /\ Has(k, "live", x) /\ ~Ever(k, "absent") => v # "absent"
    /\ Has(k, "live", x) /\ ~Ever(k, "deleted") => v = "live"
    /\ Has(k, "deleted", x) /\ v = "live" => Redo(k, x)
    /\ Has(k, "absent", x) => v = "absent"

Grows ==
    /\ Len(log) <= Len(log') /\ \A i \in 1..Len(log) : log'[i] = log[i]
    /\ \A k \in Keys : Shown(k) => Shown(k)'
    /\ early \subseteq early' /\ (copies => copies')

LEMMA Later ==
    ASSUME Shape, Shape', Grows
    PROVE  /\ \A k, kind : \A x \in 0..Len(log) : Has(k, kind, x)' <=> Has(k, kind, x)
           /\ \A k, kind : Ever(k, kind) => Ever(k, kind)'
           /\ \A k : Follow(k)' => Follow(k)
           /\ \A k : \A x \in 0..Len(log) : Redo(k, x) => Redo(k, x)'
           /\ \A k, v : \A x \in 0..Len(log) : GoodKey(k, v, x) => GoodKey(k, v, x)'
<1>0. Len(log) \in Nat /\ Len(log') \in Nat
  BY SMT DEF Shape
<1>1. ASSUME NEW k, NEW kind, NEW x \in 0..Len(log) PROVE Has(k, kind, x)' <=> Has(k, kind, x)
  BY <1>0, SMT DEF Grows, Has, At
<1>2. ASSUME NEW k, NEW kind, Ever(k, kind) PROVE Ever(k, kind)'
  BY <1>0, <1>2, SMT DEF Grows, Ever, Has, At
<1>3. ASSUME NEW k, Follow(k)' PROVE Follow(k)
  <2>1. Once(k)' => Once(k)
    BY <1>0, SMT DEF Grows, Once, At
  <2>2. \A j : Ever(j, "absent") => Ever(j, "absent")'
    BY <1>2
  <2>3. Ever(k, "deleted") => Ever(k, "deleted")'
    BY <1>2
  <2>4. Above(k)' = Above(k)
    BY DEF Above
  <2> QED  BY <1>3, <2>1, <2>2, <2>3, <2>4 DEF Grows, Follow
<1>4. ASSUME NEW k, NEW x \in 0..Len(log), Redo(k, x) PROVE Redo(k, x)'
  <2>1. PICK i \in (x + 1)..Len(log) :
             log[i].kind = "live" /\ log[i].key \in Selected \cap Above(k) /\ Shown(log[i].key)
    BY <1>4 DEF Redo
  <2>2. i \in (x + 1)..Len(log') /\ log'[i] = log[i] /\ log[i].key \in Keys
    BY <1>0, <2>1, ExporterAssumption, SMT DEF Grows
  <2>3. PICK m \in Keys : m = log[i].key
    BY <2>2
  <2>4. Shown(m)' /\ m \in Selected \cap Above(k)
    BY <2>1, <2>3 DEF Grows
  <2>5. log'[i].kind = "live" /\ log'[i].key = m
    BY <2>1, <2>2, <2>3
  <2>6. Shown(log[i].key)'
    BY <2>4, <2>5 DEF Shown, Ever, Has, At
  <2> QED  BY <2>2, <2>4, <2>5, <2>6 DEF Redo, Above
<1>5. ASSUME NEW k, NEW v, NEW x \in 0..Len(log), GoodKey(k, v, x) PROVE GoodKey(k, v, x)'
  <2>1. \A kind : Has(k, kind, x)' <=> Has(k, kind, x)
    BY <1>1
  <2>2. \A kind : Ever(k, kind) => Ever(k, kind)'
    BY <1>2
  <2>3. Redo(k, x) => Redo(k, x)'
    BY <1>4
  <2> QED  BY <1>5, <2>1, <2>2, <2>3 DEF GoodKey
<1> QED  BY <1>1, <1>2, <1>3, <1>4, <1>5

-----------------------------------------------------------------------------
(***************************************************************************)
(* The source: what its log says about its versions.                       *)
(***************************************************************************)
SourceTypes == rows \in [Keys -> Kinds] /\ snap \in [Keys -> Kinds]

\* A version is registered before it is deleted, and deleted before it is gone;
\* one that was registered once was not deleted before.
Ordered ==
    \A k \in Keys : \A i \in 1..Len(log) :
        /\ At(k, "absent", i) => Has(k, "deleted", i)
        /\ At(k, "deleted", i) => Has(k, "live", i)
        /\ Once(k) /\ At(k, "live", i) => ~Has(k, "deleted", i) /\ ~Has(k, "absent", i)

\* The rows are what the log has made of them.
Rowed ==
    \A k \in Keys :
        /\ rows[k] # "absent" => Ever(k, "live")
        /\ rows[k] = "deleted" => Ever(k, "deleted")
        /\ Ever(k, "live") /\ ~Ever(k, "absent") => rows[k] # "absent"
        /\ Once(k) => /\ rows[k] = "live" => ~Ever(k, "deleted")
                      /\ rows[k] # "absent" => ~Ever(k, "absent")
        /\ snap[k] # "absent" => Ever(k, "live")

\* What a version references was there before it.
RefsFirst ==
    /\ \A k \in Keys : rows[k] # "absent" => \A r \in Refs[k] : rows[r] # "absent" \/ Ever(r, "absent")
    /\ \A k \in Keys : Shown(k) => \A r \in Refs[k] : Shown(r)
    /\ \A k \in Keys : \A i \in 1..Len(log) : At(k, "live", i) => \A r \in Refs[k] : Has(r, "live", i)

\* Only the last registration may be unpublished.
Published ==
    /\ \A k \in Keys : \A i \in 1..Len(log) : At(k, "live", i) => Shown(k) \/ (i = Len(log) /\ snap # rows)
    /\ Len(log) # 0 => rows[log[Len(log)].key] = log[Len(log)].kind

SourceInv == SourceTypes /\ Ordered /\ Rowed /\ RefsFirst /\ Published

LEMMA SourceInit == Init => SourceInv
BY SMT DEF Init, SourceInv, SourceTypes, Ordered, Rowed, RefsFirst, Published, Kinds, Shown, Ever, Has

\* A mutation, with what its verb has found.
Logs(k, kind) ==
    /\ snap = rows /\ snap' = snap
    /\ rows' = [rows EXCEPT ![k] = kind]
    /\ log' = Append(log, [kind |-> kind, key |-> k])
    /\ \/ kind = "live" /\ rows[k] = "absent" /\ \A r \in Refs[k] : rows[r] # "absent"
       \/ kind = "deleted" /\ rows[k] = "live"
       \/ kind = "absent" /\ rows[k] = "deleted"

LEMMA ClientLogs == Client => \E k \in Keys, kind \in Kinds : Write(k, kind) /\ Logs(k, kind)
BY DEF Client, Register, SoftDelete, HardDelete, Write, Logs, Kinds

LEMMA SourceStep ==
    ASSUME IInv, SourceInv, [Next]_vars
    PROVE  SourceInv' /\ Grows
\* The log after a mutation.
<1>Appended. ASSUME Shape, NEW k \in Keys, NEW kind \in Kinds, Logs(k, kind)
      PROVE  /\ Len(log) \in Nat /\ Len(log') = Len(log) + 1
             /\ \A i \in 1..Len(log) : log'[i] = log[i]
             /\ log'[Len(log) + 1].kind = kind /\ log'[Len(log) + 1].key = k
             /\ \A j, c : \A x \in 0..Len(log) : Has(j, c, x)' <=> Has(j, c, x)
             /\ \A j, c : Ever(j, c)' <=> Ever(j, c) \/ (j = k /\ c = kind)
             /\ \A j : Once(j)' => Once(j)
             /\ kind = "live" /\ Once(k)' => ~Ever(k, "live")
  <2> USE <1>Appended
  <2> DEFINE e == [kind |-> kind, key |-> k]
  <2>1. log' = Append(log, e) /\ e.kind = kind /\ e.key = k
    BY DEF Logs
  <2> HIDE DEF e
  <2>2. /\ Len(log) \in Nat /\ Len(log') = Len(log) + 1
        /\ \A i \in 1..Len(log) : log'[i] = log[i]
        /\ log'[Len(log) + 1] = e
    <3>1. log \in Seq(Entry)
      BY DEF Shape, Entry
    <3> QED  BY <2>1, <3>1, SMT
  <2>3. \A j, c : \A x \in 0..Len(log) : Has(j, c, x)' <=> Has(j, c, x)
    BY <2>2, SMT DEF Has, At
  <2>4. ASSUME NEW j, NEW c PROVE Ever(j, c)' <=> Ever(j, c) \/ (j = k /\ c = kind)
    <3>1. \A i \in 1..Len(log) : At(j, c, i)' <=> At(j, c, i)
      BY <2>2 DEF At
    <3>2. 1..Len(log') = 1..Len(log) \cup {Len(log) + 1}
      BY <2>2, SMT
    <3> QED  BY <2>1, <2>2, <3>1, <3>2 DEF Ever, Has, At
  <2>5. \A j : Once(j)' => Once(j)
    BY <2>2, SMT DEF Once, At
  <2>6. kind = "live" /\ Once(k)' => ~Ever(k, "live")
    BY <2>1, <2>2, SMT DEF Once, Ever, Has, At
  <2> QED  BY <2>1, <2>2, <2>3, <2>4, <2>5, <2>6
<1>LogsKeepsShown. ASSUME Shape, SourceInv, NEW k \in Keys, NEW kind \in Kinds, Logs(k, kind)
      PROVE  /\ \A j \in Keys : Shown(j) <=> Shown(j)'
             /\ \A j \in Keys : rows[j] # "absent" => Shown(j)
  <2> USE <1>LogsKeepsShown
  <2>1. \A j, c : Ever(j, c)' <=> Ever(j, c) \/ (j = k /\ c = kind)
    BY <1>Appended
  <2>2. snap' = snap /\ snap = rows /\ (kind = "absent" => rows[k] # "absent")
    BY DEF Logs
  <2> QED  BY <2>1, <2>2 DEF Shown
<1>LogsSource. ASSUME Shape, SourceInv, NEW k \in Keys, NEW kind \in Kinds, Logs(k, kind)
      PROVE  SourceInv'
  <2> USE <1>LogsSource
  <2>0. Refs \in [Keys -> SUBSET Keys]
    BY ExporterAssumption
  <2>1. /\ Len(log) \in Nat /\ Len(log') = Len(log) + 1
        /\ \A i \in 1..Len(log) : log'[i] = log[i]
        /\ log'[Len(log) + 1].kind = kind /\ log'[Len(log) + 1].key = k
    BY <1>Appended
  <2>2. \A j, c : \A x \in 0..Len(log) : Has(j, c, x)' <=> Has(j, c, x)
    BY <1>Appended
  <2>3. \A j, c : Ever(j, c)' <=> Ever(j, c) \/ (j = k /\ c = kind)
    BY <1>Appended
  <2>4. (\A j : Once(j)' => Once(j)) /\ (kind = "live" /\ Once(k)' => ~Ever(k, "live"))
    BY <1>Appended
  <2>5. \A j, c : \A i \in 1..Len(log) : At(j, c, i)' <=> At(j, c, i)
    BY <2>1 DEF At
  <2>6. \A j, c : \A i \in 1..Len(log') :
            At(j, c, i)' => (i \in 1..Len(log) /\ At(j, c, i)) \/ (i = Len(log') /\ j = k /\ c = kind)
    BY <2>1, SMT DEF At
  <2>7. \A j, c : \A x \in Nat : x = Len(log') => (Has(j, c, x)' <=> Ever(j, c)')
    BY DEF Ever
  <2>8. /\ snap' = snap /\ snap = rows
        /\ \A j \in Keys : rows'[j] = IF j = k THEN kind ELSE rows[j]
    BY DEF Logs, SourceInv, SourceTypes
  <2>9. SourceTypes'
    BY DEF SourceInv, SourceTypes, Logs
  <2>10. \A j \in Keys : (Ever(j, "absent") => Ever(j, "deleted")) /\ (Ever(j, "deleted") => Ever(j, "live"))
    <3>1. ASSUME NEW j \in Keys, NEW a, NEW b, \A i \in 1..Len(log) : At(j, a, i) => Has(j, b, i), Ever(j, a)
          PROVE  Ever(j, b)
      BY <2>1, <3>1, SMT DEF Ever, Has
    <3> QED  BY <3>1 DEF SourceInv, Ordered
  <2>11. Ordered'
    <3> SUFFICES ASSUME NEW j \in Keys, NEW i \in 1..Len(log')
                 PROVE  /\ At(j, "absent", i)' => Has(j, "deleted", i)'
                        /\ At(j, "deleted", i)' => Has(j, "live", i)'
                        /\ Once(j)' /\ At(j, "live", i)' => ~Has(j, "deleted", i)' /\ ~Has(j, "absent", i)'
      BY DEF Ordered
    <3>1. CASE i \in 1..Len(log)
      BY <2>1, <2>2, <2>4, <2>5, <3>1, SMT DEF SourceInv, Ordered
    <3>2. CASE i = Len(log')
      <4>1. \A c : Has(j, c, i)' <=> Ever(j, c) \/ (j = k /\ c = kind)
        BY <2>1, <2>3, <2>7, <3>2, SMT
      <4>2. \A c : At(j, c, i)' => j = k /\ c = kind
        BY <2>1, <3>2 DEF At
      <4>3. /\ kind = "absent" => Ever(k, "deleted")
            /\ kind = "deleted" => Ever(k, "live")
        BY DEF Logs, SourceInv, Rowed
      <4>4. kind = "live" /\ Once(k)' => ~Ever(k, "deleted") /\ ~Ever(k, "absent")
        BY <2>4, <2>10
      <4>5. "live" # "deleted" /\ "live" # "absent"
        OBVIOUS
      <4> QED  BY <4>1, <4>2, <4>3, <4>4, <4>5, SMT
    <3> QED  BY <2>1, <3>1, <3>2, SMT
  <2>12. Rowed'
    <3>1. ASSUME NEW j \in Keys, j # k
          PROVE  /\ rows'[j] # "absent" => Ever(j, "live")'
                 /\ rows'[j] = "deleted" => Ever(j, "deleted")'
                 /\ Ever(j, "live")' /\ ~Ever(j, "absent")' => rows'[j] # "absent"
                 /\ Once(j)' => /\ rows'[j] = "live" => ~Ever(j, "deleted")'
                                /\ rows'[j] # "absent" => ~Ever(j, "absent")'
                 /\ snap'[j] # "absent" => Ever(j, "live")'
      BY <2>3, <2>4, <2>8, <3>1 DEF SourceInv, Rowed
    <3>2. /\ rows'[k] # "absent" => Ever(k, "live")'
          /\ rows'[k] = "deleted" => Ever(k, "deleted")'
          /\ Ever(k, "live")' /\ ~Ever(k, "absent")' => rows'[k] # "absent"
          /\ snap'[k] # "absent" => Ever(k, "live")'
      BY <2>3, <2>8 DEF SourceInv, Rowed, Logs
    <3>3. Once(k)' => /\ rows'[k] = "live" => ~Ever(k, "deleted")'
                      /\ rows'[k] # "absent" => ~Ever(k, "absent")'
      <4>1. "live" # "deleted" /\ "live" # "absent" /\ "deleted" # "absent"
        OBVIOUS
      <4> QED  BY <2>3, <2>4, <2>8, <2>10, <4>1 DEF SourceInv, Rowed, Logs
    <3> QED  BY <3>1, <3>2, <3>3 DEF Rowed
  <2>13. \A j \in Keys : Shown(j) <=> Shown(j)'
    BY <1>LogsKeepsShown
  <2>14. RefsFirst'
    <3>1. \A j \in Keys : rows'[j] # "absent" => \A r \in Refs[j] : rows'[r] # "absent" \/ Ever(r, "absent")'
      <4>1. \A j \in Keys : rows'[j] # "absent" =>
                \A r \in Refs[j] : rows[r] # "absent" \/ Ever(r, "absent")
        BY <2>8 DEF SourceInv, RefsFirst, Logs
      <4> QED  BY <2>0, <2>3, <2>8, <4>1
    <3>2. \A j \in Keys : Shown(j)' => \A r \in Refs[j] : Shown(r)'
      BY <2>0, <2>13 DEF SourceInv, RefsFirst
    <3>3. ASSUME NEW j \in Keys, NEW i \in 1..Len(log'), At(j, "live", i)', NEW r \in Refs[j]
          PROVE  Has(r, "live", i)'
      <4>1. CASE i \in 1..Len(log) /\ At(j, "live", i)
        <5>1. Has(r, "live", i)
          BY <4>1 DEF SourceInv, RefsFirst
        <5> QED  BY <2>1, <2>2, <4>1, <5>1, SMT
      <4>2. CASE i = Len(log') /\ j = k /\ kind = "live"
        <5>1. rows[r] # "absent" /\ r \in Keys
          BY <2>0, <4>2 DEF Logs
        <5>2. Ever(r, "live")'
          BY <2>3, <5>1 DEF SourceInv, Rowed
        <5> QED  BY <2>1, <2>7, <4>2, <5>2, SMT
      <4> QED  BY <2>6, <3>3, <4>1, <4>2, SMT
    <3> QED  BY <3>1, <3>2, <3>3 DEF RefsFirst
  <2>15. Published'
    <3>1. ASSUME NEW j \in Keys, NEW i \in 1..Len(log'), At(j, "live", i)'
          PROVE  Shown(j)' \/ (i = Len(log') /\ snap' # rows')
      <4>1. CASE i \in 1..Len(log) /\ At(j, "live", i)
        BY <2>8, <2>13, <4>1 DEF SourceInv, Published
      <4>2. CASE i = Len(log') /\ j = k /\ kind = "live"
        BY <2>8, <4>2 DEF Logs
      <4> QED  BY <2>6, <3>1, <4>1, <4>2, SMT
    <3>2. rows'[log'[Len(log')].key] = log'[Len(log')].kind
      BY <2>1, <2>8
    <3> QED  BY <3>1, <3>2 DEF Published
  <2> QED  BY <2>9, <2>11, <2>12, <2>14, <2>15 DEF SourceInv
<1>ShowsSource. ASSUME Shape, SourceInv, snap' = rows, rows' = rows, log' = log
      PROVE  SourceInv' /\ \A j \in Keys : Shown(j) => Shown(j)'
  <2> USE <1>ShowsSource
  <2>0. Refs \in [Keys -> SUBSET Keys]
    BY ExporterAssumption
  <2>1. \A j, c : Ever(j, c)' <=> Ever(j, c)
    BY DEF Ever, Has, At
  <2>2. \A j, c, x : Has(j, c, x)' <=> Has(j, c, x)
    BY DEF Has, At
  <2>3. \A j, c, i : At(j, c, i)' <=> At(j, c, i)
    BY DEF At
  <2>4. \A j : Once(j)' <=> Once(j)
    BY DEF Once, At
  <2>5. \A j \in Keys : Shown(j) => Shown(j)'
    BY <2>1 DEF SourceInv, Rowed, Shown
  <2>6. \A j \in Keys : Shown(j)' <=> rows[j] # "absent" \/ Ever(j, "absent")
    BY <2>1 DEF Shown
  <2>7. SourceTypes' /\ Ordered'
    BY <2>2, <2>3, <2>4 DEF SourceInv, SourceTypes, Ordered
  <2>8. Rowed'
    BY <2>1, <2>4 DEF SourceInv, Rowed
  <2>9. RefsFirst'
    <3>1. ASSUME NEW j \in Keys, Shown(j)', NEW r \in Refs[j] PROVE Shown(r)'
      <4>1. CASE rows[j] # "absent"
        BY <2>0, <2>6, <4>1 DEF SourceInv, RefsFirst
      <4>2. CASE Ever(j, "absent")
        <5>1. Shown(r)
          BY <4>2 DEF SourceInv, RefsFirst, Shown
        <5> QED  BY <2>0, <2>5, <5>1
      <4> QED  BY <2>6, <3>1, <4>1, <4>2
    <3> QED  BY <2>1, <2>2, <2>3, <3>1 DEF SourceInv, RefsFirst
  <2>10. Published'
    <3>1. ASSUME NEW j \in Keys, NEW i \in 1..Len(log), At(j, "live", i) PROVE Shown(j)'
      <4>1. CASE Shown(j)
        BY <2>5, <4>1
      <4>2. CASE i = Len(log)
        <5>1. Len(log) # 0 /\ log[Len(log)].key = j /\ log[Len(log)].kind = "live"
          BY <3>1, <4>2, Entries, SMT DEF At
        <5>2. Len(log) # 0 => rows[log[Len(log)].key] = log[Len(log)].kind
          BY DEF SourceInv, Published
        <5>3. rows[j] = "live"
          BY <5>1, <5>2
        <5> QED  BY <2>6, <5>3
      <4> QED  BY <3>1, <4>1, <4>2 DEF SourceInv, Published
    <3> QED  BY <2>3, <3>1 DEF SourceInv, Published
  <2> QED  BY <2>5, <2>7, <2>8, <2>9, <2>10 DEF SourceInv
<1>SameSource. ASSUME SourceInv, UNCHANGED <<rows, snap, log>>
      PROVE  SourceInv' /\ \A j \in Keys : Shown(j) <=> Shown(j)'
  <2> USE <1>SameSource DEF SourceInv
  <2>1. SourceTypes' /\ Ordered'
    BY SMT DEF SourceTypes, Ordered, Once, Has, At
  <2>2. Rowed'
    BY SMT DEF Rowed, Ever, Once, Has, At
  <2>3. RefsFirst'
    BY SMT DEF RefsFirst, Shown, Ever, Has, At
  <2>4. Published'
    BY SMT DEF Published, Shown, Ever, Has, At
  <2>5. \A j \in Keys : Shown(j) <=> Shown(j)'
    BY SMT DEF Shown, Ever, Has, At
  <2> QED  BY <2>1, <2>2, <2>3, <2>4, <2>5
\* The worker and the operators leave the source alone, and only add to the history.
<1>WorkerSource. ASSUME Worker \/ Operator
      PROVE  UNCHANGED <<rows, snap, log>> /\ early \subseteq early' /\ (copies => copies')
  <2> USE <1>WorkerSource
  <2>1. ASSUME NEW STATE call, NEW fate, NEW ACTION next, Send(call, fate, next)
        PROVE  UNCHANGED <<rows, snap, log>> /\ early \subseteq early' /\ (copies => copies')
    BY <2>1 DEF Send, Work, source
  <2>2. ASSUME NEW fate, NEW ACTION next, EnsureImportMode(fate, next)
        PROVE  UNCHANGED <<rows, snap, log>> /\ early \subseteq early' /\ (copies => copies')
    BY <2>2 DEF EnsureImportMode, Work, source
  <2>3. CASE Operator
    <3>1. \E op : Operate(op)
      BY <2>3 DEF Operator, CreateExporter, DeleteExporter, Transition, SetDestinationMode
    <3> QED  BY <3>1, SMT DEF Operate, source, history
  <2>4. CASE List \/ Rest \/ PruneLog \/ Progress \/ \E n \in DOMAIN todo : Take(n)
    <3>1. Work /\ early' = early
      BY <2>4 DEF List, Rest, PruneLog, Progress, Take
    <3> QED  BY <3>1 DEF Work, source
  <2>5. CASE StartEvent
    BY <2>5 DEF StartEvent, Visit, Work, source
  <2>6. CASE Snapshot
    BY <2>6 DEF Snapshot, source
  <2>7. CASE \E k \in Keys : ExportReference(k) \/ CopyVersion(k)
    BY <2>7, SMT DEF ExportReference, CopyVersion, Visit, Work, source
  <2>8. ASSUME NEW fate \in Fates,
               \/ ExportMode(fate) \/ ExportPost(fate) \/ ExportMirror(fate) \/ DeleteEvent(fate)
               \/ ReconcileMode(fate) \/ CopyDone(fate)
               \/ \E s \in {k[1] : k \in Keys} : Reconcile(s, fate)
        PROVE  UNCHANGED <<rows, snap, log>> /\ early \subseteq early' /\ (copies => copies')
    <3>1. CASE ExportMode(fate) \/ ReconcileMode(fate)
      BY <2>2, <3>1 DEF ExportMode, ReconcileMode
    <3>2. CASE CopyDone(fate)
      BY <3>2 DEF CopyDone, Work, source
    <3>3. CASE ExportPost(fate)
      BY <2>1, <3>3 DEF ExportPost
    <3>4. CASE ExportMirror(fate)
      BY <2>1, <3>4 DEF ExportMirror
    <3>5. CASE DeleteEvent(fate)
      BY <2>1, <3>5 DEF DeleteEvent
    <3>6. CASE \E s \in {k[1] : k \in Keys} : Reconcile(s, fate)
      BY <2>1, <3>6 DEF Reconcile
    <3> QED  BY <2>8, <3>1, <3>2, <3>3, <3>4, <3>5, <3>6
  <2> QED  BY <2>3, <2>4, <2>5, <2>6, <2>7, <2>8 DEF Worker
<1>0. Shape /\ Len(log) \in Nat
  BY SMT DEF IInv, Shape
<1>1. CASE Client
  <2>1. PICK k \in Keys, kind \in Kinds : Write(k, kind) /\ Logs(k, kind)
    BY <1>1, ClientLogs
  <2>2. SourceInv'
    BY <1>0, <2>1, <1>LogsSource
  <2>3. Len(log') = Len(log) + 1 /\ \A i \in 1..Len(log) : log'[i] = log[i]
    BY <1>0, <2>1, <1>Appended
  <2>4. \A j \in Keys : Shown(j) <=> Shown(j)'
    BY <1>0, <2>1, <1>LogsKeepsShown
  <2>5. UNCHANGED history
    BY <2>1 DEF Write
  <2> QED  BY <1>0, <2>2, <2>3, <2>4, <2>5, SMT DEF Grows, history
<1>2. CASE Publish \/ Crash
  <2>1. snap' = rows /\ rows' = rows /\ log' = log /\ UNCHANGED history
    BY <1>2 DEF Publish, Crash
  <2>2. SourceInv' /\ \A j \in Keys : Shown(j) => Shown(j)'
    BY <1>0, <2>1, <1>ShowsSource
  <2> QED  BY <1>0, <2>1, <2>2, SMT DEF Grows, history
<1>3. CASE Worker \/ Operator \/ UNCHANGED vars
  <2>1. UNCHANGED <<rows, snap, log>> /\ early \subseteq early' /\ (copies => copies')
    BY <1>3, <1>WorkerSource, SMT DEF vars, source, history
  <2>2. SourceInv' /\ \A j \in Keys : Shown(j) <=> Shown(j)'
    BY <2>1, <1>SameSource
  <2> QED  BY <1>0, <2>1, <2>2, SMT DEF Grows
<1> QED  BY <1>1, <1>2, <1>3 DEF Next

-----------------------------------------------------------------------------
(***************************************************************************)
(* The stack of versions under export, as a set of frames.                 *)
(***************************************************************************)
Frame == [key : Keys, kind : {"live", "deleted"}, refs : SUBSET Keys, step : {"refs", "post", "mirror"}]
FramesOf(s) == {s[i] : i \in DOMAIN s}
Distinct(s) == \A i, j \in DOMAIN s : s[i].key = s[j].key => i = j
OnStack(k) == \E f \in FramesOf(stack) : f.key = k

LEMMA EmptyStack == FramesOf(<<>>) = {} /\ Distinct(<<>>) /\ <<>> \in Seq(Frame)
BY SMT DEF FramesOf, Distinct

LEMMA TopAndTail ==
    ASSUME stack \in Seq(Frame), stack # <<>>, Distinct(stack)
    PROVE  /\ Top \in Frame /\ Top \in FramesOf(stack)
           /\ Tail(stack) \in Seq(Frame) /\ Distinct(Tail(stack))
           /\ \A f \in FramesOf(Tail(stack)) : f \in FramesOf(stack) /\ f.key # Top.key
           /\ \A f \in FramesOf(stack) : f = Top \/ f \in FramesOf(Tail(stack))
<1> DEFINE s == Tail(stack)
<1>1. Len(stack) \in Nat /\ Len(stack) >= 1 /\ DOMAIN stack = 1..Len(stack)
  BY SMT
<1>2. s \in Seq(Frame) /\ Len(s) = Len(stack) - 1 /\ \A i \in 1..Len(s) : s[i] = stack[i + 1]
  BY <1>1, SMT
<1>3. DOMAIN s = 1..Len(s)
  BY <1>2, SMT
<1> HIDE DEF s
<1>4. Top \in Frame /\ Top \in FramesOf(stack)
  BY <1>1, SMT DEF Top, FramesOf
<1>5. Distinct(s)
  <2> SUFFICES ASSUME NEW i \in 1..Len(s), NEW j \in 1..Len(s), s[i].key = s[j].key PROVE i = j
    BY <1>3 DEF Distinct
  <2>1. i \in Nat /\ j \in Nat /\ i + 1 \in DOMAIN stack /\ j + 1 \in DOMAIN stack
    BY <1>1, <1>2, SMT
  <2>2. stack[i + 1].key = stack[j + 1].key
    BY <1>2
  <2>3. i + 1 = j + 1
    BY <2>1, <2>2 DEF Distinct
  <2> QED  BY <2>1, <2>3, SMT
<1>6. \A f \in FramesOf(s) : f \in FramesOf(stack) /\ f.key # Top.key
  BY <1>1, <1>2, <1>3, SMT DEF FramesOf, Distinct, Top
<1>7. ASSUME NEW f \in FramesOf(stack) PROVE f = Top \/ f \in FramesOf(s)
  <2>1. PICK i \in 1..Len(stack) : f = stack[i]
    BY <1>1 DEF FramesOf
  <2>2. i = 1 \/ (i - 1 \in 1..Len(s) /\ s[i - 1] = stack[i])
    BY <1>1, <1>2, SMT
  <2> QED  BY <1>3, <2>1, <2>2 DEF FramesOf, Top
<1> QED  BY <1>2, <1>4, <1>5, <1>6, <1>7 DEF s

LEMMA Pushed ==
    ASSUME NEW s \in Seq(Frame), NEW f \in Frame, Distinct(s), \A g \in FramesOf(s) : g.key # f.key
    PROVE  LET t == <<f>> \o s
           IN /\ t \in Seq(Frame) /\ Distinct(t) /\ t # <<>>
              /\ FramesOf(t) = FramesOf(s) \cup {f}
<1> DEFINE t == <<f>> \o s
<1>1. Len(s) \in Nat /\ DOMAIN s = 1..Len(s)
  BY SMT
<1>2. <<f>> \in Seq(Frame) /\ Len(<<f>>) = 1 /\ <<f>>[1] = f
  BY SMT
<1>3. /\ t \in Seq(Frame) /\ Len(t) = 1 + Len(s)
      /\ \A i \in 1..Len(t) : t[i] = IF i <= 1 THEN <<f>>[i] ELSE s[i - 1]
  <2>1. t \in Seq(Frame) /\ Len(t) = Len(<<f>>) + Len(s)
    BY <1>2, SMT
  <2>2. \A i \in 1..(Len(<<f>>) + Len(s)) : t[i] = IF i <= Len(<<f>>) THEN <<f>>[i] ELSE s[i - Len(<<f>>)]
    BY <1>2, SMT
  <2> QED  BY <1>2, <2>1, <2>2
<1>4. DOMAIN t = 1..Len(t) /\ t[1] = f /\ \A i \in 1..Len(s) : t[i + 1] = s[i]
  BY <1>1, <1>2, <1>3, SMT
<1> HIDE DEF t
<1>5. ASSUME NEW i \in 1..Len(t) PROVE (i = 1 /\ t[i] = f) \/ (i - 1 \in 1..Len(s) /\ t[i] = s[i - 1])
  BY <1>1, <1>3, <1>4, SMT
<1>6. FramesOf(t) = FramesOf(s) \cup {f}
  <2>1. \A g \in FramesOf(t) : g = f \/ g \in FramesOf(s)
    BY <1>1, <1>4, <1>5, SMT DEF FramesOf
  <2>2. f \in FramesOf(t)
    BY <1>1, <1>3, <1>4, SMT DEF FramesOf
  <2>3. ASSUME NEW g \in FramesOf(s) PROVE g \in FramesOf(t)
    <3>1. PICK i \in 1..Len(s) : g = s[i]
      BY <1>1 DEF FramesOf
    <3>2. i + 1 \in DOMAIN t /\ g = t[i + 1]
      BY <1>1, <1>3, <1>4, <3>1, SMT
    <3> QED  BY <3>2 DEF FramesOf
  <2> QED  BY <2>1, <2>2, <2>3
<1>7. Distinct(t)
  <2> SUFFICES ASSUME NEW i \in 1..Len(t), NEW j \in 1..Len(t), t[i].key = t[j].key PROVE i = j
    BY <1>4 DEF Distinct
  <2>1. \A n \in 1..Len(s) : s[n].key # f.key
    BY <1>1 DEF FramesOf
  <2>2. \A n, m \in 1..Len(s) : s[n].key = s[m].key => n = m
    BY <1>1 DEF Distinct
  <2>3. i \in Nat /\ j \in Nat
    BY <1>3, SMT
  <2>4. CASE i = 1
    BY <1>5, <2>1, <2>3, <2>4, SMT
  <2>5. CASE i # 1 /\ j = 1
    BY <1>5, <2>1, <2>3, <2>5, SMT
  <2>6. CASE i # 1 /\ j # 1
    <3>1. i - 1 \in 1..Len(s) /\ j - 1 \in 1..Len(s) /\ s[i - 1].key = s[j - 1].key
      BY <1>5, <2>6
    <3>2. i - 1 = j - 1
      BY <2>2, <3>1
    <3> QED  BY <2>3, <3>2, SMT
  <2> QED  BY <2>4, <2>5, <2>6
<1>8. t # <<>>
  BY <1>1, <1>3, SMT
<1> QED  BY <1>3, <1>6, <1>7, <1>8 DEF t

\* The top frame is replaced by one of the same version.
LEMMA Swapped ==
    ASSUME stack \in Seq(Frame), stack # <<>>, Distinct(stack), NEW f \in Frame, f.key = Top.key
    PROVE  LET t == <<f>> \o Tail(stack)
           IN /\ t \in Seq(Frame) /\ Distinct(t) /\ t # <<>>
              /\ \A g \in FramesOf(t) : g = f \/ (g \in FramesOf(stack) /\ g.key # f.key)
              /\ \A g \in FramesOf(stack) : g = Top \/ g \in FramesOf(t)
              /\ f \in FramesOf(t)
<1> DEFINE s == Tail(stack)
<1>1. /\ s \in Seq(Frame) /\ Distinct(s)
      /\ \A g \in FramesOf(s) : g \in FramesOf(stack) /\ g.key # Top.key
      /\ \A g \in FramesOf(stack) : g = Top \/ g \in FramesOf(s)
  BY TopAndTail
<1> HIDE DEF s
<1>2. LET t == <<f>> \o s
      IN t \in Seq(Frame) /\ Distinct(t) /\ t # <<>> /\ FramesOf(t) = FramesOf(s) \cup {f}
  BY <1>1, Pushed, SMT
<1> QED  BY <1>1, <1>2 DEF s

-----------------------------------------------------------------------------
(***************************************************************************)
(* The worker: where it is.                                                *)
(***************************************************************************)
InJob == pc \in Reading \cup Copying

WorkTypes ==
    /\ pc \in {"idle", "next", "prune"} \cup Reading \cup Copying
    /\ stack \in Seq(Frame) /\ Distinct(stack)
    /\ exported \subseteq Keys /\ current \subseteq Keys
    /\ dst \in [Dests -> [Keys -> Kinds]]
    /\ pc \notin {"version", "copy"} => stack = <<>>
    /\ ~InJob \/ pc = "snapshot" => exported = {}

\* Whose record the worker has in hand, and which it has still to work on.
Jobs ==
    /\ InJob => /\ job.name \in DOMAIN home /\ job.dest = home[job.name]
                /\ job.dest \in Dests /\ job.name \notin DOMAIN todo
    /\ pc \in {"idle", "prune"} => DOMAIN todo = {}
    /\ \A n \in DOMAIN todo : n \in DOMAIN home /\ todo[n].dest = home[n]

\* A stored offset is at or behind the one that is worked on.
Cursors ==
    /\ \A n \in DOMAIN todo : /\ n \in DOMAIN exporters => exporters[n].offset <= todo[n].offset
                              /\ todo[n].offset < floor => todo[n].offset = 0
    /\ InJob /\ job.name \in DOMAIN exporters => exporters[job.name].offset <= at
    /\ pc \in Copying => at = 0

\* A version under export is one of this batch, and was published; the
\* references that are not to come any more are of this batch too.
Frames ==
    \A f \in FramesOf(stack) :
        /\ f.key \in exported /\ Shown(f.key)
        /\ f.refs \subseteq Refs[f.key] /\ Refs[f.key] \ f.refs \subseteq exported
        /\ f.step # "refs" => f.refs = {}
        /\ f.step = "mirror" => f.kind = "deleted"

\* A version is under export, while events are read, for the sake of one that
\* references it, whose registration is the event.
Reads ==
    /\ pc = "version" /\ stack # <<>> =>
          /\ Event.kind = "live" /\ Event.key \in Selected /\ Shown(Event.key)
          /\ \A f \in FramesOf(stack) : Event.key \in Above(f.key)
    /\ pc = "version" /\ Event.kind = "live" /\ Event.key \in Selected => Event.key \in exported

\* What is copied was registered by the time the copy began, and the versions
\* that are followed are all among it.
Copies ==
    pc \in {"copy", "reconcile"} =>
        /\ copies
        /\ \E c \in until..Len(log) :
              /\ \A k \in exported \cup current : Has(k, "live", c)
              /\ \A k \in Keys : Follow(k) /\ Has(k, "live", c) => k \in current

WorkInv == WorkTypes /\ Jobs /\ Cursors /\ Frames /\ Reads /\ Copies

(***************************************************************************)
(* The worker: what the destinations hold.                                 *)
(***************************************************************************)
\* Where a version is seen from: the offset, or the end of the log to copy.
Pos == IF pc \in Reading THEN at ELSE until

GoodAt(d, x) == \A k \in Selected : Follow(k) => GoodKey(k, dst[d][k], x)

Stored == \A n \in DOMAIN exporters : GoodAt(home[n], exporters[n].offset)
Listed == \A n \in DOMAIN todo : GoodAt(home[n], todo[n].offset)
Standing == pc \in Reading => GoodAt(job.dest, at)

\* A version is at a destination only after its registration.
Heard == \A d \in Dests, k \in Keys : dst[d][k] # "absent" => Ever(k, "live")

\* A version under export is what the source had at the offset, or later.
FrameGood ==
    InJob => \A f \in FramesOf(stack) :
        f.key \in Selected /\ Follow(f.key) =>
            /\ f.kind = "live" => ~Has(f.key, "deleted", Pos)
            /\ f.kind = "deleted" => Ever(f.key, "deleted")
            /\ ~Has(f.key, "absent", Pos)
            /\ f.step = "mirror" => Here[f.key] = "live"

\* A version that was exported is as the source had it at the offset, or later.
DoneGood ==
    InJob => \A k \in exported \cap Selected :
        Follow(k) /\ ~OnStack(k) /\ ~Ever(k, "absent") =>
            /\ Here[k] # "absent"
            /\ ~Ever(k, "deleted") => Here[k] = "live"
            /\ Has(k, "deleted", Pos) => Here[k] = "deleted"

EventGood ==
    pc = "version" /\ Event.key \in Selected /\ Follow(Event.key) =>
        /\ Event.kind = "deleted" => Here[Event.key] # "live"
        /\ Event.kind = "absent" => Here[Event.key] = "absent"

\* The one version that is skipped because it is not published yet: what it
\* references is met again, if need be.
Skipped(m) ==
    /\ pc = "version" /\ stack = <<>> /\ at + 1 = until
    /\ \A k \in Selected :
          Follow(k) /\ m \in Above(k) /\ m # k /\ Here[k] = "live" /\ Has(k, "deleted", at) => Redo(k, at + 1)

\* What an exported version references is exported with it.
Closed ==
    pc \in Reading => \A m \in exported :
        ~OnStack(m) /\ ~Ever(m, "absent") => Refs[m] \subseteq exported \/ Skipped(m)

KeyInv == Stored /\ Listed /\ Standing /\ Heard /\ FrameGood /\ DoneGood /\ EventGood /\ Closed

CopyInv == WorkInv /\ KeyInv

-----------------------------------------------------------------------------
(***************************************************************************)
(* A step at which source and history only grow.                           *)
(***************************************************************************)
\* The hypotheses of every step.
Step == IInv /\ IInv' /\ SourceInv /\ SourceInv' /\ Grows /\ Homes /\ Homes' /\ CopyInv

\* Nothing of an exporter's place changes but what the source did.
LEMMA GoodAtLater ==
    ASSUME Step, NEW d, NEW y \in 0..Len(log), GoodAt(d, y), dst'[d] = dst[d]
    PROVE  GoodAt(d, y)'
<1>1. /\ \A k : Follow(k)' => Follow(k)
      /\ \A k, v : GoodKey(k, v, y) => GoodKey(k, v, y)'
  BY Later DEF Step, IInv
<1>2. \A k \in Selected : Follow(k)' => GoodKey(k, dst[d][k], y)'
  BY <1>1 DEF GoodAt
<1> QED  BY <1>2 DEF GoodAt

LEMMA GoodAtZero ==
    ASSUME NEW k, NEW v
    PROVE  GoodKey(k, v, 0) /\ GoodKey(k, v, 0)'
BY SMT DEF GoodKey, Has

\* A write at the destination of the job hurts no exporter behind the worker.
DstKept ==
    \/ dst' = dst
    \/ /\ InJob /\ UNCHANGED <<rows, snap, log>>
       /\ \A d : d # job.dest => dst'[d] = dst[d]
       /\ \A k \in Selected : Follow(k) =>
             \A x \in 0..at : GoodKey(k, dst[job.dest][k], x) => GoodKey(k, dst'[job.dest][k], x)

LEMMA StoredKept ==
    ASSUME Step, DstKept,
           \A n \in DOMAIN exporters' :
               \/ exporters'[n].offset = 0
               \/ n \in DOMAIN exporters /\ exporters'[n].offset = exporters[n].offset
               \/ GoodAt(home[n], exporters[n].offset)'
    PROVE  Stored'
<1> SUFFICES ASSUME NEW n \in DOMAIN exporters' PROVE GoodAt(home[n], exporters[n].offset)'
  BY DEF Stored
<1>1. CASE exporters'[n].offset = 0
  BY <1>1, GoodAtZero DEF GoodAt
<1>2. CASE n \in DOMAIN exporters /\ exporters'[n].offset = exporters[n].offset
  <2>1. PICK y \in 0..Len(log) : y = exporters[n].offset
    BY <1>2, SMT DEF Step, IInv, Shape, RecordsIn, Rec
  <2>2. GoodAt(home[n], y)
    BY <1>2, <2>1 DEF Step, CopyInv, KeyInv, Stored
  <2>3. CASE dst'[home[n]] = dst[home[n]]
    <3>1. GoodAt(home[n], y)'
      BY <2>2, <2>3, GoodAtLater
    <3> QED  BY <1>2, <2>1, <3>1
  <2>4. CASE dst'[home[n]] # dst[home[n]]
    <3>1. InJob /\ home[n] = job.dest
      BY <2>4 DEF DstKept
    <3>2. n = job.name
      BY <1>2, <3>1, SMT DEF Step, Homes, CopyInv, WorkInv, Jobs
    <3>3. y \in 0..at
      BY <1>2, <2>1, <3>1, <3>2, SMT DEF Step, CopyInv, WorkInv, Cursors, IInv, Shape
    <3>4. \A k \in Selected : Follow(k) => GoodKey(k, dst'[home[n]][k], y)
      BY <2>2, <2>4, <3>1, <3>3 DEF DstKept, GoodAt
    <3>5. /\ \A k : Follow(k)' => Follow(k)
          /\ \A k, v : GoodKey(k, v, y) => GoodKey(k, v, y)'
      BY Later DEF Step, IInv
    <3>6. \A k \in Selected : Follow(k)' => GoodKey(k, dst[home[n]][k], y)'
      BY <3>4, <3>5
    <3> QED  BY <1>2, <2>1, <3>6 DEF GoodAt
  <2> QED  BY <2>3, <2>4
<1> QED  BY <1>1, <1>2

LEMMA ListedKept ==
    ASSUME Step, DstKept, \A n \in DOMAIN todo' : n \in DOMAIN todo /\ todo'[n] = todo[n]
    PROVE  Listed'
<1> SUFFICES ASSUME NEW n \in DOMAIN todo' PROVE GoodAt(home[n], todo[n].offset)'
  BY SMT DEF Listed
<1>1. PICK y \in 0..Len(log) : y = todo[n].offset
  BY SMT DEF Step, IInv, Shape, RecordsIn, Rec
<1>2. GoodAt(home[n], y)
  BY <1>1 DEF Step, CopyInv, KeyInv, Listed
<1>3. dst'[home[n]] = dst[home[n]]
  <2> SUFFICES ASSUME InJob, home[n] = job.dest PROVE FALSE
    BY DEF DstKept
  <2> QED  BY SMT DEF Step, Homes, CopyInv, WorkInv, Jobs
<1>4. GoodAt(home[n], y)'
  BY <1>2, <1>3, GoodAtLater
<1> QED  BY <1>1, <1>4

LEMMA StandingKept ==
    ASSUME Step, DstKept, pc' \in Reading => pc \in Reading /\ UNCHANGED <<job, at>>
    PROVE  Standing'
<1> SUFFICES ASSUME pc \in Reading, UNCHANGED <<job, at>> PROVE GoodAt(job.dest, at)'
  BY DEF Standing
<1>1. at \in Nat /\ at <= Len(log) /\ Len(log) \in Nat
  BY SMT DEF Step, IInv, Shape, Place
<1>2. PICK y \in 0..Len(log) : y = at /\ y \in 0..at
  BY <1>1, SMT
<1>3. GoodAt(job.dest, y)
  BY <1>2 DEF Step, CopyInv, KeyInv, Standing
<1>4. \A k \in Selected : Follow(k) => GoodKey(k, dst'[job.dest][k], y)
  BY <1>2, <1>3 DEF DstKept, GoodAt
<1>5. /\ \A k : Follow(k)' => Follow(k)
      /\ \A k, v : GoodKey(k, v, y) => GoodKey(k, v, y)'
  BY Later DEF Step, IInv
<1>6. \A k \in Selected : Follow(k)' => GoodKey(k, dst[job.dest][k], y)'
  BY <1>4, <1>5
<1> QED  BY <1>2, <1>6 DEF GoodAt

-----------------------------------------------------------------------------
(***************************************************************************)
(* Steps of others, and steps that end with no record in hand.             *)
(***************************************************************************)
LEMMA HeardLater ==
    ASSUME Step, dst' = dst
    PROVE  Heard'
<1>1. \A k : Ever(k, "live") => Ever(k, "live")'
  BY Later DEF Step, IInv
<1> QED  BY <1>1 DEF Step, CopyInv, KeyInv, Heard

LEMMA PosInLog ==
    ASSUME Step, InJob
    PROVE  Pos \in 0..Len(log)
BY SMT DEF Step, IInv, Shape, Place, Pos, InJob, Reading, Copying

\* After a step the worker has no record in hand.
LEMMA OutOfJob ==
    ASSUME Step, pc' \in {"idle", "next", "prune"}, stack' = <<>>, exported' = {}, current' \subseteq Keys,
           dst' \in [Dests -> [Keys -> Kinds]],
           pc' \in {"idle", "prune"} => DOMAIN todo' = {},
           \A n \in DOMAIN todo' : n \in DOMAIN home /\ todo'[n].dest = home[n],
           \A n \in DOMAIN todo' : /\ n \in DOMAIN exporters' => exporters'[n].offset <= todo'[n].offset
                                   /\ todo'[n].offset < floor' => todo'[n].offset = 0,
           Stored', Listed', Heard'
    PROVE  CopyInv'
<1>1. pc' \notin Reading \cup Copying
  BY DEF Reading, Copying
<1>2. WorkTypes'
  BY EmptyStack DEF WorkTypes
<1>3. Jobs' /\ Cursors'
  BY <1>1 DEF Jobs, Cursors, InJob
<1>4. Frames' /\ Reads' /\ Copies'
  BY EmptyStack DEF Frames, Reads, Copies
<1>5. Standing' /\ FrameGood' /\ DoneGood' /\ EventGood' /\ Closed'
  BY <1>1 DEF Standing, FrameGood, DoneGood, EventGood, Closed, InJob, Reading
<1> QED  BY <1>2, <1>3, <1>4, <1>5 DEF CopyInv, WorkInv, KeyInv

\* What exporter_state does to the records: at most one moves.
LEMMA OneMoves ==
    ASSUME Shape, NEW STATE n, NEW STATE from, NEW STATE to, NEW state,
           NEW e, e = ExporterState(n, from, to, state)
    PROVE  /\ DOMAIN e = DOMAIN exporters
           /\ \A m \in DOMAIN exporters :
                 e[m].offset = exporters[m].offset \/ (m = n /\ exporters[m].offset = from /\ e[m].offset = to)
<1>1. CASE n \in DOMAIN exporters /\ exporters[n].offset = from
  <2>1. CASE e = exporters
    BY <2>1
  <2>2. CASE e = [exporters EXCEPT ![n].offset = to, ![n].state = state]
    <3>1. DOMAIN e = DOMAIN exporters /\ \A m \in DOMAIN exporters : m # n => e[m] = exporters[m]
      BY <2>2
    <3>2. e[n] = [exporters[n] EXCEPT !.offset = to, !.state = state]
      BY <1>1, <2>2
    <3>3. exporters[n] \in Rec
      BY <1>1 DEF Shape, RecordsIn
    <3>4. e[n].offset = to
      BY <3>2, <3>3 DEF Rec
    <3> QED  BY <1>1, <3>1, <3>4
  <2> QED  BY <2>1, <2>2 DEF ExporterState
<1>2. CASE ~(n \in DOMAIN exporters /\ exporters[n].offset = from)
  BY <1>2 DEF ExporterState
<1> QED  BY <1>1, <1>2

\* The end of an attempt: its record moves to an offset at which the
\* destination is good.
LEMMA EndKeeps ==
    ASSUME Step, InJob, DstKept, Leave, UNCHANGED floor,
           dst' \in [Dests -> [Keys -> Kinds]], Heard',
           NEW state, NEW to, exporters' = ExporterState(job.name, at, to, state),
           NEW d, d = job.dest, to = at \/ GoodAt(d, to)'
    PROVE  CopyInv'
<1> USE DEF Step
<1>1. /\ pc' = "next" /\ stack' = <<>> /\ exported' = {} /\ current' = {}
      /\ todo' = todo /\ floor' = floor
  BY DEF Leave
<1>2. PICK e : e = exporters'
  OBVIOUS
<1>3. /\ DOMAIN e = DOMAIN exporters
      /\ \A m \in DOMAIN exporters :
            \/ e[m].offset = exporters[m].offset
            \/ m = job.name /\ exporters[m].offset = at /\ e[m].offset = to
  BY <1>2, OneMoves, SMT DEF IInv
<1>4. job.dest = home[job.name] /\ job.name \notin DOMAIN todo
  BY DEF CopyInv, WorkInv, Jobs
<1>5. \A m \in DOMAIN exporters' :
          \/ exporters'[m].offset = 0
          \/ m \in DOMAIN exporters /\ exporters'[m].offset = exporters[m].offset
          \/ GoodAt(home[m], exporters[m].offset)'
  <2> SUFFICES ASSUME NEW m \in DOMAIN exporters', m = job.name, exporters'[m].offset = to, to # at
               PROVE  GoodAt(home[m], exporters[m].offset)'
    BY <1>2, <1>3
  <2>1. GoodAt(d, to)' /\ d = home[m]
    BY <1>4
  <2> QED  BY <2>1
<1>6. Stored' /\ Listed'
  BY <1>1, <1>5, StoredKept, ListedKept
<1>7. \A m \in DOMAIN todo' : /\ m \in DOMAIN exporters' => exporters'[m].offset <= todo'[m].offset
                              /\ todo'[m].offset < floor' => todo'[m].offset = 0
  BY <1>1, <1>2, <1>3, <1>4 DEF CopyInv, WorkInv, Cursors
<1>8. \A m \in DOMAIN todo' : m \in DOMAIN home /\ todo'[m].dest = home[m]
  BY <1>1 DEF CopyInv, WorkInv, Jobs
<1> QED  BY <1>1, <1>6, <1>7, <1>8, OutOfJob

=============================================================================
