------------------------------ MODULE Exporter ------------------------------
(***************************************************************************)
(* Exporters (exporter.rs, mutations/exporters.rs, the change log of       *)
(* store.rs): a worker replays the log of this registry, the source, at    *)
(* another one, the destination, while clients write to the source and an  *)
(* operator creates, pauses, resumes, resets and deletes exporters.        *)
(*                                                                         *)
(* The source is one context.  A key is a version of a subject, and a      *)
(* version is absent, live or (softly) deleted; its content follows from   *)
(* its key.  A mutation changes one version and logs one event: it is      *)
(* durable first and published next (module Engine), and the worker reads  *)
(* the log from the store and the versions from the published snapshot.    *)
(* Every call of the destination may fail, before or after it took effect. *)
(* The destination is another registry, modelled by how it answers the     *)
(* calls of the worker.                                                    *)
(***************************************************************************)
EXTENDS Integers, Sequences, FiniteSets, FiniteSetsExt

CONSTANTS
    Names,          \* names of exporters
    Keys,           \* <<subject, version>>
    Refs,           \* the keys each key references
    Selected,       \* the keys the exporters' patterns match
    Purged,         \* the keys clients delete for good
    Taken,          \* keys whose id may have other content at the destinations
    Dests,          \* destinations
    Ops,            \* what the operators do in this instance
    Batch,          \* events read at a time
    MaxLog,         \* bound: events logged
    MaxOps,         \* bound: operations of operators
    MaxWork,        \* bound: events and operations together
    MaxFaults       \* bound: failed calls of the destination, and crashes of the server

Kinds  == {"absent", "live", "deleted"}
States == {"RUNNING", "ERROR", "PAUSED", "FAILED"}

ASSUME ExporterAssumption ==
    /\ Refs \in [Keys -> SUBSET Keys]
    /\ Selected \subseteq Keys /\ Purged \subseteq Keys /\ Taken \subseteq Keys
    /\ Batch \in Nat \ {0}
    /\ MaxLog \in Nat /\ MaxOps \in Nat /\ MaxWork \in Nat /\ MaxFaults \in Nat

VARIABLES
    rows,       \* the durable versions of the source
    snap,       \* the published ones
    log,        \* every event ever logged; event i is log[i + 1]
    floor,      \* events below it were trimmed
    exporters,  \* name -> [state, offset, dest], the stored records
    dst,        \* the versions each destination holds
    mode,       \* the mode of each destination context
    taken,      \* the keys whose id has other content at the destinations
    \* The worker:
    pc,         \* where it is
    todo,       \* records listed and not yet worked on
    job,        \* the record it works on, with its name
    at,         \* the offset it has reached
    until,      \* the end of the events it has read, or of the log to copy
    current,    \* versions still to copy when the log does not go back far enough
    exported,   \* versions exported in this batch
    stack,      \* the versions being exported, a version above its referrer
    keep,       \* where the log is about to be trimmed
    ready,      \* destinations known to be in IMPORT mode
    \* History and bounds:
    early,      \* versions read while a change of them was not yet published
    copies,     \* whether an exporter has copied what there is
    ops, faults

source   == <<rows, snap, log>>
worker   == <<pc, todo, job, at, until, current, exported, stack, keep, ready>>
history  == <<early, copies>>
counters == <<ops, faults>>
vars     == <<source, floor, exporters, dst, mode, taken, worker, history, counters>>

NoJob == [name |-> "none"]
NoExporters == [n \in {} |-> n]

Init ==
    /\ rows = [k \in Keys |-> "absent"] /\ snap = rows
    /\ log = <<>> /\ floor = 0
    /\ exporters = NoExporters
    /\ dst = [d \in Dests |-> [k \in Keys |-> "absent"]]
    /\ mode = [d \in Dests |-> "READWRITE"] /\ taken \in {{}, Taken}
    /\ pc = "idle" /\ todo = NoExporters /\ job = NoJob /\ at = 0 /\ until = 0
    /\ current = {} /\ exported = {} /\ stack = <<>> /\ keep = 0 /\ ready = {}
    /\ early = {} /\ copies = FALSE /\ ops = 0 /\ faults = 0

-----------------------------------------------------------------------------
(***************************************************************************)
(* The source.                                                             *)
(***************************************************************************)
Referrers(table, k) == {j \in Keys : table[j] = "live" /\ k \in Refs[j]}

\* The batch of one mutation: its row and its event are durable together.
\* The next one waits for its publication (the lock of the context).
Write(k, kind) ==
    /\ snap = rows /\ Len(log) < MaxLog /\ Len(log) + ops < MaxWork
    /\ rows' = [rows EXCEPT ![k] = kind]
    /\ log' = Append(log, [kind |-> kind, key |-> k])
    /\ UNCHANGED <<snap, floor, exporters, dst, mode, taken, worker, history, counters>>

\* A new version has the next number of its subject.
Register(k) ==
    /\ rows[k] = "absent"
    /\ \A r \in Refs[k] : rows[r] # "absent"
    /\ \A j \in Keys : j[1] = k[1] => (rows[j] # "absent" <=> j[2] < k[2])
    /\ Write(k, "live")
SoftDelete(k) == rows[k] = "live" /\ Referrers(rows, k) = {} /\ Write(k, "deleted")
HardDelete(k) ==
    k \in Purged /\ rows[k] = "deleted" /\ Referrers(rows, k) = {} /\ Write(k, "absent")

Publish ==
    /\ snap # rows
    /\ snap' = rows
    /\ UNCHANGED <<rows, log, floor, exporters, dst, mode, taken, worker, history, counters>>

-----------------------------------------------------------------------------
(***************************************************************************)
(* The operators of the source and of the destination.                     *)
(***************************************************************************)
Operate(op) ==
    /\ op \in Ops /\ ops < MaxOps /\ Len(log) + ops < MaxWork /\ ops' = ops + 1
    /\ UNCHANGED <<source, floor, dst, taken, worker, history, faults>>

Store(n, rec) == exporters' = [m \in DOMAIN exporters \cup {n} |-> IF m = n THEN rec ELSE exporters[m]]

CreateExporter(n, d) ==
    /\ Operate("create")
    /\ n \notin DOMAIN exporters
    /\ Store(n, [state |-> "RUNNING", offset |-> 0, dest |-> d])
    /\ UNCHANGED mode
DeleteExporter(n) ==
    /\ Operate("delete")
    /\ n \in DOMAIN exporters
    /\ exporters' = [m \in DOMAIN exporters \ {n} |-> exporters[m]]
    /\ UNCHANGED mode

\* A paused exporter that is reset stays paused; a failed one is not resumed.
Transition(n, op) ==
    /\ Operate(op)
    /\ n \in DOMAIN exporters
    /\ op = "resume" => exporters[n].state # "FAILED"
    /\ Store(n, [exporters[n] EXCEPT
          !.state = CASE op = "pause" -> "PAUSED"
                      [] op = "resume" -> "RUNNING"
                      [] op = "reset" -> IF @ = "PAUSED" THEN @ ELSE "RUNNING",
          !.offset = IF op = "reset" THEN 0 ELSE @])
    /\ UNCHANGED mode

SetDestinationMode(d, m) ==
    /\ Operate("mode")
    /\ mode' = [mode EXCEPT ![d] = m]
    /\ UNCHANGED exporters

-----------------------------------------------------------------------------
(***************************************************************************)
(* The worker.                                                             *)
(***************************************************************************)
\* Mutant: a record that was paused meanwhile is overwritten.
ExporterStateAnyway(n, from, to, state) ==
    IF n \in DOMAIN exporters /\ exporters[n].offset = from
    THEN [exporters EXCEPT ![n].offset = to, ![n].state = state]
    ELSE exporters

\* exporter_state: nothing is written when the exporter is gone, its offset
\* is another one, or it waits for an operator.
ExporterState(n, from, to, state) ==
    IF /\ n \in DOMAIN exporters
       /\ exporters[n].offset = from
       /\ exporters[n].state \notin {"PAUSED", "FAILED"}
    THEN [exporters EXCEPT ![n].offset = to, ![n].state = state]
    ELSE exporters

Work == UNCHANGED <<source, taken, copies, ops>>

\* run: list the exporters, work on each, and now and then trim the log.
List ==
    /\ pc = "idle"
    /\ pc' = "next"
    /\ todo' = exporters
    /\ Work /\ UNCHANGED <<floor, exporters, dst, mode, job, at, until, current, exported, stack, keep,
                           ready, early, faults>>

\* The end of work on a record.
Leave ==
    /\ pc' = "next" /\ job' = NoJob /\ at' = 0 /\ until' = 0
    /\ current' = {} /\ exported' = {} /\ stack' = <<>>
    /\ UNCHANGED <<todo, keep>>

\* Mutant: what stopped in an error is not taken up again.
TakeRunning(n) ==
    LET rec == todo[n]
        waits == rec.state \in {"PAUSED", "FAILED", "ERROR"}
        copy == rec.offset < floor
        end == IF copy THEN Len(log) ELSE Min({Len(log), rec.offset + Batch})
        idle == ~copy /\ end <= rec.offset
    IN /\ pc = "next"
       /\ todo' = [m \in DOMAIN todo \ {n} |-> todo[m]]
       /\ IF waits \/ idle THEN UNCHANGED <<pc, job, at, until>>
          ELSE /\ pc' = IF copy THEN "snapshot" ELSE "events"
               /\ job' = [name |-> n, dest |-> rec.dest]
               /\ at' = rec.offset /\ until' = end
       /\ exporters' = IF ~waits /\ idle /\ rec.state = "ERROR"
                       THEN ExporterState(n, rec.offset, rec.offset, "RUNNING") ELSE exporters
       /\ Work /\ UNCHANGED <<floor, dst, mode, current, exported, stack, keep, ready, early, faults>>

\* export_batch, up to its first call: a record that waits for an operator is
\* skipped; one below the floor copies what there is; the others read events,
\* and without any an error is over.
Take(n) ==
    LET rec == todo[n]
        waits == rec.state \in {"PAUSED", "FAILED"}
        copy == rec.offset < floor
        end == IF copy THEN Len(log) ELSE Min({Len(log), rec.offset + Batch})
        idle == ~copy /\ end <= rec.offset
    IN /\ pc = "next"
       /\ todo' = [m \in DOMAIN todo \ {n} |-> todo[m]]
       /\ IF waits \/ idle THEN UNCHANGED <<pc, job, at, until>>
          ELSE /\ pc' = IF copy THEN "snapshot" ELSE "events"
               /\ job' = [name |-> n, dest |-> rec.dest]
               /\ at' = rec.offset /\ until' = end
       /\ exporters' = IF ~waits /\ idle /\ rec.state = "ERROR"
                       THEN ExporterState(n, rec.offset, rec.offset, "RUNNING") ELSE exporters
       /\ Work /\ UNCHANGED <<floor, dst, mode, current, exported, stack, keep, ready, early, faults>>

\* Mutant: what the exporters still need is not asked.
PruneFloorEnd == {Len(log)}

\* prune_floor: the lowest offset; the whole log is free without exporters.
PruneFloor ==
    LET needed == {Len(log)} \cup {exporters[n].offset : n \in DOMAIN exporters}
    IN {m \in needed : \A o \in needed : m <= o}

Rest ==
    /\ pc = "next" /\ todo = NoExporters
    /\ \/ pc' = "idle" /\ keep' = keep
       \/ pc' = "prune" /\ keep' \in PruneFloor
    /\ Work /\ UNCHANGED <<floor, exporters, dst, mode, todo, job, at, until, current, exported, stack,
                           ready, early, faults>>

PruneLog ==
    /\ pc = "prune"
    /\ floor' = Max({floor, keep})
    /\ pc' = "idle" /\ keep' = 0
    /\ Work /\ UNCHANGED <<exporters, dst, mode, todo, job, at, until, current, exported, stack, ready,
                           early, faults>>

-----------------------------------------------------------------------------
(***************************************************************************)
(* Calls of the destination.  A call is lost before it takes effect, its   *)
(* answer is lost, or both arrive; a loss stops the attempt in ERROR.      *)
(***************************************************************************)
Fates == {"answered", "unsent", "unanswered"}
Fate(fate) == IF fate = "answered" THEN UNCHANGED faults
              ELSE faults < MaxFaults /\ faults' = faults + 1

\* Mutant: the event that failed is skipped.
HaltPast(state) ==
    /\ exporters' = ExporterState(job.name, at, at + 1, state)
    /\ ready' = ready \ {job.dest}
    /\ Leave

\* The attempt stops: its state is recorded and the modes known are forgotten.
Halt(state) ==
    /\ exporters' = ExporterState(job.name, at, at, state)
    /\ ready' = ready \ {job.dest}
    /\ Leave

\* classify, of a write that was not permitted.
NotPermitted == IF mode[job.dest] = "IMPORT" THEN "FAILED" ELSE "PAUSED"

Here == dst[job.dest]
Unused(d) == taken = {} /\ \A k \in Keys : dst[d][k] = "absent"
Put(k, kind) == [dst EXCEPT ![job.dest][k] = kind]

\* POST of a version with its id and number: the content it has afterwards, and
\* what the worker makes of the answer.
PostVersion(k) ==
    IF \E r \in Refs[k] : Here[r] = "absent" THEN [dst |-> dst, is |-> "ERROR"]
    ELSE IF Here[k] = "live" /\ k \notin taken THEN [dst |-> dst, is |-> "ok"]
    ELSE IF mode[job.dest] # "IMPORT" \/ k \in taken THEN [dst |-> dst, is |-> NotPermitted]
    ELSE [dst |-> Put(k, "live"), is |-> "ok"]

\* DELETE of a version, softly or for good: what is gone already, or not
\* softly deleted yet, is fine for a replay.
DeleteVersion(k, permanent) ==
    IF Here[k] = "absent" \/ (Here[k] = "deleted" /\ ~permanent) THEN [dst |-> dst, is |-> "ok"]
    ELSE IF Referrers(Here, k) # {} THEN [dst |-> dst, is |-> "ERROR"]
    ELSE IF Here[k] = "live" /\ permanent THEN [dst |-> dst, is |-> "ok"]
    ELSE IF mode[job.dest] = "READONLY" THEN [dst |-> dst, is |-> NotPermitted]
    ELSE [dst |-> Put(k, IF permanent THEN "absent" ELSE "deleted"), is |-> "ok"]

\* DELETE of a whole subject for good: only "not found" is fine.
DeleteSubject(s) ==
    LET ks == {k \in Keys : k[1] = s /\ Here[k] # "absent"}
    IN IF ks = {} THEN [dst |-> dst, is |-> "ok"]
       ELSE IF \E k \in ks : Here[k] = "live" \/ Referrers(Here, k) # {} THEN [dst |-> dst, is |-> "ERROR"]
       ELSE IF mode[job.dest] = "READONLY" THEN [dst |-> dst, is |-> NotPermitted]
       ELSE [dst |-> [dst EXCEPT ![job.dest] = [k \in Keys |-> IF k \in ks THEN "absent" ELSE @[k]]],
             is |-> "ok"]

\* A write: the worker goes on (next) only if it was answered and accepted.
Send(call, fate, next) ==
    /\ Fate(fate)
    /\ dst' = IF fate = "unsent" THEN dst ELSE call.dst
    /\ IF fate # "answered" THEN Halt("ERROR")
       ELSE IF call.is # "ok" THEN Halt(call.is)
       ELSE next
    /\ Work /\ UNCHANGED <<floor, mode, early>>

\* ensure_import_mode: a destination not known to be in IMPORT mode is asked;
\* it is put there only while it is empty.
EnsureImportMode(fate, next) ==
    LET d == job.dest
        set == d \notin ready /\ mode[d] # "IMPORT" /\ Unused(d)
    IN /\ Fate(fate)
       /\ fate # "answered" => d \notin ready
       /\ mode' = IF set /\ fate # "unsent" THEN [mode EXCEPT ![d] = "IMPORT"] ELSE mode
       /\ IF fate # "answered" THEN Halt("ERROR")
          ELSE IF d \in ready \/ mode'[d] = "IMPORT" THEN ready' = ready \cup {d} /\ next
          ELSE Halt("PAUSED")
       /\ Work /\ UNCHANGED <<floor, dst, early>>

-----------------------------------------------------------------------------
(***************************************************************************)
(* export_version: references first, then the mode, then the version, and  *)
(* its soft deletion if the source shows one.                              *)
(***************************************************************************)
\* Export a version unless this batch did, or there is none to be seen.
Visit(k, below) ==
    /\ exported' = exported \cup {k}
    /\ early' = IF k \notin exported /\ snap[k] # rows[k] THEN early \cup {k} ELSE early
    /\ stack' = IF k \in exported \/ snap[k] = "absent" THEN below
                ELSE <<[key |-> k, kind |-> snap[k], refs |-> Refs[k], step |-> "refs"]>> \o below

Top == stack[1]
Pop == stack' = Tail(stack)
Goto(step) == stack' = <<[Top EXCEPT !.step = step]>> \o Tail(stack)
Busy == pc \in {"version", "copy"} /\ stack # <<>>
Stay == UNCHANGED <<exporters, pc, todo, job, at, until, current, exported, keep>>

ExportReference(r) ==
    /\ Busy /\ Top.step = "refs" /\ r \in Top.refs
    /\ Visit(r, <<[Top EXCEPT !.refs = @ \ {r}]>> \o Tail(stack))
    /\ Work /\ UNCHANGED <<floor, exporters, dst, mode, pc, todo, job, at, until, current, keep, ready,
                           faults>>

ExportMode(fate) ==
    /\ Busy /\ Top.step = "refs" /\ Top.refs = {}
    /\ EnsureImportMode(fate, Goto("post") /\ Stay)

ExportPost(fate) ==
    /\ Busy /\ Top.step = "post"
    /\ Send(PostVersion(Top.key), fate,
            /\ IF Top.kind = "deleted" THEN Goto("mirror") ELSE Pop
            /\ Stay /\ UNCHANGED ready)

ExportMirror(fate) ==
    /\ Busy /\ Top.step = "mirror"
    /\ Send(DeleteVersion(Top.key, FALSE), fate, Pop /\ Stay /\ UNCHANGED ready)

-----------------------------------------------------------------------------
(***************************************************************************)
(* export_batch: one event after the other, each followed by its commit.   *)
(***************************************************************************)
Event == log[at + 1]

\* An event that no pattern matches is only committed.
StartEvent ==
    /\ pc = "events"
    /\ Event.key \in Selected => Event.kind = "live"
    /\ pc' = "version"
    /\ IF Event.key \in Selected THEN Visit(Event.key, <<>>) ELSE UNCHANGED <<exported, early, stack>>
    /\ Work /\ UNCHANGED <<floor, exporters, dst, mode, todo, job, at, until, current, keep, ready, faults>>

DeleteEvent(fate) ==
    /\ pc = "events"
    /\ Event.key \in Selected /\ Event.kind # "live"
    /\ Send(DeleteVersion(Event.key, Event.kind = "absent"), fate,
            /\ pc' = "version"
            /\ UNCHANGED <<exporters, todo, job, at, until, current, exported, stack, keep, ready>>)

Progress ==
    /\ pc = "version" /\ stack = <<>>
    /\ exporters' = ExporterState(job.name, at, at + 1, "RUNNING")
    /\ IF at + 1 = until THEN Leave
       ELSE pc' = "events" /\ at' = at + 1 /\ UNCHANGED <<todo, job, until, current, exported, stack, keep>>
    /\ Work /\ UNCHANGED <<floor, dst, mode, ready, early, faults>>

(***************************************************************************)
(* export_batch below the floor: copy what there is, and remove subjects   *)
(* the source no longer has (reconcile_bootstrap).                         *)
(***************************************************************************)
\* The end of the log was read before (Take).
Snapshot ==
    /\ pc = "snapshot"
    /\ pc' = "copy"
    /\ current' = {k \in Keys : snap[k] # "absent"}
    /\ early' = early \cup {k \in Keys : snap[k] # rows[k]} /\ copies' = TRUE
    /\ UNCHANGED <<source, taken, ops>> /\ UNCHANGED <<floor, exporters, dst, mode, todo, job, at, until, exported, stack, keep, ready,
                           faults>>

CopyVersion(k) ==
    /\ pc = "copy" /\ stack = <<>>
    /\ k \in (current \cap Selected) \ exported
    /\ Visit(k, <<>>)
    /\ Work /\ UNCHANGED <<floor, exporters, dst, mode, pc, todo, job, at, until, current, keep, ready,
                           faults>>

Copied == pc = "copy" /\ stack = <<>> /\ current \cap Selected \subseteq exported

\* Subjects of the destination that the patterns match and the source has not.
Orphans ==
    {k[1] : k \in {j \in Selected : Here[j] # "absent"}} \ {k[1] : k \in current \cap Selected}

ReconcileMode(fate) ==
    /\ Copied /\ Orphans # {}
    /\ EnsureImportMode(fate,
            /\ pc' = "reconcile"
            /\ UNCHANGED <<exporters, todo, job, at, until, current, exported, stack, keep>>)

Reconcile(s, fate) ==
    /\ pc = "reconcile" /\ s \in Orphans
    /\ Send(DeleteSubject(s), fate,
            /\ pc' = "copy"
            /\ UNCHANGED <<exporters, todo, job, at, until, current, exported, stack, keep, ready>>)

\* No subject is left to remove, says the destination.
CopyDone(fate) ==
    /\ Copied /\ Orphans = {}
    /\ Fate(fate)
    /\ IF fate = "answered"
       THEN exporters' = ExporterState(job.name, at, until, "RUNNING") /\ Leave /\ UNCHANGED ready
       ELSE Halt("ERROR")
    /\ Work /\ UNCHANGED <<floor, dst, mode, early>>

-----------------------------------------------------------------------------
\* The server stops and starts again; what was durable is published.
Crash ==
    /\ faults < MaxFaults /\ faults' = faults + 1
    /\ snap' = rows
    /\ pc' = "idle" /\ todo' = NoExporters /\ job' = NoJob /\ at' = 0 /\ until' = 0
    /\ current' = {} /\ exported' = {} /\ stack' = <<>> /\ keep' = 0 /\ ready' = {}
    /\ UNCHANGED <<rows, log, floor, exporters, dst, mode, taken, history, ops>>

Client == \E k \in Keys : Register(k) \/ SoftDelete(k) \/ HardDelete(k)

Operator ==
    \/ \E n \in Names :
          \/ \E d \in Dests : CreateExporter(n, d)
          \/ DeleteExporter(n)
          \/ \E op \in {"pause", "resume", "reset"} : Transition(n, op)
    \/ \E d \in Dests, m \in {"IMPORT", "READWRITE", "READONLY"} : SetDestinationMode(d, m)

Worker ==
    \/ List \/ Rest \/ PruneLog \/ StartEvent \/ Progress \/ Snapshot
    \/ \E n \in DOMAIN todo : Take(n)
    \/ \E k \in Keys : ExportReference(k) \/ CopyVersion(k)
    \/ \E fate \in Fates :
          \/ ExportMode(fate) \/ ExportPost(fate) \/ ExportMirror(fate) \/ DeleteEvent(fate)
          \/ ReconcileMode(fate) \/ CopyDone(fate)
          \/ \E s \in {k[1] : k \in Keys} : Reconcile(s, fate)

Next == Client \/ Publish \/ Operator \/ Worker \/ Crash

Spec == Init /\ [][Next]_vars

(***************************************************************************)
(* The worker task goes on (its loop ends only with the process), and a    *)
(* mutation that is durable is published by the thread that committed it.  *)
(***************************************************************************)
FairSpec == Spec /\ WF_vars(Worker) /\ WF_vars(Publish)

-----------------------------------------------------------------------------
Records == [state : States, offset : 0..MaxLog, dest : Dests]

\* The tables, the cursors and the worker's registers have their types.
TypeOK ==
    /\ rows \in [Keys -> Kinds] /\ snap \in [Keys -> Kinds]
    /\ log \in Seq([kind : Kinds, key : Keys]) /\ Len(log) \in 0..MaxLog
    /\ floor \in 0..Len(log)
    /\ DOMAIN exporters \subseteq Names /\ \A n \in DOMAIN exporters : exporters[n] \in Records
    /\ DOMAIN todo \subseteq Names /\ \A n \in DOMAIN todo : todo[n] \in Records
    /\ dst \in [Dests -> [Keys -> Kinds]]
    /\ taken \subseteq Taken
    /\ mode \in [Dests -> {"IMPORT", "READWRITE", "READONLY"}]
    /\ pc \in {"idle", "next", "prune", "events", "version", "snapshot", "copy", "reconcile"}
    /\ job \in {NoJob} \cup [name : Names, dest : Dests]
    /\ at \in 0..Len(log) /\ until \in 0..Len(log) /\ keep \in 0..Len(log)
    /\ current \subseteq Keys /\ exported \subseteq Keys /\ early \subseteq Keys /\ ready \subseteq Dests

\* The offset of an exporter is below the floor of the log only when it is
\* zero: what an exporter has still to replay is never trimmed under it, not
\* even when it moves or is reset between prune_floor and prune_log.
TrimmedOnlyAtZero ==
    \A n \in DOMAIN exporters : exporters[n].offset < floor => exporters[n].offset = 0

Settled(n) ==
    /\ pc = "idle" /\ snap = rows
    /\ exporters[n].state = "RUNNING" /\ exporters[n].offset = Len(log)

Logged(k, kind) == {i \in DOMAIN log : log[i] = [kind |-> kind, key |-> k]}

\* The version and those that reference it, directly or through others.
Above(k) ==
    {j \in Keys : \A S \in SUBSET Keys :
        k \in S /\ (\A i \in Keys : Refs[i] \cap S # {} => i \in S) => j \in S}

\* A replay of a version revives the deleted ones it references, and deletes them again:
\* cut off in between, it does so only if it finds them all when it is repeated.
Repeatable(k) ==
    Above(k) # {k} /\ Logged(k, "deleted") # {} => \A j \in Above(k) : Logged(j, "absent") = {}

\* The versions whose copy the code gets right: never read between the commit
\* and the publication of a change of theirs, registered once, not deleted
\* for good if an exporter ever had to copy what there is, and repeatable.
Followed(k) ==
    /\ k \notin early
    /\ \A i, j \in Logged(k, "live") : i = j
    /\ copies => Logged(k, "absent") = {}
    /\ Repeatable(k)

\* An exporter that runs and has consumed the log has made its destination a
\* copy: every version it selects and follows is there exactly as the source
\* has it, whatever was lost, replayed, paused or restarted on the way.
CaughtUp ==
    \A n \in DOMAIN exporters :
        Settled(n) => \A k \in Selected : Followed(k) => dst[exporters[n].dest][k] = rows[k]

\* The same of every version: the worker replays each logged event.
CopiesEveryVersion ==
    \A n \in DOMAIN exporters :
        Settled(n) => \A k \in Selected : dst[exporters[n].dest][k] = rows[k]

\* A paused or failed exporter waits for an operator: no late answer of an
\* attempt that had begun before puts it back to work or moves its offset.
WaitsForOperator ==
    [][\A n \in DOMAIN exporters \cap DOMAIN exporters' :
          exporters[n].state \in {"PAUSED", "FAILED"} /\ ops' = ops => exporters'[n] = exporters[n]]_vars

\* What an exporter cannot get past by itself: a version of a subject that the
\* source has no more is live at the destination; a version deleted at the
\* source is one that a live version of the destination references; a deleted
\* version of the source references one that is gone.
Blocked(n) ==
    LET there == dst[exporters[n].dest]
    IN \/ \E k \in Selected : there[k] = "live" /\ \A j \in Keys : j[1] = k[1] => rows[j] = "absent"
       \/ \E k \in Keys : rows[k] = "deleted" /\ Referrers(there, k) # {}
       \/ \E k \in Keys : rows[k] = "deleted" /\ \E r \in Refs[k] : rows[r] = "absent"

Finished(n) ==
    \/ exporters[n].state \in {"PAUSED", "FAILED"}
    \/ exporters[n].state = "RUNNING" /\ exporters[n].offset = Len(log)

\* Once the clients, the operators and the failures of calls come to an end,
\* every exporter that nobody stopped runs at the end of the log, unless it is
\* blocked by one of the three known obstacles.
Converges == <>[](\A n \in DOMAIN exporters : Finished(n) \/ Blocked(n))

\* The same without exception: failures are retried until they succeed, and an
\* exporter behind the log copies the current state and follows the log again.
RetriesSucceed == <>[](\A n \in DOMAIN exporters : Finished(n))
=============================================================================
