------------------------------- MODULE Engine -------------------------------
(***************************************************************************)
(* The mutation engine (src/src/engine.rs) together with the locks it      *)
(* takes (registry/locks.rs), the transaction of the store (store.rs) and  *)
(* the publication of the snapshot (registry/mod.rs, commit).              *)
(*                                                                         *)
(* What a mutation writes is abstracted to how many mutations each PART of *)
(* the registry holds.  A part is one context (its subjects, ids, indexes, *)
(* settings), the global settings, or the exporter records.  A batch is a  *)
(* delta: it adds one to every part it writes, in the durable rows when it *)
(* commits and in the snapshot when it is published.  A plan made from a   *)
(* stale snapshot, a lost publication, or a log sequence handed out twice  *)
(* all show in these counts.  References between contexts, whose reverse   *)
(* edges a mutation writes outside its own context, are not in this        *)
(* module.                                                                 *)
(***************************************************************************)
EXTENDS Integers, FiniteSets

CONSTANTS
    Writers,        \* threads running mutations
    Contexts,       \* the contexts
    Stripes,        \* the slots of the striped context lock
    Stripe,         \* the slot of each context (the hash in Locks::stripe)
    Global,         \* the part holding the global settings
    Exporters,      \* the part holding the exporter records
    NoOne,          \* nobody holds the lock
    MaxMutations,   \* bound: mutations started in a behaviour
    MaxCrashes,     \* bound: crashes of the server
    MaxEvents       \* bound: change log events of one batch

ASSUME EngineAssumption ==
    /\ Stripe \in [Contexts -> Stripes]
    /\ Global \notin Contexts /\ Exporters \notin Contexts /\ Global # Exporters
    /\ NoOne \notin Writers
    /\ "container" \notin Stripes /\ "exporters" \notin Stripes
    /\ "counters" \notin Stripes /\ "publish" \notin Stripes
    /\ MaxMutations \in Nat /\ MaxCrashes \in Nat /\ MaxEvents \in Nat

Targets == Contexts \cup {Global, Exporters}

\* The parts whose rows the in-memory snapshot mirrors; exporter records are
\* read from the store.
SnapParts == Contexts \cup {Global}

\* The mutexes: "container" stands for the write half of the container RwLock.
Mutexes == Stripes \cup {"container", "exporters", "counters", "publish"}

VARIABLES
    pc,         \* where each writer is in run_inner
    target,     \* the target of its mutation
    owner,      \* who holds each mutex
    shared,     \* who holds the read half of the container lock
    rows,       \* mutations durably in each part
    snap,       \* mutations in each part of the published snapshot
    seen,       \* the snapshot (or exporter rows) a writer planned from
    base,       \* the snapshot a publishing writer loaded
    seq,        \* the log sequence read when the transaction was opened
    logSeq,     \* the durable change log sequence
    logged,     \* history: events in all committed batches
    started,    \* bound counter
    crashes     \* bound counter

locks == <<owner, shared>>
vars  == <<pc, target, locks, rows, snap, seen, base, seq, logSeq, logged, started, crashes>>

\* What a mutation of target t looks at and what it may write.  A global mode
\* change can empty every context (mutations/set_mode.rs).
Reads(t)  == IF t = Global THEN SnapParts ELSE IF t = Exporters THEN {Exporters} ELSE {t, Global}
Writes(t) == IF t = Global THEN SnapParts ELSE {t}

\* One more mutation in each part of P.
Bump(f, P) == [p \in DOMAIN f |-> IF p \in P THEN f[p] + 1 ELSE f[p]]

NoRows == [p \in Targets |-> 0]
NoSnap == [p \in SnapParts |-> 0]

Init ==
    /\ pc = [w \in Writers |-> "idle"]
    /\ target = [w \in Writers |-> Global]
    /\ owner = [m \in Mutexes |-> NoOne]
    /\ shared = {}
    /\ rows = NoRows
    /\ snap = NoSnap
    /\ seen = [w \in Writers |-> NoRows]
    /\ base = [w \in Writers |-> NoSnap]
    /\ seq = [w \in Writers |-> 0]
    /\ logSeq = 0
    /\ logged = 0
    /\ started = 0
    /\ crashes = 0

-----------------------------------------------------------------------------
\* A request arrives whose lock-free look at the snapshot has no answer.
Begin(w, t) ==
    /\ pc[w] = "idle"
    /\ started < MaxMutations
    /\ started' = started + 1
    /\ target' = [target EXCEPT ![w] = t]
    /\ pc' = [pc EXCEPT ![w] = "container"]
    /\ UNCHANGED <<locks, rows, snap, seen, base, seq, logSeq, logged, crashes>>

\* Locks::acquire.  A global target takes the container lock exclusively, the
\* exporter records have a mutex of their own, everything else shares the
\* container lock and goes on to the stripe of its context.
AcquireContainer(w) ==
    /\ pc[w] = "container"
    /\ target[w] = Global
    /\ owner["container"] = NoOne /\ shared = {}
    /\ owner' = [owner EXCEPT !["container"] = w]
    /\ pc' = [pc EXCEPT ![w] = "locked"]
    /\ UNCHANGED <<target, shared, rows, snap, seen, base, seq, logSeq, logged, started, crashes>>

AcquireExporters(w) ==
    /\ pc[w] = "container"
    /\ target[w] = Exporters
    /\ owner["exporters"] = NoOne
    /\ owner' = [owner EXCEPT !["exporters"] = w]
    /\ pc' = [pc EXCEPT ![w] = "locked"]
    /\ UNCHANGED <<target, shared, rows, snap, seen, base, seq, logSeq, logged, started, crashes>>

\* Mutant: a context's writer does not wait for a global mutation.
AcquireSharedAnyway(w) ==
    /\ pc[w] = "container"
    /\ target[w] \in Contexts
    /\ shared' = shared \cup {w}
    /\ pc' = [pc EXCEPT ![w] = "stripe"]
    /\ UNCHANGED <<target, owner, rows, snap, seen, base, seq, logSeq, logged, started, crashes>>

AcquireShared(w) ==
    /\ pc[w] = "container"
    /\ target[w] \in Contexts
    /\ owner["container"] = NoOne
    /\ shared' = shared \cup {w}
    /\ pc' = [pc EXCEPT ![w] = "stripe"]
    /\ UNCHANGED <<target, owner, rows, snap, seen, base, seq, logSeq, logged, started, crashes>>

AcquireStripe(w) ==
    /\ pc[w] = "stripe"
    /\ owner[Stripe[target[w]]] = NoOne
    /\ owner' = [owner EXCEPT ![Stripe[target[w]]] = w]
    /\ pc' = [pc EXCEPT ![w] = "locked"]
    /\ UNCHANGED <<target, shared, rows, snap, seen, base, seq, logSeq, logged, started, crashes>>

\* ReadView::new pins the snapshot; an exporter verb reads its record from the
\* store.  The mode gate and the plan are functions of what is pinned here.
Pin(w) ==
    /\ pc[w] = "locked"
    /\ seen' = [seen EXCEPT ![w] = [p \in Targets |-> IF p \in SnapParts THEN snap[p] ELSE rows[p]]]
    /\ pc' = [pc EXCEPT ![w] = "planned"]
    /\ UNCHANGED <<target, locks, rows, snap, base, seq, logSeq, logged, started, crashes>>

\* run_inner returns: its guards are dropped and its locals are gone.
Leave(w) ==
    /\ pc' = [pc EXCEPT ![w] = "idle"]
    /\ owner' = [m \in Mutexes |-> IF owner[m] = w THEN NoOne ELSE owner[m]]
    /\ shared' = shared \ {w}
    /\ target' = [target EXCEPT ![w] = Global]
    /\ seen' = [seen EXCEPT ![w] = NoRows]
    /\ base' = [base EXCEPT ![w] = NoSnap]
    /\ seq' = [seq EXCEPT ![w] = 0]

\* Mutant: a refusal keeps its locks.
RefuseLocked(w) ==
    /\ pc[w] = "planned"
    /\ pc' = [pc EXCEPT ![w] = "idle"]
    /\ UNCHANGED <<target, locks, rows, snap, seen, base, seq, logSeq, logged, started, crashes>>

\* The gate refuses the mode, or the plan refuses the request.
Refuse(w) ==
    /\ pc[w] = "planned"
    /\ Leave(w)
    /\ UNCHANGED <<rows, snap, logSeq, logged, started, crashes>>

\* Mutant: the sequence is read before the counter lock is held.
OpenTxUnlocked(w) ==
    /\ pc[w] = "planned"
    /\ seq' = [seq EXCEPT ![w] = logSeq]
    /\ pc' = [pc EXCEPT ![w] = "tx"]
    /\ UNCHANGED <<target, locks, rows, snap, seen, base, logSeq, logged, started, crashes>>

\* Store::tx: the counter lock, then the log sequence from the store.
OpenTx(w) ==
    /\ pc[w] = "planned"
    /\ owner["counters"] = NoOne
    /\ owner' = [owner EXCEPT !["counters"] = w]
    /\ seq' = [seq EXCEPT ![w] = logSeq]
    /\ pc' = [pc EXCEPT ![w] = "tx"]
    /\ UNCHANGED <<target, shared, rows, snap, seen, base, logSeq, logged, started, crashes>>

\* Mutant: the exporter mutex is dropped before the publication.
CommitTxEarly(w) ==
    /\ pc[w] = "tx"
    /\ \E n \in 0..MaxEvents :
        /\ logSeq' = IF n = 0 THEN logSeq ELSE seq[w] + n
        /\ logged' = logged + n
    /\ rows' = Bump(rows, Writes(target[w]))
    /\ owner' = [m \in Mutexes |-> IF owner[m] = w /\ m \in {"counters", "exporters"} THEN NoOne ELSE owner[m]]
    /\ pc' = [pc EXCEPT ![w] = "durable"]
    /\ UNCHANGED <<target, shared, snap, seen, base, seq, started, crashes>>

\* Tx::commit: the batch with n log events, the new log sequence when there
\* are any, and the end of the transaction, which frees the counter lock.
CommitTx(w) ==
    /\ pc[w] = "tx"
    /\ \E n \in 0..MaxEvents :
        /\ logSeq' = IF n = 0 THEN logSeq ELSE seq[w] + n
        /\ logged' = logged + n
    /\ rows' = Bump(rows, Writes(target[w]))
    /\ owner' = [owner EXCEPT !["counters"] = NoOne]
    /\ pc' = [pc EXCEPT ![w] = "durable"]
    /\ UNCHANGED <<target, shared, snap, seen, base, seq, started, crashes>>

\* The write of the batch fails: nothing is durable, every guard is dropped.
FailTx(w) ==
    /\ pc[w] = "tx"
    /\ Leave(w)
    /\ UNCHANGED <<rows, snap, logSeq, logged, started, crashes>>

\* Registry::commit: the publish lock and the load of the current snapshot ...
LoadSnapshot(w) ==
    /\ pc[w] = "durable"
    /\ owner["publish"] = NoOne
    /\ owner' = [owner EXCEPT !["publish"] = w]
    /\ base' = [base EXCEPT ![w] = snap]
    /\ pc' = [pc EXCEPT ![w] = "publishing"]
    /\ UNCHANGED <<target, shared, rows, snap, seen, seq, logSeq, logged, started, crashes>>

\* ... and the swap of the pointer; the publish lock is dropped with it.
StoreSnapshot(w) ==
    /\ pc[w] = "publishing"
    /\ snap' = Bump(base[w], Writes(target[w]))
    /\ owner' = [owner EXCEPT !["publish"] = NoOne]
    /\ pc' = [pc EXCEPT ![w] = "published"]
    /\ UNCHANGED <<target, shared, rows, seen, base, seq, logSeq, logged, started, crashes>>

\* run_inner returns its answer and the guard is dropped.
Return(w) ==
    /\ pc[w] = "published"
    /\ Leave(w)
    /\ UNCHANGED <<rows, snap, logSeq, logged, started, crashes>>

\* Registry::exporter_state: the worker's cursor goes to the store under the
\* exporter mutex, without a transaction and without a publication.
PutCursor(w) ==
    /\ pc[w] = "planned"
    /\ target[w] = Exporters
    /\ rows' = Bump(rows, {Exporters})
    /\ Leave(w)
    /\ UNCHANGED <<snap, logSeq, logged, started, crashes>>

\* The process dies and starts again: locks and threads are gone, the snapshot
\* is rebuilt from the durable rows (Store::load_snapshot).
Crash ==
    /\ crashes < MaxCrashes
    /\ crashes' = crashes + 1
    /\ pc' = [w \in Writers |-> "idle"]
    /\ owner' = [m \in Mutexes |-> NoOne]
    /\ shared' = {}
    /\ target' = [w \in Writers |-> Global]
    /\ seen' = [w \in Writers |-> NoRows]
    /\ base' = [w \in Writers |-> NoSnap]
    /\ seq' = [w \in Writers |-> 0]
    /\ snap' = [p \in SnapParts |-> rows[p]]
    /\ UNCHANGED <<rows, logSeq, logged, started>>

Step(w) ==
    \/ AcquireContainer(w) \/ AcquireExporters(w)
    \/ AcquireShared(w) \/ AcquireStripe(w)
    \/ Pin(w) \/ Refuse(w) \/ OpenTx(w) \/ CommitTx(w) \/ FailTx(w)
    \/ LoadSnapshot(w) \/ StoreSnapshot(w) \/ Return(w) \/ PutCursor(w)

Next ==
    \/ \E w \in Writers : \/ \E t \in Targets : Begin(w, t)
                          \/ Step(w)
    \/ Crash

Spec == Init /\ [][Next]_vars

\* Threads the operating system schedules: a writer that can go on does.  A
\* request may never come and a crash may never happen.
FairSpec == Spec /\ \A w \in Writers : WF_vars(Step(w))

-----------------------------------------------------------------------------
\* Locks, threads, counts and sequences have their types.
TypeOK ==
    /\ pc \in [Writers -> {"idle", "container", "stripe", "locked", "planned", "tx",
                           "durable", "publishing", "published"}]
    /\ target \in [Writers -> Targets]
    /\ owner \in [Mutexes -> Writers \cup {NoOne}]
    /\ shared \in SUBSET Writers
    /\ rows \in [Targets -> Nat]
    /\ snap \in [SnapParts -> Nat]
    /\ seen \in [Writers -> [Targets -> Nat]]
    /\ base \in [Writers -> [SnapParts -> Nat]]
    /\ seq \in [Writers -> Nat]
    /\ logSeq \in Nat
    /\ logged \in Nat
    /\ started \in Nat
    /\ crashes \in Nat

\* A plan is never stale: from the moment the snapshot is pinned until the
\* batch is durable, everything the verb looked at is exactly what the store
\* holds.  So each commit is one atomic step of the registry, computed from
\* the durable state it changes (run_inner pins under the write lock).
FreshPlans ==
    \A w \in Writers : pc[w] \in {"planned", "tx"} =>
        \A p \in Reads(target[w]) : seen[w][p] = rows[p]

\* w has made its batch durable and not yet swapped the snapshot.
Unpublished(w) == pc[w] \in {"durable", "publishing"}

\* The snapshot is the durable state less what is between its fsync and its
\* swap, and in each part that is at most one mutation: no publication of a
\* concurrent context is lost, none is applied twice, and a snapshot rebuilt
\* after a crash continues where the published one would have been.
PublishLag ==
    \A p \in SnapParts :
        rows[p] = IF \E w \in Writers : Unpublished(w) /\ p \in Writes(target[w])
                  THEN snap[p] + 1 ELSE snap[p]

\* Every event of every committed batch has a sequence number of its own: the
\* durable sequence counts exactly the events ever logged, although writers of
\* different contexts commit at the same time (Store::counters).
LogDense == logSeq = logged

\* The targets of the batches between their fsync and their swap.
pending == {target[w] : w \in {x \in Writers : Unpublished(x)}}

L == INSTANCE Ledger WITH rows <- rows, snap <- snap, pending <- pending

\* The engine implements Ledger: whatever the interleaving and the crashes,
\* every commit is one mutation decided on the durable state it changes, its
\* publication is one step, and no reader sees half of it (run_inner, commit).
ImplementsLedger == L!Spec

\* No reader ever sees the registry go backwards, not even across a crash.
SnapshotMonotone == [][\A p \in SnapParts : snap'[p] >= snap[p]]_vars

\* Every mutation that was begun returns: no cycle of waiting among the
\* container lock, the stripes, the exporter mutex, the counters and publish.
EveryMutationEnds == \A w \in Writers : pc[w] # "idle" ~> pc[w] = "idle"
=============================================================================
