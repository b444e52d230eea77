---------------------------- MODULE EngineProofs ----------------------------
(***************************************************************************)
(* Proofs about Engine for every set of writers and contexts, every        *)
(* assignment of contexts to stripes and every bound.                      *)
(***************************************************************************)
EXTENDS Engine, TLAPS

\* A leaf that names no prover is proved by Zenon.
USE Zenon

USE EngineAssumption

\* The program points at which a writer holds the guard of its target.
Held == {"locked", "planned", "tx", "durable", "publishing", "published"}

\* What holding a guard means, lock by lock.
LockInv ==
    /\ \A w \in Writers : pc[w] = "stripe" => target[w] \in Contexts /\ w \in shared
    /\ \A w \in Writers : pc[w] \in Held /\ target[w] \in Contexts =>
            w \in shared /\ owner[Stripe[target[w]]] = w
    /\ \A w \in Writers : pc[w] \in Held /\ target[w] = Global => owner["container"] = w
    /\ \A w \in Writers : pc[w] \in Held /\ target[w] = Exporters => owner["exporters"] = w
    /\ owner["container"] # NoOne => shared = {}

\* The two short critical sections: what was read there is still current.
SectionInv ==
    /\ \A w \in Writers : pc[w] = "tx" => owner["counters"] = w /\ seq[w] = logSeq
    /\ \A w \in Writers : pc[w] = "publishing" => owner["publish"] = w /\ base[w] = snap

\* The inductive invariant.
IInv == TypeOK /\ LockInv /\ SectionInv /\ FreshPlans /\ PublishLag /\ LogDense

-----------------------------------------------------------------------------
\* Two writers that hold their guards while one may write what the other reads
\* are the same writer: what the lock table of registry/locks.rs excludes.
LEMMA Exclusion ==
    ASSUME TypeOK, LockInv,
           NEW w \in Writers, NEW x \in Writers,
           pc[w] \in Held, pc[x] \in Held,
           NEW p, p \in Writes(target[w]), p \in Reads(target[x])
    PROVE  w = x
<1>1. target[w] \in Targets /\ target[x] \in Targets
  BY DEF TypeOK
<1>2. CASE target[w] = Exporters
  <2>1. target[x] = Exporters
    BY <1>1, <1>2 DEF Writes, Reads, Targets, SnapParts
  <2>2. QED  BY <1>2, <2>1 DEF LockInv
<1>3. CASE target[w] = Global
  <2>1. target[x] \in Contexts \cup {Global}
    BY <1>1, <1>3 DEF Writes, Reads, Targets, SnapParts
  <2>2. owner["container"] = w
    BY <1>3 DEF LockInv
  <2>3. shared = {}
    BY <2>2 DEF LockInv
  <2>4. QED  BY <2>1, <2>2, <2>3 DEF LockInv
<1>4. CASE target[w] \in Contexts
  <2>1. p = target[w] /\ target[x] \in {target[w], Global}
    BY <1>1, <1>4 DEF Writes, Reads, Targets, SnapParts
  <2>2. CASE target[x] = Global
    BY <2>2, <1>4, SMT DEF LockInv
  <2>3. CASE target[x] = target[w]
    BY <2>3, <1>4, SMT DEF LockInv
  <2>4. QED  BY <2>1, <2>2, <2>3
<1>5. QED  BY <1>1, <1>2, <1>3, <1>4 DEF Targets

\* A mutation looks at everything it writes.
LEMMA WritesAreRead ==
    ASSUME NEW t \in Targets
    PROVE  /\ Writes(t) \subseteq Reads(t)
           /\ Reads(t) \subseteq Targets
           /\ t # Exporters => Reads(t) \subseteq SnapParts
BY DEF Writes, Reads, Targets, SnapParts

-----------------------------------------------------------------------------
\* The types are preserved by every step.
LEMMA TypePreserved == TypeOK /\ [Next]_vars => TypeOK'
<1> SUFFICES ASSUME TypeOK, [Next]_vars PROVE TypeOK'
  OBVIOUS
<1> USE DEF TypeOK
<1>0. NoRows \in [Targets -> Nat] /\ NoSnap \in [SnapParts -> Nat] /\ Global \in Targets
  BY DEF NoRows, NoSnap, Targets
<1>1. ASSUME NEW w \in Writers, NEW t \in Targets, Begin(w, t) PROVE TypeOK'
  BY <1>1, SMT DEF Begin, locks
<1>2. ASSUME NEW w \in Writers, AcquireContainer(w) PROVE TypeOK'
  BY <1>2 DEF AcquireContainer
<1>3. ASSUME NEW w \in Writers, AcquireExporters(w) PROVE TypeOK'
  BY <1>3 DEF AcquireExporters
<1>4. ASSUME NEW w \in Writers, AcquireShared(w) PROVE TypeOK'
  BY <1>4 DEF AcquireShared
<1>5. ASSUME NEW w \in Writers, AcquireStripe(w) PROVE TypeOK'
  BY <1>5 DEF AcquireStripe
<1>6. ASSUME NEW w \in Writers, Pin(w) PROVE TypeOK'
  BY <1>6 DEF Pin, locks, SnapParts, Targets
<1>L. ASSUME NEW w \in Writers, Leave(w)
      PROVE  /\ pc' \in [Writers -> {"idle", "container", "stripe", "locked", "planned", "tx",
                                     "durable", "publishing", "published"}]
             /\ target' \in [Writers -> Targets]
             /\ owner' \in [Mutexes -> Writers \cup {NoOne}]
             /\ shared' \in SUBSET Writers
             /\ seen' \in [Writers -> [Targets -> Nat]]
             /\ base' \in [Writers -> [SnapParts -> Nat]]
             /\ seq' \in [Writers -> Nat]
  BY <1>L, <1>0 DEF Leave
<1>7. ASSUME NEW w \in Writers, Refuse(w) PROVE TypeOK'
  BY <1>7, <1>L DEF Refuse
<1>8. ASSUME NEW w \in Writers, OpenTx(w) PROVE TypeOK'
  BY <1>8 DEF OpenTx
<1>B. ASSUME NEW P PROVE Bump(rows, P) \in [Targets -> Nat]
  BY SMT DEF Bump
<1>9. ASSUME NEW w \in Writers, CommitTx(w) PROVE TypeOK'
  <2>1. PICK n \in 0..MaxEvents : /\ logSeq' = IF n = 0 THEN logSeq ELSE seq[w] + n
                                  /\ logged' = logged + n
    BY <1>9 DEF CommitTx
  <2>2. logSeq' \in Nat /\ logged' \in Nat
    BY <2>1, SMT
  <2>3. rows' \in [Targets -> Nat]
    BY <1>9, <1>B DEF CommitTx
  <2>4. QED  BY <1>9, <2>2, <2>3 DEF CommitTx
<1>10. ASSUME NEW w \in Writers, FailTx(w) PROVE TypeOK'
  BY <1>10, <1>L DEF FailTx
<1>11. ASSUME NEW w \in Writers, LoadSnapshot(w) PROVE TypeOK'
  BY <1>11 DEF LoadSnapshot
<1>12. ASSUME NEW w \in Writers, StoreSnapshot(w) PROVE TypeOK'
  <2>1. ASSUME NEW P PROVE Bump(base[w], P) \in [SnapParts -> Nat]
    BY SMT DEF Bump
  <2>2. QED  BY <1>12, <2>1 DEF StoreSnapshot
<1>13. ASSUME NEW w \in Writers, Return(w) PROVE TypeOK'
  BY <1>13, <1>L DEF Return
<1>14. ASSUME NEW w \in Writers, PutCursor(w) PROVE TypeOK'
  BY <1>14, <1>L, <1>B DEF PutCursor
<1>15. CASE Crash
  BY <1>15, <1>0, SMT DEF Crash, SnapParts, Targets
<1>16. CASE UNCHANGED vars
  BY <1>16 DEF vars, locks
<1>17. QED
  BY <1>1, <1>2, <1>3, <1>4, <1>5, <1>6, <1>7, <1>8, <1>9, <1>10, <1>11, <1>12, <1>13,
     <1>14, <1>15, <1>16 DEF Next, Step

-----------------------------------------------------------------------------
\* The lock discipline is preserved by every step.
LEMMA LocksPreserved == TypeOK /\ LockInv /\ [Next]_vars => LockInv'
<1> SUFFICES ASSUME TypeOK, LockInv, [Next]_vars PROVE LockInv'
  OBVIOUS
<1> USE DEF TypeOK
<1>1. ASSUME NEW w \in Writers, NEW t \in Targets, Begin(w, t) PROVE LockInv'
  BY <1>1 DEF Begin, LockInv, Held, locks, Mutexes, Targets
<1>2. ASSUME NEW w \in Writers, AcquireContainer(w) PROVE LockInv'
  BY <1>2 DEF AcquireContainer, LockInv, Held, locks, Mutexes, Targets
<1>3. ASSUME NEW w \in Writers, AcquireExporters(w) PROVE LockInv'
  BY <1>3, SMT DEF AcquireExporters, LockInv, Held, locks, Mutexes, Targets
<1>4. ASSUME NEW w \in Writers, AcquireShared(w) PROVE LockInv'
  BY <1>4 DEF AcquireShared, LockInv, Held, locks, Mutexes, Targets
<1>5. ASSUME NEW w \in Writers, AcquireStripe(w) PROVE LockInv'
  BY <1>5, SMT DEF AcquireStripe, LockInv, Held, locks, Mutexes, Targets
<1>6. ASSUME NEW w \in Writers, Pin(w) PROVE LockInv'
  BY <1>6 DEF Pin, LockInv, Held, locks, Mutexes, Targets
<1>7. ASSUME NEW w \in Writers, Refuse(w) PROVE LockInv'
  BY <1>7 DEF Refuse, Leave, LockInv, Held, locks, Mutexes, Targets
<1>8. ASSUME NEW w \in Writers, OpenTx(w) PROVE LockInv'
  BY <1>8, SMT DEF OpenTx, LockInv, Held, locks, Mutexes, Targets
<1>9. ASSUME NEW w \in Writers, CommitTx(w) PROVE LockInv'
  BY <1>9, SMT DEF CommitTx, LockInv, Held, locks, Mutexes, Targets
<1>10. ASSUME NEW w \in Writers, FailTx(w) PROVE LockInv'
  BY <1>10 DEF FailTx, Leave, LockInv, Held, locks, Mutexes, Targets
<1>11. ASSUME NEW w \in Writers, LoadSnapshot(w) PROVE LockInv'
  BY <1>11, SMT DEF LoadSnapshot, LockInv, Held, locks, Mutexes, Targets
<1>12. ASSUME NEW w \in Writers, StoreSnapshot(w) PROVE LockInv'
  BY <1>12, SMT DEF StoreSnapshot, LockInv, Held, locks, Mutexes, Targets
<1>13. ASSUME NEW w \in Writers, Return(w) PROVE LockInv'
  BY <1>13 DEF Return, Leave, LockInv, Held, locks, Mutexes, Targets
<1>14. ASSUME NEW w \in Writers, PutCursor(w) PROVE LockInv'
  BY <1>14 DEF PutCursor, Leave, LockInv, Held, locks, Mutexes, Targets
<1>15. CASE Crash
  BY <1>15 DEF Crash, LockInv, Held, locks, Mutexes, Targets
<1>16. CASE UNCHANGED vars
  BY <1>16 DEF vars, LockInv, Held, locks, Mutexes, Targets
<1>17. QED
  BY <1>1, <1>2, <1>3, <1>4, <1>5, <1>6, <1>7, <1>8, <1>9, <1>10, <1>11, <1>12, <1>13, <1>14, <1>15, <1>16 DEF Next, Step

\* So is what the two critical sections rely on.
LEMMA SectionsPreserved == TypeOK /\ SectionInv /\ [Next]_vars => SectionInv'
<1> SUFFICES ASSUME TypeOK, SectionInv, [Next]_vars PROVE SectionInv'
  OBVIOUS
<1> USE DEF TypeOK
<1>1. ASSUME NEW w \in Writers, NEW t \in Targets, Begin(w, t) PROVE SectionInv'
  BY <1>1 DEF Begin, SectionInv, locks, Mutexes
<1>2. ASSUME NEW w \in Writers, AcquireContainer(w) PROVE SectionInv'
  BY <1>2 DEF AcquireContainer, SectionInv, locks, Mutexes
<1>3. ASSUME NEW w \in Writers, AcquireExporters(w) PROVE SectionInv'
  BY <1>3 DEF AcquireExporters, SectionInv, locks, Mutexes
<1>4. ASSUME NEW w \in Writers, AcquireShared(w) PROVE SectionInv'
  BY <1>4, SMT DEF AcquireShared, SectionInv, locks, Mutexes
<1>5. ASSUME NEW w \in Writers, AcquireStripe(w) PROVE SectionInv'
  BY <1>5, SMT DEF AcquireStripe, SectionInv, locks, Mutexes
<1>6. ASSUME NEW w \in Writers, Pin(w) PROVE SectionInv'
  BY <1>6 DEF Pin, SectionInv, locks, Mutexes
<1>7. ASSUME NEW w \in Writers, Refuse(w) PROVE SectionInv'
  BY <1>7 DEF Refuse, Leave, SectionInv, locks, Mutexes
<1>8. ASSUME NEW w \in Writers, OpenTx(w) PROVE SectionInv'
  BY <1>8 DEF OpenTx, SectionInv, locks, Mutexes
<1>9. ASSUME NEW w \in Writers, CommitTx(w) PROVE SectionInv'
  BY <1>9 DEF CommitTx, SectionInv, locks, Mutexes
<1>10. ASSUME NEW w \in Writers, FailTx(w) PROVE SectionInv'
  BY <1>10 DEF FailTx, Leave, SectionInv, locks, Mutexes
<1>11. ASSUME NEW w \in Writers, LoadSnapshot(w) PROVE SectionInv'
  BY <1>11 DEF LoadSnapshot, SectionInv, locks, Mutexes
<1>12. ASSUME NEW w \in Writers, StoreSnapshot(w) PROVE SectionInv'
  BY <1>12 DEF StoreSnapshot, SectionInv, locks, Mutexes
<1>13. ASSUME NEW w \in Writers, Return(w) PROVE SectionInv'
  BY <1>13 DEF Return, Leave, SectionInv, locks, Mutexes
<1>14. ASSUME NEW w \in Writers, PutCursor(w) PROVE SectionInv'
  BY <1>14 DEF PutCursor, Leave, SectionInv, locks, Mutexes
<1>15. CASE Crash
  BY <1>15 DEF Crash, SectionInv, locks, Mutexes
<1>16. CASE UNCHANGED vars
  BY <1>16 DEF vars, SectionInv, locks, Mutexes
<1>17. QED
  BY <1>1, <1>2, <1>3, <1>4, <1>5, <1>6, <1>7, <1>8, <1>9, <1>10, <1>11, <1>12, <1>13, <1>14, <1>15, <1>16 DEF Next, Step

-----------------------------------------------------------------------------
\* Where nothing is between its fsync and its swap, the snapshot is current.
LEMMA SnapshotCurrent ==
    ASSUME TypeOK, LockInv, PublishLag,
           NEW w \in Writers, pc[w] \in Held, ~Unpublished(w),
           NEW p \in SnapParts, p \in Reads(target[w])
    PROVE  snap[p] = rows[p]
<1>1. ASSUME NEW x \in Writers, Unpublished(x), p \in Writes(target[x]) PROVE FALSE
  <2>1. pc[x] \in Held
    BY <1>1 DEF Unpublished, Held
  <2>2. x = w
    BY <1>1, <2>1, Exclusion
  <2>3. QED  BY <1>1, <2>2
<1>2. QED  BY <1>1 DEF PublishLag

\* Plans stay fresh: the only steps that change the durable rows are commits,
\* and those exclude every plan that looked at what they write.
LEMMA FreshPreserved ==
    TypeOK /\ LockInv /\ PublishLag /\ FreshPlans /\ [Next]_vars => FreshPlans'
<1> SUFFICES ASSUME TypeOK, LockInv, PublishLag, FreshPlans, [Next]_vars,
                    NEW x \in Writers, pc'[x] \in {"planned", "tx"},
                    NEW p, p \in Reads(target'[x])
             PROVE  seen'[x][p] = rows'[p]
  BY DEF FreshPlans
<1> USE DEF TypeOK
\* A step that changes neither the rows nor what x has seen.
<1>K. ASSUME UNCHANGED rows, seen'[x] = seen[x], target'[x] = target[x], pc[x] \in {"planned", "tx"}
      PROVE  seen'[x][p] = rows'[p]
  BY <1>K DEF FreshPlans
<1>1. ASSUME NEW w \in Writers, NEW t \in Targets, Begin(w, t) PROVE seen'[x][p] = rows'[p]
  BY <1>1, <1>K DEF Begin
<1>2. ASSUME NEW w \in Writers, AcquireContainer(w) PROVE seen'[x][p] = rows'[p]
  BY <1>2, <1>K DEF AcquireContainer
<1>3. ASSUME NEW w \in Writers, AcquireExporters(w) PROVE seen'[x][p] = rows'[p]
  BY <1>3, <1>K DEF AcquireExporters
<1>4. ASSUME NEW w \in Writers, AcquireShared(w) PROVE seen'[x][p] = rows'[p]
  BY <1>4, <1>K DEF AcquireShared
<1>5. ASSUME NEW w \in Writers, AcquireStripe(w) PROVE seen'[x][p] = rows'[p]
  BY <1>5, <1>K DEF AcquireStripe
<1>6. ASSUME NEW w \in Writers, Pin(w) PROVE seen'[x][p] = rows'[p]
  <2>1. CASE x = w
    <3>1. target'[x] = target[w] /\ rows' = rows /\ pc[w] = "locked" /\ target[w] \in Targets
      BY <1>6, <2>1 DEF Pin
    <3>2. p \in Targets
      BY <3>1, WritesAreRead
    <3>3. CASE p \in SnapParts
      <4>1. snap[p] = rows[p]
        BY <3>1, <3>3, <2>1, SnapshotCurrent DEF Held, Unpublished
      <4>2. QED  BY <1>6, <2>1, <3>1, <3>2, <3>3, <4>1 DEF Pin
    <3>4. CASE p \notin SnapParts
      BY <1>6, <2>1, <3>1, <3>2, <3>4 DEF Pin
    <3>5. QED  BY <3>3, <3>4
  <2>2. CASE x # w
    BY <1>6, <2>2, <1>K DEF Pin
  <2>3. QED  BY <2>1, <2>2
<1>7. ASSUME NEW w \in Writers, Refuse(w) PROVE seen'[x][p] = rows'[p]
  BY <1>7, <1>K DEF Refuse, Leave
<1>8. ASSUME NEW w \in Writers, OpenTx(w) PROVE seen'[x][p] = rows'[p]
  BY <1>8, <1>K DEF OpenTx
<1>9. ASSUME NEW w \in Writers, CommitTx(w) PROVE seen'[x][p] = rows'[p]
  <2>1. x # w /\ pc[x] \in {"planned", "tx"} /\ target'[x] = target[x] /\ seen'[x] = seen[x]
    BY <1>9 DEF CommitTx
  <2>2. pc[w] = "tx" /\ rows' = Bump(rows, Writes(target[w]))
    BY <1>9 DEF CommitTx
  <2>3. p \notin Writes(target[w])
    BY <2>1, <2>2, Exclusion DEF Held
  <2>4. p \in Targets
    BY <2>1, WritesAreRead
  <2>5. QED  BY <2>1, <2>2, <2>3, <2>4 DEF Bump, FreshPlans
<1>10. ASSUME NEW w \in Writers, FailTx(w) PROVE seen'[x][p] = rows'[p]
  BY <1>10, <1>K DEF FailTx, Leave
<1>11. ASSUME NEW w \in Writers, LoadSnapshot(w) PROVE seen'[x][p] = rows'[p]
  BY <1>11, <1>K DEF LoadSnapshot
<1>12. ASSUME NEW w \in Writers, StoreSnapshot(w) PROVE seen'[x][p] = rows'[p]
  BY <1>12, <1>K DEF StoreSnapshot
<1>13. ASSUME NEW w \in Writers, Return(w) PROVE seen'[x][p] = rows'[p]
  BY <1>13, <1>K DEF Return, Leave
<1>14. ASSUME NEW w \in Writers, PutCursor(w) PROVE seen'[x][p] = rows'[p]
  <2>1. x # w /\ pc[x] \in {"planned", "tx"} /\ target'[x] = target[x] /\ seen'[x] = seen[x]
    BY <1>14 DEF PutCursor, Leave
  <2>2. pc[w] = "planned" /\ target[w] = Exporters /\ rows' = Bump(rows, {Exporters})
    BY <1>14 DEF PutCursor
  <2>3. p \notin {Exporters}
    BY <2>1, <2>2, Exclusion DEF Held, Writes
  <2>4. p \in Targets
    BY <2>1, WritesAreRead
  <2>5. QED  BY <2>1, <2>2, <2>3, <2>4 DEF Bump, FreshPlans
<1>15. CASE Crash
  BY <1>15 DEF Crash
<1>16. CASE UNCHANGED vars
  BY <1>16, <1>K DEF vars
<1>17. QED
  BY <1>1, <1>2, <1>3, <1>4, <1>5, <1>6, <1>7, <1>8, <1>9, <1>10, <1>11, <1>12, <1>13,
     <1>14, <1>15, <1>16 DEF Next, Step

\* The snapshot keeps trailing the rows by exactly what is being published.
LEMMA LagPreserved ==
    TypeOK /\ LockInv /\ SectionInv /\ PublishLag /\ [Next]_vars => PublishLag'
<1> SUFFICES ASSUME TypeOK, LockInv, SectionInv, PublishLag, [Next]_vars, NEW p \in SnapParts
             PROVE  rows'[p] = IF \E x \in Writers : Unpublished(x)' /\ p \in Writes(target'[x])
                               THEN snap'[p] + 1 ELSE snap'[p]
  BY DEF PublishLag
<1> DEFINE Goal == rows'[p] = IF \E x \in Writers : Unpublished(x)' /\ p \in Writes(target'[x])
                              THEN snap'[p] + 1 ELSE snap'[p]
<1> USE DEF TypeOK
\* A step that leaves the rows, the snapshot and who is unpublished alone.
<1>K. ASSUME rows'[p] = rows[p], UNCHANGED snap,
             \A x \in Writers : Unpublished(x)' <=> Unpublished(x),
             \A x \in Writers : Unpublished(x) => target'[x] = target[x]
      PROVE  Goal
  BY <1>K DEF PublishLag
<1>1. ASSUME NEW w \in Writers, NEW t \in Targets, Begin(w, t) PROVE Goal
  BY <1>1, <1>K DEF Begin, Unpublished
<1>2. ASSUME NEW w \in Writers, AcquireContainer(w) PROVE Goal
  BY <1>2, <1>K DEF AcquireContainer, Unpublished
<1>3. ASSUME NEW w \in Writers, AcquireExporters(w) PROVE Goal
  BY <1>3, <1>K DEF AcquireExporters, Unpublished
<1>4. ASSUME NEW w \in Writers, AcquireShared(w) PROVE Goal
  BY <1>4, <1>K DEF AcquireShared, Unpublished
<1>5. ASSUME NEW w \in Writers, AcquireStripe(w) PROVE Goal
  BY <1>5, <1>K DEF AcquireStripe, Unpublished
<1>6. ASSUME NEW w \in Writers, Pin(w) PROVE Goal
  BY <1>6, <1>K DEF Pin, Unpublished
<1>7. ASSUME NEW w \in Writers, Refuse(w) PROVE Goal
  BY <1>7, <1>K DEF Refuse, Leave, Unpublished
<1>8. ASSUME NEW w \in Writers, OpenTx(w) PROVE Goal
  BY <1>8, <1>K DEF OpenTx, Unpublished
<1>9. ASSUME NEW w \in Writers, CommitTx(w) PROVE Goal
  <2>1. /\ pc[w] = "tx" /\ rows' = Bump(rows, Writes(target[w])) /\ p \in Targets
        /\ snap' = snap /\ target' = target
        /\ \A x \in Writers : Unpublished(x)' <=> Unpublished(x) \/ x = w
    BY <1>9 DEF CommitTx, Unpublished, SnapParts, Targets
  <2>2. CASE p \in Writes(target[w])
    <3>1. snap[p] = rows[p]
      BY <2>1, <2>2, SnapshotCurrent, WritesAreRead DEF Held, Unpublished
    <3>2. rows'[p] = snap'[p] + 1
      BY <2>1, <2>2, <3>1 DEF Bump
    <3>3. QED  BY <2>1, <2>2, <3>2
  <2>3. CASE p \notin Writes(target[w])
    <3>1. rows'[p] = rows[p]
      BY <2>1, <2>3 DEF Bump
    <3>2. QED  BY <2>1, <2>3, <3>1 DEF PublishLag
  <2>4. QED  BY <2>2, <2>3
<1>10. ASSUME NEW w \in Writers, FailTx(w) PROVE Goal
  BY <1>10, <1>K DEF FailTx, Leave, Unpublished
<1>11. ASSUME NEW w \in Writers, LoadSnapshot(w) PROVE Goal
  BY <1>11, <1>K DEF LoadSnapshot, Unpublished
<1>12. ASSUME NEW w \in Writers, StoreSnapshot(w) PROVE Goal
  <2>1. /\ pc[w] = "publishing" /\ rows' = rows /\ target' = target
        /\ snap' = Bump(snap, Writes(target[w]))
        /\ \A x \in Writers : Unpublished(x)' <=> Unpublished(x) /\ x # w
    BY <1>12 DEF StoreSnapshot, Unpublished, SectionInv
  <2>2. CASE p \in Writes(target[w])
    <3>1. ASSUME NEW x \in Writers, Unpublished(x), p \in Writes(target[x]) PROVE x = w
      BY <2>1, <2>2, <3>1, Exclusion, WritesAreRead DEF Held, Unpublished
    <3>2. rows[p] = snap[p] + 1
      BY <2>1, <2>2 DEF PublishLag, Unpublished
    <3>3. rows'[p] = snap'[p]
      BY <2>1, <2>2, <3>2 DEF Bump
    <3>4. QED  BY <2>1, <3>1, <3>3
  <2>3. CASE p \notin Writes(target[w])
    <3>1. snap'[p] = snap[p]
      BY <2>1, <2>3 DEF Bump
    <3>2. QED  BY <2>1, <2>3, <3>1 DEF PublishLag
  <2>4. QED  BY <2>2, <2>3
<1>13. ASSUME NEW w \in Writers, Return(w) PROVE Goal
  BY <1>13, <1>K DEF Return, Leave, Unpublished
<1>14. ASSUME NEW w \in Writers, PutCursor(w) PROVE Goal
  <2>1. rows'[p] = rows[p]
    BY <1>14 DEF PutCursor, Bump, SnapParts, Targets
  <2>2. QED  BY <1>14, <2>1, <1>K DEF PutCursor, Leave, Unpublished
<1>15. CASE Crash
  BY <1>15 DEF Crash, Unpublished, SnapParts, Targets
<1>16. CASE UNCHANGED vars
  BY <1>16, <1>K DEF vars, Unpublished
<1>17. QED
  BY <1>1, <1>2, <1>3, <1>4, <1>5, <1>6, <1>7, <1>8, <1>9, <1>10, <1>11, <1>12, <1>13,
     <1>14, <1>15, <1>16 DEF Next, Step

\* Only a commit moves the log sequence, and it holds the sequence it read.
LEMMA LogPreserved == TypeOK /\ SectionInv /\ LogDense /\ [Next]_vars => LogDense'
<1> SUFFICES ASSUME TypeOK, SectionInv, LogDense, [Next]_vars PROVE LogDense'
  OBVIOUS
<1>1. ASSUME NEW w \in Writers, CommitTx(w) PROVE LogDense'
  <2>1. seq[w] = logSeq
    BY <1>1 DEF CommitTx, SectionInv
  <2>2. QED  BY <1>1, <2>1, SMT DEF CommitTx, LogDense, TypeOK
<1>2. ASSUME UNCHANGED <<logSeq, logged>> PROVE LogDense'
  BY <1>2 DEF LogDense
<1>3. QED
  BY <1>1, <1>2 DEF Next, Step, Begin, AcquireContainer, AcquireExporters, AcquireShared,
     AcquireStripe, Pin, Refuse, OpenTx, FailTx, LoadSnapshot, StoreSnapshot, Return,
     PutCursor, Crash, vars

-----------------------------------------------------------------------------
LEMMA Inductive == IInv /\ [Next]_vars => IInv'
BY TypePreserved, LocksPreserved, SectionsPreserved, FreshPreserved, LagPreserved,
   LogPreserved DEF IInv

LEMMA Initially == Init => IInv
BY SMT DEF Init, IInv, TypeOK, LockInv, SectionInv, FreshPlans, PublishLag, LogDense, Unpublished,
       Held, NoRows, NoSnap, Targets, SnapParts, Mutexes

LEMMA Invariance == Spec => []IInv
BY Initially, Inductive, PTL DEF Spec

\* The types of Engine hold for every instance.
THEOREM EngineTypes == Spec => []TypeOK
<1>1. IInv => TypeOK  BY DEF IInv
<1>2. QED  BY <1>1, Invariance, PTL

\* A verb's plan is computed from exactly the durable state its batch changes,
\* whatever the other writers do: engine::run pins the snapshot under the lock
\* of its target, so every commit is an atomic step of the registry.
THEOREM PlansAreFresh == Spec => []FreshPlans
<1>1. IInv => FreshPlans  BY DEF IInv
<1>2. QED  BY <1>1, Invariance, PTL

\* Registry::commit loses no publication and applies none twice, and a restart
\* rebuilds what was published or about to be.
THEOREM SnapshotFollowsStore == Spec => []PublishLag
<1>1. IInv => PublishLag  BY DEF IInv
<1>2. QED  BY <1>1, Invariance, PTL

\* Tx::append_log never hands out one sequence number twice.
THEOREM LogIsDense == Spec => []LogDense
<1>1. IInv => LogDense  BY DEF IInv
<1>2. QED  BY <1>1, Invariance, PTL

\* The published snapshot never goes backwards in any part.
THEOREM SnapshotsGrow == Spec => SnapshotMonotone
<1>1. IInv /\ [Next]_vars => [\A p \in SnapParts : snap'[p] >= snap[p]]_vars
  <2> SUFFICES ASSUME IInv, [Next]_vars, NEW p \in SnapParts PROVE snap'[p] >= snap[p]
    OBVIOUS
  <2>0. snap[p] \in Nat /\ rows[p] \in Nat /\ p \in Targets
    BY DEF IInv, TypeOK, SnapParts, Targets
  <2>1. CASE snap' = snap
    BY <2>0, <2>1, SMT
  <2>2. ASSUME NEW w \in Writers, StoreSnapshot(w) PROVE snap'[p] >= snap[p]
    <3>1. base[w] = snap
      BY <2>2 DEF StoreSnapshot, IInv, SectionInv
    <3>2. DOMAIN snap = SnapParts
      BY DEF IInv, TypeOK
    <3>3. QED  BY <2>0, <2>2, <3>1, <3>2, SMT DEF StoreSnapshot, Bump
  <2>3. CASE Crash
    BY <2>0, <2>3, SMT DEF Crash, IInv, PublishLag
  <2>4. QED
    BY <2>1, <2>2, <2>3 DEF Next, Step, Begin, AcquireContainer, AcquireExporters, AcquireShared,
       AcquireStripe, Pin, Refuse, OpenTx, CommitTx, FailTx, LoadSnapshot, Return, PutCursor, vars
<1>2. QED  BY <1>1, Invariance, PTL DEF Spec, SnapshotMonotone

-----------------------------------------------------------------------------
\* A step that moves no writer in or out of the window between fsync and swap
\* leaves the ledger's pending set alone.
LEMMA PendingKept ==
    ASSUME \A x \in Writers : Unpublished(x)' <=> Unpublished(x),
           \A x \in Writers : Unpublished(x) => target'[x] = target[x]
    PROVE  pending' = pending
BY DEF pending

\* The commit of a batch is a mutation of the ledger: no part it looks at is
\* waiting to be published, because the lock table keeps such writers out.
LEMMA CommitIsMutate ==
    ASSUME IInv, NEW w \in Writers, CommitTx(w)
    PROVE  L!Mutate(target[w])
<1>0. TypeOK /\ LockInv /\ pc[w] = "tx" /\ target' = target /\ UNCHANGED snap
  BY DEF IInv, CommitTx
<1>1. ASSUME NEW u \in pending, NEW p \in L!Writes(u) \cap L!Reads(target[w]) PROVE FALSE
  <2>1. PICK x \in Writers : Unpublished(x) /\ u = target[x]
    BY DEF pending
  <2>2. p \in Writes(target[x]) /\ p \in Reads(target[w])
    BY <1>1, <2>1 DEF L!Writes, L!Reads, Writes, Reads, L!SnapParts, SnapParts
  <2>3. x = w
    BY <1>0, <2>1, <2>2, Exclusion DEF Held, Unpublished
  <2>4. QED  BY <1>0, <2>1, <2>3 DEF Unpublished
<1>2. rows' = L!OneMore(rows, L!Writes(target[w]))
  BY DEF CommitTx, Bump, L!OneMore, Writes, L!Writes, SnapParts, L!SnapParts
<1>3. \A x \in Writers : Unpublished(x)' <=> Unpublished(x) \/ x = w
  BY <1>0 DEF CommitTx, Unpublished, TypeOK
<1>4. pending' = pending \cup {target[w]}
  BY <1>0, <1>3 DEF pending
<1>5. QED  BY <1>0, <1>1, <1>2, <1>4 DEF L!Mutate

\* The swap of the snapshot pointer publishes one mutation, the writer's own.
LEMMA SwapIsPublish ==
    ASSUME IInv, NEW w \in Writers, StoreSnapshot(w)
    PROVE  L!Publish(target[w])
<1>0. /\ TypeOK /\ LockInv /\ pc[w] = "publishing" /\ base[w] = snap
      /\ target' = target /\ UNCHANGED rows
  BY DEF IInv, SectionInv, StoreSnapshot
<1>1. target[w] \in pending
  BY <1>0 DEF pending, Unpublished
<1>2. snap' = L!OneMore(snap, L!Writes(target[w]))
  BY <1>0 DEF StoreSnapshot, Bump, L!OneMore, Writes, L!Writes, SnapParts, L!SnapParts
<1>3. \A x \in Writers : Unpublished(x)' <=> Unpublished(x) /\ x # w
  BY <1>0 DEF StoreSnapshot, Unpublished, TypeOK
<1>4. ASSUME NEW x \in Writers, Unpublished(x), target[x] = target[w] PROVE x = w
  <2>1. target[w] \in Writes(target[x]) /\ target[w] \in Reads(target[w])
    BY <1>4 DEF Writes, Reads, SnapParts
  <2>2. QED  BY <1>0, <1>4, <2>1, Exclusion DEF Held, Unpublished
<1>5. pending' = pending \ {target[w]}
  BY <1>0, <1>3, <1>4 DEF pending
<1>6. QED  BY <1>0, <1>1, <1>2, <1>5 DEF L!Publish

\* The cursor of an exporter moves only while no exporter verb is in flight.
LEMMA CursorIsMove ==
    ASSUME IInv, NEW w \in Writers, PutCursor(w)
    PROVE  L!MoveCursor
<1>0. TypeOK /\ LockInv /\ pc[w] = "planned" /\ target[w] = Exporters /\ UNCHANGED snap
  BY DEF IInv, PutCursor
<1>1. ASSUME Exporters \in pending PROVE FALSE
  <2>1. PICK x \in Writers : Unpublished(x) /\ target[x] = Exporters
    BY <1>1 DEF pending
  <2>2. owner["exporters"] = x /\ owner["exporters"] = w
    BY <1>0, <2>1 DEF LockInv, Held, Unpublished
  <2>3. QED  BY <1>0, <2>1, <2>2 DEF Unpublished
<1>2. rows' = L!OneMore(rows, {Exporters})
  BY DEF PutCursor, Bump, L!OneMore
<1>3. pending' = pending
  <2>1. \A x \in Writers : Unpublished(x)' <=> Unpublished(x)
    BY <1>0 DEF PutCursor, Leave, Unpublished, TypeOK
  <2>2. \A x \in Writers : Unpublished(x) => target'[x] = target[x]
    BY <1>0 DEF PutCursor, Leave, Unpublished, TypeOK
  <2>3. QED  BY <2>1, <2>2, PendingKept
<1>4. QED  BY <1>0, <1>1, <1>2, <1>3 DEF L!MoveCursor

\* Engine implements Ledger: commit and publication are the only steps a
\* client or a reader can tell apart, each is atomic, and each is decided on
\* the durable state (engine::run, Registry::commit, Store::load_snapshot).
THEOREM EngineImplementsLedger == Spec => ImplementsLedger
<1>1. Init => L!Init
  BY DEF Init, L!Init, NoRows, NoSnap, Targets, SnapParts, L!Targets, L!SnapParts, pending,
         Unpublished
<1>2. IInv /\ [Next]_vars => [L!Next]_(L!vars)
  <2> SUFFICES ASSUME IInv, [Next]_vars PROVE L!Next \/ UNCHANGED L!vars
    OBVIOUS
  <2>0. TypeOK /\ \A w \in Writers : target[w] \in L!Targets
    BY DEF IInv, TypeOK, Targets, L!Targets
  <2> DEFINE Quiet == /\ UNCHANGED <<rows, snap>>
                      /\ \A x \in Writers : Unpublished(x)' <=> Unpublished(x)
                      /\ \A x \in Writers : Unpublished(x) => target'[x] = target[x]
  <2>1. Quiet => UNCHANGED L!vars
    BY PendingKept DEF L!vars
  <2>2. ASSUME NEW w \in Writers, NEW t \in Targets, Begin(w, t) PROVE Quiet
    BY <2>0, <2>2 DEF Begin, Unpublished, TypeOK
  <2>3. ASSUME NEW w \in Writers, \/ AcquireContainer(w) \/ AcquireExporters(w)
                                  \/ AcquireShared(w) \/ AcquireStripe(w)
        PROVE Quiet
    BY <2>0, <2>3 DEF AcquireContainer, AcquireExporters, AcquireShared, AcquireStripe,
                      Unpublished, TypeOK
  <2>4. ASSUME NEW w \in Writers, Pin(w) \/ OpenTx(w) \/ LoadSnapshot(w) PROVE Quiet
    BY <2>0, <2>4 DEF Pin, OpenTx, LoadSnapshot, Unpublished, TypeOK
  <2>5. ASSUME NEW w \in Writers, Refuse(w) \/ FailTx(w) \/ Return(w) PROVE Quiet
    BY <2>0, <2>5 DEF Refuse, FailTx, Return, Leave, Unpublished, TypeOK
  <2>6. ASSUME NEW w \in Writers, CommitTx(w) PROVE L!Next
    BY <2>0, <2>6, CommitIsMutate DEF L!Next
  <2>7. ASSUME NEW w \in Writers, StoreSnapshot(w) PROVE L!Next
    BY <2>0, <2>7, SwapIsPublish DEF L!Next
  <2>8. ASSUME NEW w \in Writers, PutCursor(w) PROVE L!Next
    BY <2>8, CursorIsMove DEF L!Next
  <2>9. CASE Crash
    <3>1. pending' = {}
      BY <2>9 DEF Crash, pending, Unpublished
    <3>2. L!Restart
      BY <2>9, <3>1 DEF Crash, L!Restart, SnapParts, L!SnapParts
    <3>3. QED  BY <3>2 DEF L!Next
  <2>10. ASSUME UNCHANGED vars PROVE Quiet
    BY <2>10 DEF vars, Unpublished
  <2> HIDE DEF Quiet
  <2>11. QED
    BY <2>1, <2>2, <2>3, <2>4, <2>5, <2>6, <2>7, <2>8, <2>9, <2>10 DEF Next, Step
<1>3. QED  BY <1>1, <1>2, Invariance, PTL DEF Spec, ImplementsLedger, L!Spec

-----------------------------------------------------------------------------
(***************************************************************************)
(* Waiting.  WaitsOn(w, x): w goes on with a lock that x holds.  Where a   *)
(* plan is refused, or only a cursor is written, the counters are not      *)
(* needed; here they are.                                                  *)
(***************************************************************************)
WaitsOn(w, x) ==
    \/ pc[w] = "container" /\ target[w] = Global /\ (owner["container"] = x \/ x \in shared)
    \/ pc[w] = "container" /\ target[w] = Exporters /\ owner["exporters"] = x
    \/ pc[w] = "container" /\ target[w] \in Contexts /\ owner["container"] = x
    \/ pc[w] = "stripe" /\ owner[Stripe[target[w]]] = x
    \/ pc[w] = "planned" /\ owner["counters"] = x
    \/ pc[w] = "durable" /\ owner["publish"] = x

\* How far along run_inner a writer is.
Stage == [idle |-> 0, container |-> 1, stripe |-> 2, locked |-> 3, planned |-> 4, tx |-> 5,
          durable |-> 6, publishing |-> 7, published |-> 8]

\* Whoever is waited for is further along, so that no circle of writers wait for each other.
WaitsLeadForward ==
    \A w, x \in Writers : WaitsOn(w, x) => Stage[pc[w]] < Stage[pc[x]]

\* The guard of the next step of w holds: what it goes on with is free.
Ready(w) ==
    \/ pc[w] = "container" /\ target[w] = Global /\ owner["container"] = NoOne /\ shared = {}
    \/ pc[w] = "container" /\ target[w] = Exporters /\ owner["exporters"] = NoOne
    \/ pc[w] = "container" /\ target[w] \in Contexts /\ owner["container"] = NoOne
    \/ pc[w] = "stripe" /\ owner[Stripe[target[w]]] = NoOne
    \/ pc[w] = "planned" /\ owner["counters"] = NoOne
    \/ pc[w] = "durable" /\ owner["publish"] = NoOne
    \/ pc[w] \in {"locked", "tx", "publishing", "published"}

\* As long as a mutation is under way, one of them can take its next step.
SomeoneGoesOn == (\E w \in Writers : pc[w] # "idle") => \E w \in Writers : Ready(w)

\* A lock is held by a writer that is where it holds it: none is left behind by a
\* refusal, a failed write or an answer.
OwnerInv ==
    /\ \A w \in shared : target[w] \in Contexts /\ pc[w] \in Held \cup {"stripe"}
    /\ \A w \in Writers :
          /\ owner["container"] = w => target[w] = Global /\ pc[w] \in Held
          /\ owner["exporters"] = w => target[w] = Exporters /\ pc[w] \in Held
          /\ owner["counters"] = w => pc[w] = "tx"
          /\ owner["publish"] = w => pc[w] = "publishing"
          /\ \A t \in Stripes : owner[t] = w =>
                target[w] \in Contexts /\ Stripe[target[w]] = t /\ pc[w] \in Held

LEMMA OwnersPreserved == TypeOK /\ LockInv /\ OwnerInv /\ [Next]_vars => OwnerInv'
<1> SUFFICES ASSUME TypeOK, LockInv, OwnerInv, [Next]_vars PROVE OwnerInv'
  OBVIOUS
<1> USE DEF TypeOK
<1>1. ASSUME NEW w \in Writers, NEW t \in Targets, Begin(w, t) PROVE OwnerInv'
  BY <1>1, SMT DEF Begin, OwnerInv, Held, locks, Mutexes
<1>2. ASSUME NEW w \in Writers, AcquireContainer(w) PROVE OwnerInv'
  BY <1>2, SMT DEF AcquireContainer, OwnerInv, Held, locks, Mutexes
<1>3. ASSUME NEW w \in Writers, AcquireExporters(w) PROVE OwnerInv'
  BY <1>3, SMT DEF AcquireExporters, OwnerInv, Held, locks, Mutexes
<1>4. ASSUME NEW w \in Writers, AcquireShared(w) PROVE OwnerInv'
  BY <1>4, SMT DEF AcquireShared, OwnerInv, Held, locks, Mutexes
<1>5. ASSUME NEW w \in Writers, AcquireStripe(w) PROVE OwnerInv'
  BY <1>5, SMT DEF AcquireStripe, LockInv, OwnerInv, Held, locks, Mutexes
<1>6. ASSUME NEW w \in Writers, Pin(w) PROVE OwnerInv'
  BY <1>6, SMT DEF Pin, OwnerInv, Held, locks, Mutexes
<1>7. ASSUME NEW w \in Writers, Refuse(w) PROVE OwnerInv'
  BY <1>7, SMT DEF Refuse, Leave, OwnerInv, Held, locks, Mutexes
<1>8. ASSUME NEW w \in Writers, OpenTx(w) PROVE OwnerInv'
  BY <1>8, SMT DEF OpenTx, OwnerInv, Held, locks, Mutexes
<1>9. ASSUME NEW w \in Writers, CommitTx(w) PROVE OwnerInv'
  BY <1>9, SMT DEF CommitTx, OwnerInv, Held, locks, Mutexes
<1>10. ASSUME NEW w \in Writers, FailTx(w) PROVE OwnerInv'
  BY <1>10, SMT DEF FailTx, Leave, OwnerInv, Held, locks, Mutexes
<1>11. ASSUME NEW w \in Writers, LoadSnapshot(w) PROVE OwnerInv'
  BY <1>11, SMT DEF LoadSnapshot, OwnerInv, Held, locks, Mutexes
<1>12. ASSUME NEW w \in Writers, StoreSnapshot(w) PROVE OwnerInv'
  BY <1>12, SMT DEF StoreSnapshot, OwnerInv, Held, locks, Mutexes
<1>13. ASSUME NEW w \in Writers, Return(w) PROVE OwnerInv'
  BY <1>13, SMT DEF Return, Leave, OwnerInv, Held, locks, Mutexes
<1>14. ASSUME NEW w \in Writers, PutCursor(w) PROVE OwnerInv'
  BY <1>14, SMT DEF PutCursor, Leave, OwnerInv, Held, locks, Mutexes
<1>15. CASE Crash
  BY <1>15, SMT DEF Crash, OwnerInv, Held, locks, Mutexes
<1>16. CASE UNCHANGED vars
  BY <1>16, SMT DEF vars, OwnerInv, Held, locks, Mutexes
<1>17. QED
  BY <1>1, <1>2, <1>3, <1>4, <1>5, <1>6, <1>7, <1>8, <1>9, <1>10, <1>11, <1>12, <1>13, <1>14, <1>15, <1>16 DEF Next, Step

LEMMA OwnersInvariant == Spec => []OwnerInv
<1>1. Init => OwnerInv
  BY SMT DEF Init, OwnerInv, Mutexes
<1>2. IInv => TypeOK /\ LockInv
  BY DEF IInv
<1> QED  BY <1>1, <1>2, OwnersPreserved, Invariance, PTL DEF Spec

LEMMA ReadyOrWaits ==
    ASSUME TypeOK, LockInv, NEW w \in Writers, pc[w] # "idle"
    PROVE  Ready(w) \/ \E x \in Writers : WaitsOn(w, x)
<1>1. /\ shared \subseteq Writers
      /\ \A m \in Mutexes : owner[m] \in Writers \cup {NoOne}
      /\ {"container", "exporters", "counters", "publish"} \subseteq Mutexes
  BY DEF TypeOK, Mutexes
<1>2. CASE pc[w] = "container"
  <2>1. target[w] \in Contexts \cup {Global, Exporters}
    BY DEF TypeOK, Targets
  <2> QED  BY <1>1, <1>2, <2>1 DEF Ready, WaitsOn
<1>3. CASE pc[w] = "stripe"
  <2>1. Stripe[target[w]] \in Mutexes
    BY <1>3, SMT DEF LockInv, Mutexes
  <2> QED  BY <1>1, <1>3, <2>1 DEF Ready, WaitsOn
<1>4. CASE pc[w] = "planned" \/ pc[w] = "durable"
  BY <1>1, <1>4 DEF Ready, WaitsOn
<1>5. pc[w] \in {"idle", "container", "stripe", "locked", "planned", "tx", "durable", "publishing", "published"}
  BY DEF TypeOK
<1> QED  BY <1>2, <1>3, <1>4, <1>5 DEF Ready

LEMMA WaitsForward ==
    ASSUME TypeOK, LockInv, OwnerInv, NEW w \in Writers, NEW x \in Writers, WaitsOn(w, x)
    PROVE  /\ Stage[pc[w]] < Stage[pc[x]]
           /\ pc[w] = "durable" => pc[x] = "publishing"
           /\ pc[w] = "planned" => pc[x] = "tx"
           /\ pc[w] = "stripe" => pc[x] \in Held
           /\ pc[w] = "container" => pc[x] \in Held \cup {"stripe"}
<1>1. CASE pc[w] = "container"
  <2>1. pc[x] \in Held \cup {"stripe"}
    BY <1>1, SMT DEF WaitsOn, OwnerInv, Held
  <2> QED  BY <1>1, <2>1, SMT DEF Stage, Held
<1>2. CASE pc[w] = "stripe"
  <2>1. target[w] \in Contexts /\ Stripe[target[w]] \in Stripes /\ owner[Stripe[target[w]]] = x
    BY <1>2, SMT DEF WaitsOn, LockInv
  <2>2. pc[x] \in Held
    BY <2>1 DEF OwnerInv
  <2> QED  BY <1>2, <2>2, SMT DEF Stage, Held
<1>3. CASE pc[w] = "planned"
  <2>1. pc[x] = "tx"
    BY <1>3, SMT DEF WaitsOn, OwnerInv
  <2> QED  BY <1>3, <2>1, SMT DEF Stage
<1>4. CASE pc[w] = "durable"
  <2>1. pc[x] = "publishing"
    BY <1>4, SMT DEF WaitsOn, OwnerInv
  <2> QED  BY <1>4, <2>1, SMT DEF Stage
<1> QED  BY <1>1, <1>2, <1>3, <1>4 DEF WaitsOn

\* The locks of registry/locks.rs, the counters and the publish lock are taken in one
\* order: whatever mutations run, nobody waits for a writer that is not ahead of it.
THEOREM WaitingIsOrdered == Spec => []WaitsLeadForward
<1>1. TypeOK /\ LockInv /\ OwnerInv => WaitsLeadForward
  BY WaitsForward DEF WaitsLeadForward
<1>2. IInv => TypeOK /\ LockInv
  BY DEF IInv
<1> QED  BY <1>1, <1>2, Invariance, OwnersInvariant, PTL

\* Among the mutations under way there is one whose next step no lock holds up, for any
\* number of threads and any sharing of stripes.
THEOREM NoDeadlock == Spec => []SomeoneGoesOn
<1>1. ASSUME TypeOK, LockInv, OwnerInv, NEW w \in Writers, pc[w] # "idle"
      PROVE  \E x \in Writers : Ready(x)
  <2>1. ASSUME NEW x \in Writers, pc[x] \in {"locked", "tx", "publishing", "published"}
        PROVE  Ready(x)
    BY <2>1 DEF Ready
  <2>2. ASSUME NEW x \in Writers, pc[x] \in Held
        PROVE  \E y \in Writers : Ready(y)
    <3>1. CASE pc[x] \in {"planned", "durable"} /\ ~Ready(x)
      <4>1. PICK y \in Writers : WaitsOn(x, y)
        BY <1>1, <3>1, ReadyOrWaits
      <4>2. pc[y] \in {"tx", "publishing"}
        BY <1>1, <3>1, <4>1, WaitsForward
      <4> QED  BY <2>1, <4>2
    <3> QED  BY <2>1, <2>2, <3>1 DEF Held
  <2>3. ASSUME NEW x \in Writers, pc[x] = "stripe"
        PROVE  \E y \in Writers : Ready(y)
    <3>1. CASE ~Ready(x)
      <4>1. PICK y \in Writers : WaitsOn(x, y)
        BY <1>1, <2>3, <3>1, ReadyOrWaits
      <4> QED  BY <1>1, <2>2, <2>3, <4>1, WaitsForward
    <3> QED  BY <3>1
  <2>4. ASSUME pc[w] = "container"
        PROVE  \E y \in Writers : Ready(y)
    <3>1. CASE ~Ready(w)
      <4>1. PICK y \in Writers : WaitsOn(w, y)
        BY <1>1, <2>4, <3>1, ReadyOrWaits
      <4> QED  BY <1>1, <2>2, <2>3, <2>4, <4>1, WaitsForward
    <3> QED  BY <3>1
  <2>5. pc[w] \in Held \cup {"stripe", "container"}
    BY <1>1, SMT DEF TypeOK, Held
  <2> QED  BY <2>2, <2>3, <2>4, <2>5
<1>2. TypeOK /\ LockInv /\ OwnerInv => SomeoneGoesOn
  BY <1>1 DEF SomeoneGoesOn
<1>3. IInv => TypeOK /\ LockInv
  BY DEF IInv
<1> QED  BY <1>2, <1>3, Invariance, OwnersInvariant, PTL
=============================================================================
