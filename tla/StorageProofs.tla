--------------------------- MODULE StorageProofs ---------------------------
(***************************************************************************)
(* Proofs about Storage and Serving, for any directory, any families, any  *)
(* batch size and any crashes.                                             *)
(***************************************************************************)
EXTENDS Serving, TLAPS

\* A leaf that names no prover is proved by Zenon.
USE Zenon

\* Whatever is current was made current in this life of the process or was
\* found so: a crash cannot make the directory more current than it was.
NoneAhead == FormatRow \notin rows => \A d \in survivors : FormatRow \notin d

\* The inductive invariant: besides NothingLost, an opened directory is
\* current, and the old rows are what some directory holds.
StorageInv ==
    /\ old \in Directories
    /\ phase \in {"down", "moving", "up"}
    /\ NothingLost
    /\ NoneAhead
    /\ phase = "moving" => FormatRow \notin rows
    /\ phase = "up" => FormatRow \in rows

USE DEF None, Default, At, FormatRow, ContainerRow, Reserved

LEMMA OldRow ==
    ASSUME old \in Directories, NEW t \in old
    PROVE  /\ t = <<t[1], t[2], t[3]>>
           /\ \E i \in DOMAIN Families : Families[i] = t[1]
           /\ At(None, t) \notin Reserved
           /\ At(Default, t) \notin Reserved
           /\ At(None, t) # At(Default, t)
BY DirectoriesAssumption

LEMMA Parts ==
    ASSUME NEW c, NEW t
    PROVE  At(c, t)[1] = c /\ At(c, t)[2] = t[1] /\ At(c, t)[3] = t[2] /\ At(c, t)[4] = t[3]
OBVIOUS

\* Without loss, a directory that is not current holds only old rows.
LEMMA RowForm ==
    ASSUME old \in Directories, NEW d, Intact(d), FormatRow \notin d, NEW r \in d
    PROVE  \E t \in old : r = At(None, t) \/ r = At(Default, t)
BY DEF Intact

LEMMA NotSkipped ==
    ASSUME old \in Directories, NEW t \in old
    PROVE  ~Skipped(At(None, t))
BY OldRow DEF Skipped, LeadingZero

LEMMA EarlierOnly == Earlier \subseteq survivors \cup {rows}
BY BoundsAssumption DEF Earlier

\* A batch of old rows moves to the default container in one piece.
LEMMA MoveKeeps ==
    ASSUME old \in Directories, NEW d, Intact(d), FormatRow \notin d,
           NEW B \in SUBSET d, \A r \in B : ~Skipped(r)
    PROVE  /\ Intact((d \ B) \cup {Moved(r) : r \in B})
           /\ FormatRow \notin (d \ B) \cup {Moved(r) : r \in B}
<1> DEFINE e == (d \ B) \cup {Moved(r) : r \in B}
<1>1. FormatRow \notin e
  BY DEF Moved
<1>2. ASSUME NEW r \in B
      PROVE  \E t \in old : r = At(None, t)
  <2>1. PICK t \in old : r = At(None, t) \/ r = At(Default, t)
    BY RowForm
  <2>2. r # At(Default, t)
    <3>1. ASSUME r = At(Default, t) PROVE r[1] = Default
      BY <3>1, Parts
    <3> QED
      BY <3>1 DEF Skipped
  <2> QED
    BY <2>1, <2>2
<1>3. e \subseteq {At(None, t) : t \in old} \cup {At(Default, t) : t \in old}
  <2>1. d \subseteq {At(None, t) : t \in old} \cup {At(Default, t) : t \in old}
    BY DEF Intact
  <2>2. ASSUME NEW r \in B
        PROVE  \E t \in old : Moved(r) = At(Default, t)
    <3>1. PICK t \in old : r = At(None, t)
      BY <1>2
    <3>2. r[2] = t[1] /\ r[3] = t[2] /\ r[4] = t[3]
      BY <3>1, Parts
    <3> QED
      BY <3>2 DEF Moved
  <2> QED
    BY <2>1, <2>2
<1>4. ASSUME NEW t \in old
      PROVE  ~(At(None, t) \in e <=> At(Default, t) \in e)
  <2>1. ~(At(None, t) \in d <=> At(Default, t) \in d)
    BY DEF Intact
  <2>2. At(None, t) \in e <=> At(None, t) \in d /\ At(None, t) \notin B
    BY DEF Moved
  <2>3. At(Default, t) \in {Moved(r) : r \in B} <=> At(None, t) \in B
    <3>1. ASSUME NEW u \in old, Moved(At(None, u)) = At(Default, t)
          PROVE  u = t
      BY <3>1, OldRow DEF Moved
    <3>2. Moved(At(None, t)) = At(Default, t)
      BY DEF Moved
    <3>3. ASSUME NEW r \in B, Moved(r) = At(Default, t)
          PROVE  r = At(None, t)
      <4>1. PICK u \in old : r = At(None, u)
        BY <1>2
      <4> QED
        BY <3>1, <3>3, <4>1
    <3> QED
      BY <3>2, <3>3
  <2>4. At(Default, t) \notin B
    BY DEF Skipped
  <2> QED
    BY <2>1, <2>2, <2>3, <2>4
<1> HIDE DEF e
<1>5. Intact(e)
  BY <1>1, <1>3, <1>4 DEF Intact
<1> QED
  BY <1>1, <1>5 DEF e

\* When nothing is left to move, the default container holds everything.
LEMMA AllMoved ==
    ASSUME old \in Directories, Intact(rows), FormatRow \notin rows,
           \A i \in DOMAIN Families : Unmoved(Families[i]) = {}
    PROVE  rows = {At(Default, t) : t \in old}
<1>1. ASSUME NEW t \in old
      PROVE  At(None, t) \notin rows
  <2>1. PICK i \in DOMAIN Families : Families[i] = t[1]
    BY OldRow
  <2>2. At(None, t) \notin Unmoved(Families[i])
    OBVIOUS
  <2> QED
    BY <2>1, <2>2, NotSkipped DEF Unmoved
<1>2. \A t \in old : At(Default, t) \in rows
  BY <1>1 DEF Intact
<1>3. ASSUME NEW r \in rows
      PROVE  \E t \in old : r = At(Default, t)
  BY <1>1, RowForm
<1> QED
  BY <1>2, <1>3

-----------------------------------------------------------------------------
LEMMA StorageInitInv == StorageInit => StorageInv
<1> SUFFICES ASSUME StorageInit PROVE StorageInv
  OBVIOUS
<1>1. FormatRow \notin rows
  BY OldRow DEF StorageInit
<1>2. Intact(rows)
  BY <1>1, OldRow DEF StorageInit, Intact
<1> QED
  BY <1>1, <1>2 DEF StorageInit, StorageInv, NothingLost, NoneAhead

LEMMA StorageNextInv == StorageInv /\ [StorageNext]_storageVars => StorageInv'
<1> SUFFICES ASSUME StorageInv, [StorageNext]_storageVars PROVE StorageInv'
  OBVIOUS
<1>1. CASE Open
  BY <1>1 DEF Open, StorageInv, NothingLost, NoneAhead, Intact
<1>2. CASE MoveBatch
  <2>0. PICK i \in DOMAIN Families :
            \E B \in SUBSET Unmoved(Families[i]) : Write(B, {Moved(r) : r \in B})
    BY <1>2 DEF MoveBatch
  <2>1. PICK B \in SUBSET Unmoved(Families[i]) : Write(B, {Moved(r) : r \in B})
    BY <2>0
  <2>2. FormatRow \notin rows /\ Intact(rows) /\ old \in Directories
    BY <1>2 DEF MoveBatch, StorageInv, NothingLost
  <2>3. B \in SUBSET rows /\ \A r \in B : ~Skipped(r)
    BY DEF Unmoved
  <2>4. Intact(rows') /\ FormatRow \notin rows'
    BY <2>1, <2>2, <2>3, MoveKeeps DEF Write
  <2>5. \A d \in survivors' : Intact(d) /\ FormatRow \notin d
    BY <2>1, <2>2, <2>4, EarlierOnly DEF Write, StorageInv, NothingLost, NoneAhead
  <2> QED
    BY <1>2, <2>4, <2>5 DEF MoveBatch, StorageInv, NothingLost, NoneAhead, Intact
<1>3. CASE Finish
  <2>1. rows = {At(Default, t) : t \in old}
    BY <1>3, AllMoved DEF Finish, StorageInv, NothingLost
  <2>2. rows' = {At(Default, t) : t \in old} \cup Reserved
    BY <1>3, <2>1 DEF Finish, Write
  <2>3. Intact(rows') /\ FormatRow \in rows'
    <3>1. \A t \in old : At(Default, t)[1] = Default
      BY Parts
    <3> QED
      BY <2>2, <3>1 DEF Intact
  <2>4. \A d \in survivors' : Intact(d)
    BY <1>3, <2>3, EarlierOnly DEF Finish, Write, StorageInv, NothingLost
  <2> QED
    BY <1>3, <2>3, <2>4 DEF Finish, StorageInv, NothingLost, NoneAhead, Intact
<1>4. CASE ContainerWrite
  <2>1. FormatRow \in rows /\ Intact(rows)
    BY <1>4 DEF ContainerWrite, StorageInv, NothingLost
  <2>2. FormatRow \in rows'
    BY <1>4, <2>1 DEF ContainerWrite
  <2>3. \A r \in rows' : r[1] = Default \/ r \in Reserved
    BY <1>4, <2>1 DEF ContainerWrite, Intact
  <2>4. Intact(rows')
    BY <2>2, <2>3 DEF Intact
  <2>5. \A d \in survivors' : Intact(d)
    BY <1>4, <2>4, EarlierOnly DEF ContainerWrite, StorageInv, NothingLost
  <2> QED
    BY <1>4, <2>2, <2>4, <2>5 DEF ContainerWrite, StorageInv, NothingLost, NoneAhead, Intact
<1>5. CASE Crash
  <2>1. Intact(rows') /\ survivors' = {rows'} /\ old' = old /\ phase' = "down"
    BY <1>5 DEF Crash, StorageInv, NothingLost
  <2>2. NothingLost'
    BY <2>1 DEF NothingLost, Intact
  <2> QED
    BY <2>1, <2>2 DEF StorageInv, NoneAhead
<1>6. CASE UNCHANGED storageVars
  BY <1>6 DEF storageVars, StorageInv, NothingLost, NoneAhead, Intact
<1> QED
  BY <1>1, <1>2, <1>3, <1>4, <1>5, <1>6 DEF StorageNext

LEMMA StorageInvariance == StorageSpec => []StorageInv
BY StorageInitInv, StorageNextInv, PTL DEF StorageSpec

\* Only Finish makes a directory current, and only a whole one.
LEMMA StepOpensWhole ==
    ASSUME StorageInv, [StorageNext]_storageVars, FormatRow \notin rows, FormatRow \in rows'
    PROVE  rows' = {At(Default, t) : t \in old} \cup Reserved
<1>1. CASE Finish
  <2>1. rows = {At(Default, t) : t \in old}
    BY <1>1, AllMoved DEF Finish, StorageInv, NothingLost
  <2> QED
    BY <1>1, <2>1 DEF Finish, Write
<1>2. ~MoveBatch
  <2> SUFFICES ASSUME MoveBatch PROVE FALSE
    OBVIOUS
  <2>0. PICK i \in DOMAIN Families :
            \E B \in SUBSET Unmoved(Families[i]) : Write(B, {Moved(r) : r \in B})
    BY DEF MoveBatch
  <2>1. PICK B \in SUBSET Unmoved(Families[i]) : Write(B, {Moved(r) : r \in B})
    BY <2>0
  <2> QED
    BY <2>1 DEF Write, Moved
<1>3. ~Open /\ ~(UNCHANGED storageVars)
  BY DEF Open, storageVars
<1>4. ~ContainerWrite /\ ~Crash
  BY DEF ContainerWrite, Crash, StorageInv, NoneAhead
<1> QED
  BY <1>1, <1>2, <1>3, <1>4 DEF StorageNext

\* No crash, at any point of any migration, loses a row or leaves one twice,
\* for every directory of format 1, every batch size and every durability of
\* the writes (PhysicalStore::migrate_to_current_format).
THEOREM MigrationLosesNothing == StorageSpec => []NothingLost
<1>1. StorageInv => NothingLost
  BY DEF StorageInv
<1> QED
  BY <1>1, StorageInvariance, PTL

\* A directory becomes current in one step, with every old row in the default
\* container.
THEOREM MigrationIsWhole == StorageSpec => OpensWhole
<1>1. StorageInv /\ [StorageNext]_storageVars
        => [FormatRow \notin rows /\ FormatRow \in rows'
              => rows' = {At(Default, t) : t \in old} \cup Reserved]_storageVars
  BY StepOpensWhole
<1> QED
  BY <1>1, StorageInvariance, PTL DEF StorageSpec, OpensWhole

-----------------------------------------------------------------------------
LEMMA CommitIsContainerWrite ==
    ASSUME NEW kind, NEW s, NEW id, NEW b, NEW del, NEW put,
           Commit(kind, s, id, b, del, put), phase = "up",
           \A r \in del \cup put : r[1] = Default
    PROVE  ContainerWrite
BY SMT DEF Commit, Write, ContainerWrite

\* A server is live only on an opened directory.
LiveIsOpen == live => phase = "up"

LEMMA ServingInit == Init => StorageInit /\ LiveIsOpen
BY DEF Init, LiveIsOpen

LEMMA ServingStep ==
    ASSUME LiveIsOpen, [Next]_vars
    PROVE  LiveIsOpen' /\ [StorageNext]_storageVars
<1>1. CASE (Open \/ MoveBatch \/ Finish) /\ UNCHANGED servingVars
  BY <1>1 DEF Open, MoveBatch, Finish, servingVars, LiveIsOpen, StorageNext
<1>2. CASE Load
  BY <1>2 DEF Load, LiveIsOpen, storageVars
<1>3. ASSUME NEW s \in Slots, NEW c \in Contents, Register(s, c[1], c[2])
      PROVE  LiveIsOpen' /\ [StorageNext]_storageVars
  <2> DEFINE put == {<<Default, "schemas", c[1], c[2]>>, <<Default, "versions", s, c[1]>>}
  <2>1. Commit("put", s, c[1], c[2], {}, put) /\ phase = "up"
    BY <1>3 DEF Register, Commit, LiveIsOpen
  <2>2. \A r \in {} \cup put : r[1] = Default
    BY SMT
  <2> HIDE DEF put
  <2>3. ContainerWrite
    BY <2>1, <2>2, CommitIsContainerWrite
  <2> QED
    BY <2>1, <2>3 DEF Commit, LiveIsOpen, StorageNext
<1>4. ASSUME NEW s \in Slots, NEW id \in Ids, Delete(s, id)
      PROVE  LiveIsOpen' /\ [StorageNext]_storageVars
  <2> DEFINE kind == IF Freed(s, id) = {} THEN "keep" ELSE "free"
             del == {<<Default, "versions", s, id>>}
                        \cup {<<Default, "schemas", id, b>> : b \in Freed(s, id)}
  <2>1. Commit(kind, s, id, Nobody, del, {}) /\ phase = "up"
    BY <1>4 DEF Delete, Commit, LiveIsOpen
  <2>2. \A r \in del \cup {} : r[1] = Default
    BY SMT
  <2> HIDE DEF kind, del
  <2>3. ContainerWrite
    BY <2>1, <2>2, CommitIsContainerWrite
  <2> QED
    BY <2>1, <2>3 DEF Commit, LiveIsOpen, StorageNext
<1>5. CASE Follow \/ Publish
  <2>1. UNCHANGED <<storageVars, live>>
    BY <1>5 DEF Follow, Publish
  <2> QED
    BY <2>1 DEF LiveIsOpen, storageVars
<1>6. ASSUME NEW r \in Readers,
             Ask(r) \/ Hit(r) \/ Read(r) \/ Fill(r) \/ ParseHit(r) \/ ParseMiss(r) \/ Leave(r)
      PROVE  LiveIsOpen' /\ [StorageNext]_storageVars
  <2>1. UNCHANGED <<storageVars, live>>
    BY <1>6 DEF Ask, Hit, Read, Fill, ParseHit, ParseMiss, Leave
  <2> QED
    BY <2>1 DEF LiveIsOpen, storageVars
<1>7. CASE Crash /\ Forget
  BY <1>7 DEF Crash, Forget, LiveIsOpen, StorageNext
<1>8. CASE UNCHANGED vars
  BY <1>8 DEF vars, servingVars, storageVars, LiveIsOpen
<1> QED
  BY <1>1, <1>2, <1>3, <1>4, <1>5, <1>6, <1>7, <1>8 DEF Next

\* A server that serves, caches and crashes uses its directory as Storage
\* says: it writes only to an opened one, and only rows of its container.
THEOREM ServingUsesStorage == Spec => StorageSpec
BY ServingInit, ServingStep, PTL DEF Spec, StorageSpec

\* So the guarantees of the migration hold for the whole life of a server.
THEOREM ServerLosesNothing == Spec => []NothingLost /\ OpensWhole
BY ServingUsesStorage, MigrationLosesNothing, MigrationIsWhole, PTL

-----------------------------------------------------------------------------
(***************************************************************************)
(* Serving: what the published snapshot names is stored, what was freed is *)
(* not kept in memory, and a parse is of the schema its reader holds, for  *)
(* any number of readers and any sizes of the caches.                      *)
(***************************************************************************)
HIDE DEF None, Default, At, FormatRow, ContainerRow, Reserved

\* Before the snapshot is loaded nothing is cached and nobody reads.
Quiet ==
    ~live => /\ snapshot = {} /\ bodies = {} /\ parsed = {} /\ tx = NoTx
             /\ readers = [r \in Readers |-> Idle]

\* A mutation has its fields.
TxForm == tx = [step |-> tx.step, kind |-> tx.kind, slot |-> tx.slot, id |-> tx.id, body |-> tx.body]

Base == StorageInv /\ LiveIsOpen /\ Quiet /\ TxForm

\* The steps of a reader.
Reading(r) == Ask(r) \/ Hit(r) \/ Read(r) \/ Fill(r) \/ ParseHit(r) \/ ParseMiss(r) \/ Leave(r)

\* A reader past the first step belongs to a loaded server.
LEMMA ReadersLive ==
    ASSUME Quiet, NEW r \in Readers, Reading(r)
    PROVE  live
<1> SUFFICES ASSUME ~live PROVE FALSE
  OBVIOUS
<1>1. readers[r].pc = "idle"
  BY SMT DEF Quiet, Idle
<1> QED  BY <1>1 DEF Reading, Ask, Hit, Read, Fill, ParseHit, ParseMiss, Leave

LEMMA BaseInit == Init => Base
BY ServingInit, StorageInitInv DEF Base, Init, Quiet, TxForm, NoTx

LEMMA BaseStep ==
    ASSUME Base, [Next]_vars
    PROVE  Base'
<1>1. LiveIsOpen' /\ StorageInv'
  BY ServingStep, StorageNextInv DEF Base
<1>2. Quiet'
  <2>1. CASE (Open \/ MoveBatch \/ Finish) /\ UNCHANGED servingVars
    BY <2>1 DEF servingVars, Base, Quiet
  <2>2. CASE Load
    BY <2>2 DEF Load, Quiet
  <2>3. ASSUME NEW s \in Slots, NEW c \in Contents, Register(s, c[1], c[2])
        PROVE  Quiet'
    BY <2>3 DEF Register, Commit, Quiet
  <2>4. ASSUME NEW s \in Slots, NEW id \in Ids, Delete(s, id)
        PROVE  Quiet'
    BY <2>4 DEF Delete, Commit, Quiet
  <2>5. CASE Follow \/ Publish
    <3>1. live /\ live' = live
      BY <2>5, SMT DEF Follow, Publish, Base, Quiet, NoTx
    <3> QED  BY <3>1 DEF Quiet
  <2>6. ASSUME NEW r \in Readers, Reading(r)
        PROVE  Quiet'
    <3>1. live /\ live' = live
      BY <2>6, ReadersLive DEF Base, Reading, Ask, Hit, Read, Fill, ParseHit, ParseMiss, Leave
    <3> QED  BY <3>1 DEF Quiet
  <2>7. CASE Crash /\ Forget
    BY <2>7 DEF Forget, Quiet
  <2>8. CASE UNCHANGED vars
    BY <2>8 DEF vars, servingVars, Base, Quiet
  <2> QED  BY <2>1, <2>2, <2>3, <2>4, <2>5, <2>6, <2>7, <2>8 DEF Next, Reading
<1>3. TxForm'
  <2>1. CASE UNCHANGED tx
    BY <2>1 DEF Base, TxForm
  <2>2. \A kind, s, id, b, del, put : Commit(kind, s, id, b, del, put) => TxForm'
    BY DEF Commit, TxForm
  <2>3. CASE Follow
    <3>1. tx' = [tx EXCEPT !.step = "cached"] /\ TxForm
      BY <2>3 DEF Follow, Base
    <3> QED  BY <3>1 DEF TxForm
  <2>4. CASE Publish \/ Forget
    BY <2>4 DEF Publish, Forget, TxForm, NoTx
  <2>5. \A s, id, b : Register(s, id, b) \/ Delete(s, id) => TxForm'
    BY <2>2 DEF Register, Delete
  <2>6. \A r : Reading(r) => UNCHANGED tx
    BY DEF Reading, Ask, Hit, Read, Fill, ParseHit, ParseMiss, Leave
  <2> QED  BY <2>1, <2>3, <2>4, <2>5, <2>6 DEF Next, Reading, vars, servingVars, Load
<1> QED  BY <1>1, <1>2, <1>3 DEF Base

LEMMA BaseInvariance == Spec => []Base
BY BaseInit, BaseStep, PTL DEF Spec

-----------------------------------------------------------------------------
(***************************************************************************)
(* The rows a container holds.                                             *)
(***************************************************************************)
\* What Stored and Table are, row by row.
LEMMA StoredRows ==
    ASSUME NEW id
    PROVE  /\ \A b : <<Default, "schemas", id, b>> \in rows => b \in Stored(id)
           /\ \A b \in Stored(id) : \E r \in rows : r[1] = Default /\ r[2] = "schemas" /\ r[3] = id /\ r[4] = b
           /\ \A r \in rows : r[1] = Default /\ r[2] = "schemas" /\ r[3] = id => r[4] \in Stored(id)
<1>1. \A r \in rows : r[1] = Default /\ r[2] = "schemas" /\ r[3] = id => r[4] \in Stored(id)
  <2> SUFFICES ASSUME NEW r \in rows, r[1] = Default, r[2] = "schemas", r[3] = id
               PROVE  r[4] \in Stored(id)
    OBVIOUS
  <2>1. <<r[3], r[4]>> \in Table("schemas")
    BY DEF Table
  <2> QED  BY <2>1, SMT DEF Stored
<1>2. ASSUME NEW b, <<Default, "schemas", id, b>> \in rows PROVE b \in Stored(id)
  BY <1>1, <1>2
<1>3. ASSUME NEW b \in Stored(id)
      PROVE  \E r \in rows : r[1] = Default /\ r[2] = "schemas" /\ r[3] = id /\ r[4] = b
  <2>1. PICK x \in Table("schemas") : x[1] = id /\ x[2] = b
    BY DEF Stored
  <2> QED  BY <2>1, SMT DEF Table
<1> QED  BY <1>1, <1>2, <1>3

LEMMA TableRows ==
    ASSUME NEW v \in Table("versions")
    PROVE  /\ v = <<v[1], v[2]>>
           /\ \E r \in rows : r[1] = Default /\ r[2] = "versions" /\ r[3] = v[1] /\ r[4] = v[2]
BY SMT DEF Table

-----------------------------------------------------------------------------
\* Every version of every directory has its content.
WholeDirectories ==
    \A D \in Directories : \A t \in D :
        t[1] = "versions" => \E u \in D : u[1] = "schemas" /\ u[2] = t[3]

\* The same of a directory's container.
Bodied(d) ==
    \A r \in d : r[1] = Default =>
        /\ r = <<r[1], r[2], r[3], r[4]>>
        /\ r[2] = "versions" => \E q \in d : q[1] = Default /\ q[2] = "schemas" /\ q[3] = r[4]

\* It holds of every current directory a crash may leave, of the one in use,
\* and the snapshot is behind the store by at most the mutation under way.
CurrentBodied == \A d \in survivors \cup {rows} : FormatRow \in d => Bodied(d)
SnapshotInv ==
    /\ CurrentBodied
    /\ live /\ tx = NoTx => snapshot = Table("versions")
    /\ PublishedIsStored

\* A batch writes to the directory in use and keeps earlier ones at most.
LEMMA WriteBodied ==
    ASSUME CurrentBodied, NEW del, NEW put, Write(del, put), FormatRow \in rows' => Bodied(rows')
    PROVE  CurrentBodied'
<1>1. survivors' \subseteq survivors \cup {rows} \cup {rows'}
  BY EarlierOnly DEF Write
<1> QED  BY <1>1, SMT DEF CurrentBodied, Bodied

LEMMA TableIsStored ==
    ASSUME Bodied(rows), NEW v \in Table("versions")
    PROVE  Stored(v[2]) # {}
<1>1. PICK r \in rows : r[1] = Default /\ r[2] = "versions" /\ r[4] = v[2]
  BY TableRows
<1>2. PICK q \in rows : q[1] = Default /\ q[2] = "schemas" /\ q[3] = v[2]
  BY <1>1 DEF Bodied
<1> QED  BY <1>2, StoredRows

\* A registration leaves every version with its content.
LEMMA RegisterBodied ==
    ASSUME Bodied(rows), NEW s, NEW id, NEW b,
           rows' = (rows \ {}) \cup {<<Default, "schemas", id, b>>, <<Default, "versions", s, id>>}
    PROVE  Bodied(rows)'
<1>0. ASSUME NEW r \in rows', r[1] = Default PROVE r = <<r[1], r[2], r[3], r[4]>>
  BY <1>0, SMT DEF Bodied
<1> SUFFICES ASSUME NEW r \in rows', r[1] = Default, r[2] = "versions"
             PROVE  \E q \in rows' : q[1] = Default /\ q[2] = "schemas" /\ q[3] = r[4]
  BY <1>0 DEF Bodied
<1>1. CASE r \in rows
  BY <1>1 DEF Bodied
<1>2. CASE r \notin rows
  <2> DEFINE q == <<Default, "schemas", id, b>>
  <2>1. r = <<Default, "versions", s, id>>
    BY <1>2, SMT
  <2>2. q \in rows' /\ q[1] = Default /\ q[2] = "schemas" /\ q[3] = r[4]
    BY <2>1, SMT
  <2> QED  BY <2>2
<1> QED  BY <1>1, <1>2

\* What a permanent delete takes: the version, and its content only when no
\* other version has the id.
LEMMA DeleteRows ==
    ASSUME NEW s, NEW id,
           rows' = (rows \ ({<<Default, "versions", s, id>>}
                                \cup {<<Default, "schemas", id, b>> : b \in Freed(s, id)})) \cup {}
    PROVE  /\ rows' \subseteq rows /\ <<Default, "versions", s, id>> \notin rows'
           /\ \A q \in rows : q[2] = "schemas" /\ q[3] # id => q \in rows'
           /\ Freed(s, id) = {} => \A q \in rows : q[2] = "schemas" => q \in rows'
<1>1. \A q \in rows : q[2] = "schemas" => q # <<Default, "versions", s, id>>
  BY SMT
<1>2. \A q \in rows : q[2] = "schemas" /\ q \notin rows' => \E b \in Freed(s, id) : q = <<Default, "schemas", id, b>>
  BY <1>1
<1>3. \A q \in rows : q[2] = "schemas" /\ q \notin rows' => q[3] = id /\ Freed(s, id) # {}
  BY <1>2, SMT
<1>4. rows' \subseteq rows /\ <<Default, "versions", s, id>> \notin rows'
  OBVIOUS
<1> QED  BY <1>3, <1>4

LEMMA DeleteBodied ==
    ASSUME Bodied(rows), NEW s, NEW id,
           rows' = (rows \ ({<<Default, "versions", s, id>>}
                                \cup {<<Default, "schemas", id, b>> : b \in Freed(s, id)})) \cup {}
    PROVE  Bodied(rows)'
<1>0. ASSUME NEW r \in rows', r[1] = Default PROVE r = <<r[1], r[2], r[3], r[4]>>
  BY <1>0, DeleteRows DEF Bodied
<1> SUFFICES ASSUME NEW r \in rows', r[1] = Default, r[2] = "versions"
             PROVE  \E q \in rows' : q[1] = Default /\ q[2] = "schemas" /\ q[3] = r[4]
  BY <1>0 DEF Bodied
<1>1. r \in rows /\ r # <<Default, "versions", s, id>>
  BY DeleteRows
<1>2. PICK q \in rows : q[1] = Default /\ q[2] = "schemas" /\ q[3] = r[4]
  BY <1>1 DEF Bodied
<1>3. Freed(s, id) # {} => r[4] # id
  <2> SUFFICES ASSUME Freed(s, id) # {}, r[4] = id PROVE FALSE
    OBVIOUS
  <2> DEFINE v == <<r[3], r[4]>>
  <2>1. v \in Table("versions") /\ v[1] = r[3] /\ v[2] = r[4]
    BY <1>1 DEF Table
  <2>2. \A w \in Table("versions") : w[2] = id => w[1] = s
    BY DEF Freed
  <2> HIDE DEF v
  <2>3. r[3] = s
    BY <2>1, <2>2
  <2>4. r = <<r[1], r[2], r[3], r[4]>>
    BY <1>0
  <2> QED  BY <1>1, <2>3, <2>4
<1>4. q \in rows'
  BY <1>2, <1>3, DeleteRows
<1> QED  BY <1>2, <1>4

\* Content that a delete leaves.
LEMMA DeleteKeepsOthers ==
    ASSUME NEW s, NEW id, NEW i, Stored(i) # {}, i = id => Freed(s, id) = {},
           rows' = (rows \ ({<<Default, "versions", s, id>>}
                                \cup {<<Default, "schemas", id, b>> : b \in Freed(s, id)})) \cup {}
    PROVE  Stored(i)' # {}
<1>1. PICK q \in rows : q[1] = Default /\ q[2] = "schemas" /\ q[3] = i
  BY StoredRows
<1>2. q \in rows'
  BY <1>1, DeleteRows, SMT
<1>3. <<q[3], q[4]>> \in Table("schemas")'
  BY <1>1, <1>2 DEF Table
<1> QED  BY <1>1, <1>3, SMT DEF Stored

LEMMA WholeBodied ==
    ASSUME WholeDirectories, old \in Directories, NEW d, d = {At(Default, t) : t \in old} \cup Reserved
    PROVE  Bodied(d)
<1> SUFFICES ASSUME NEW r \in d, r[1] = Default
             PROVE  /\ r = <<r[1], r[2], r[3], r[4]>>
                    /\ r[2] = "versions" => \E q \in d : q[1] = Default /\ q[2] = "schemas" /\ q[3] = r[4]
  BY DEF Bodied
<1>0. FormatRow[1] = None /\ ContainerRow[1] = None /\ None # Default
  BY DEF FormatRow, ContainerRow, None, Default
<1>1. PICK t \in old : r = At(Default, t)
  BY <1>0 DEF Reserved
<1>2. r[2] = t[1] /\ r[3] = t[2] /\ r[4] = t[3] /\ r = <<r[1], r[2], r[3], r[4]>>
  BY <1>1, SMT DEF At
<1>3. ASSUME t[1] = "versions"
      PROVE  \E q \in d : q[1] = Default /\ q[2] = "schemas" /\ q[3] = t[3]
  <2>1. PICK u \in old : u[1] = "schemas" /\ u[2] = t[3]
    BY <1>3 DEF WholeDirectories
  <2> DEFINE q == At(Default, u)
  <2>2. q \in d /\ q[1] = Default /\ q[2] = u[1] /\ q[3] = u[2]
    BY DEF At
  <2> QED  BY <2>1, <2>2
<1> QED  BY <1>2, <1>3

\* The steps that change the directory, one by one, leave it bodied.
LEMMA OpeningBodied ==
    ASSUME WholeDirectories, StorageInv, CurrentBodied, Open \/ MoveBatch \/ Finish
    PROVE  CurrentBodied'
<1>1. CASE Open
  BY <1>1 DEF Open, CurrentBodied, Bodied
<1>2. CASE MoveBatch
  <2>1. PICK i \in DOMAIN Families :
            \E B \in SUBSET Unmoved(Families[i]) : Write(B, {Moved(r) : r \in B})
    BY <1>2 DEF MoveBatch
  <2>2. PICK B \in SUBSET Unmoved(Families[i]) : Write(B, {Moved(r) : r \in B})
    BY <2>1
  <2>3. FormatRow \notin rows /\ Intact(rows) /\ old \in Directories
    BY <1>2 DEF MoveBatch, StorageInv, NothingLost
  <2>4. B \in SUBSET rows /\ \A r \in B : ~Skipped(r)
    BY DEF Unmoved
  <2>5. FormatRow \notin rows'
    BY <2>2, <2>3, <2>4, MoveKeeps DEF Write
  <2> QED  BY <2>2, <2>5, WriteBodied
<1>3. CASE Finish
  <2>1. rows = {At(Default, t) : t \in old}
    BY <1>3, AllMoved DEF Finish, StorageInv, NothingLost
  <2>2. rows' = {At(Default, t) : t \in old} \cup Reserved /\ Write({}, Reserved)
    BY <1>3, <2>1 DEF Finish, Write
  <2>3. Bodied(rows')
    BY <2>2, WholeBodied DEF StorageInv
  <2> QED  BY <2>2, <2>3, WriteBodied
<1> QED  BY <1>1, <1>2, <1>3

LEMMA BodiedInUse == Base /\ CurrentBodied /\ live => Bodied(rows)
BY DEF Base, StorageInv, LiveIsOpen, CurrentBodied

LEMMA AllStored == Bodied(rows) => \A v \in Table("versions") : Stored(v[2]) # {}
BY TableIsStored

LEMMA SnapshotStep ==
    ASSUME WholeDirectories, Base, SnapshotInv, [Next]_vars
    PROVE  SnapshotInv'
<1>1. CASE (Open \/ MoveBatch \/ Finish) /\ UNCHANGED servingVars
  <2>1. CurrentBodied'
    BY <1>1, OpeningBodied DEF Base, SnapshotInv
  <2>2. ~live /\ snapshot = {} /\ live' = live /\ snapshot' = snapshot
    BY <1>1 DEF Base, LiveIsOpen, Quiet, Open, MoveBatch, Finish, servingVars
  <2> QED  BY <2>1, <2>2 DEF SnapshotInv, PublishedIsStored
<1>2. ASSUME UNCHANGED storageVars PROVE CurrentBodied'
  BY <1>2 DEF storageVars, SnapshotInv, CurrentBodied, Bodied
<1>3. ASSUME CurrentBodied', snapshot' = Table("versions")', live', Base'
      PROVE  PublishedIsStored'
  <2>1. (Base /\ CurrentBodied /\ live => Bodied(rows))'
    BY BodiedInUse, PTL
  <2>2. (Bodied(rows) => \A v \in Table("versions") : Stored(v[2]) # {})'
    BY AllStored, PTL
  <2> QED  BY <1>3, <2>1, <2>2 DEF PublishedIsStored
<1>4. CASE Load
  <2>1. CurrentBodied' /\ snapshot' = Table("versions")' /\ live' /\ Base'
    BY <1>2, <1>4, BaseStep DEF Load, storageVars, Table
  <2> QED  BY <1>3, <2>1 DEF SnapshotInv
<1>5. ASSUME NEW s \in Slots, NEW c \in Contents, Register(s, c[1], c[2]) PROVE SnapshotInv'
  <2> DEFINE put == {<<Default, "schemas", c[1], c[2]>>, <<Default, "versions", s, c[1]>>}
  <2>1. /\ live /\ tx = NoTx /\ live' = live /\ snapshot' = snapshot /\ tx' # NoTx
        /\ Write({}, put) /\ rows' = (rows \ {}) \cup put
    BY <1>5 DEF Register, Commit, Write, NoTx
  <2>2. Bodied(rows) /\ Bodied(rows)'
    BY <2>1, BodiedInUse, RegisterBodied DEF SnapshotInv
  <2>3. CurrentBodied'
    BY <2>1, <2>2, WriteBodied DEF SnapshotInv
  <2>4. ASSUME NEW v \in snapshot' PROVE Stored(v[2])' # {}
    <3>1. Stored(v[2]) # {}
      BY <2>1, <2>2, <2>4, TableIsStored DEF SnapshotInv
    <3>2. Stored(v[2]) \subseteq Stored(v[2])'
      BY <2>1 DEF Stored, Table
    <3> QED  BY <3>1, <3>2
  <2> QED  BY <2>1, <2>3, <2>4 DEF SnapshotInv, PublishedIsStored
<1>6. ASSUME NEW s \in Slots, NEW id \in Ids, Delete(s, id) PROVE SnapshotInv'
  <2> DEFINE del == {<<Default, "versions", s, id>>} \cup {<<Default, "schemas", id, b>> : b \in Freed(s, id)}
  <2>1. /\ live /\ tx = NoTx /\ live' = live /\ snapshot' = snapshot
        /\ Write(del, {}) /\ rows' = (rows \ del) \cup {}
        /\ tx' = [step |-> "durable", kind |-> IF Freed(s, id) = {} THEN "keep" ELSE "free",
                  slot |-> s, id |-> id, body |-> Nobody]
    BY <1>6 DEF Delete, Commit, Write
  <2>2. Bodied(rows) /\ Bodied(rows)'
    BY <2>1, BodiedInUse, DeleteBodied, SMT DEF SnapshotInv
  <2>3. CurrentBodied'
    BY <2>1, <2>2, WriteBodied DEF SnapshotInv
  <2>4. ASSUME NEW v \in snapshot', ~(tx'.kind = "free" /\ tx'.id = v[2]) PROVE Stored(v[2])' # {}
    <3>1. Stored(v[2]) # {}
      BY <2>1, <2>2, <2>4, TableIsStored DEF SnapshotInv
    <3>2. v[2] = id => Freed(s, id) = {}
      BY <2>1, <2>4
    <3> QED  BY <2>1, <3>1, <3>2, DeleteKeepsOthers
  <2>5. tx' # NoTx
    BY <2>1 DEF NoTx
  <2> QED  BY <2>3, <2>4, <2>5 DEF SnapshotInv, PublishedIsStored
<1>7. CASE Follow
  <2>1. /\ UNCHANGED <<storageVars, live, snapshot>> /\ tx.step = "durable"
        /\ tx' = [tx EXCEPT !.step = "cached"] /\ TxForm
    BY <1>7 DEF Follow, Base
  <2>2. tx'.kind = tx.kind /\ tx'.id = tx.id /\ tx' # NoTx
    BY <2>1 DEF TxForm, NoTx
  <2> QED  BY <1>2, <2>1, <2>2 DEF SnapshotInv, PublishedIsStored, Stored, Table, storageVars
<1>8. CASE Publish
  <2>1. CurrentBodied' /\ snapshot' = Table("versions")' /\ live' /\ Base'
    BY <1>2, <1>8, BaseStep, SMT DEF Publish, storageVars, Table, Base, Quiet, NoTx
  <2> QED  BY <1>3, <2>1 DEF SnapshotInv
<1>9. ASSUME NEW r \in Readers, Reading(r) PROVE SnapshotInv'
  <2>1. UNCHANGED <<storageVars, live, snapshot, tx>>
    BY <1>9 DEF Reading, Ask, Hit, Read, Fill, ParseHit, ParseMiss, Leave
  <2> QED  BY <1>2, <2>1 DEF SnapshotInv, PublishedIsStored, Stored, Table, storageVars
<1>10. CASE Crash /\ Forget
  <2>1. CurrentBodied'
    BY <1>10, SMT DEF Crash, SnapshotInv, CurrentBodied, Bodied
  <2> QED  BY <1>10, <2>1 DEF Forget, SnapshotInv, PublishedIsStored
<1>11. CASE UNCHANGED vars
  BY <1>2, <1>11 DEF vars, storageVars, servingVars, SnapshotInv, PublishedIsStored, Stored, Table
<1> QED  BY <1>1, <1>4, <1>5, <1>6, <1>7, <1>8, <1>9, <1>10, <1>11 DEF Next, Reading

\* What a published snapshot names can be read, through every order of
\* mutations, crashes and restarts, for every directory whose versions have
\* their content (Registry::commit publishes what is durable).
THEOREM PublishedCanBeRead ==
    ASSUME WholeDirectories
    PROVE  Spec => []PublishedIsStored
<1>1. Init => SnapshotInv
  <2> SUFFICES ASSUME Init PROVE SnapshotInv
    OBVIOUS
  <2>1. FormatRow \notin rows /\ survivors = {rows}
    BY OldRow DEF Init, StorageInit, FormatRow, At, Reserved
  <2> QED  BY <2>1 DEF Init, SnapshotInv, CurrentBodied, PublishedIsStored
<1>2. ASSUME Base, SnapshotInv, [Next]_vars PROVE SnapshotInv'
  BY <1>2, SnapshotStep
<1>3. SnapshotInv => PublishedIsStored
  BY DEF SnapshotInv
<1> QED  BY <1>1, <1>2, <1>3, BaseInvariance, PTL DEF Spec

-----------------------------------------------------------------------------
\* An insert into the body cache keeps some of the other entries.
LEMMA InsertRoom ==
    ASSUME NEW id, NEW b, Insert(id, b)
    PROVE  \E C \in SUBSET bodies :
               /\ bodies' = C \cup {<<id, b>>}
               /\ overtaken' = ({x[1] : x \in C} \cap overtaken) \cup (IF Stored(id) = {} THEN {id} ELSE {})
BY DEF Insert, Room, Others

LEMMA InsertForgets ==
    ASSUME FreedIsForgotten, NEW id, NEW b, Insert(id, b), UNCHANGED storageVars,
           tx' = tx \/ tx.kind = "put"
    PROVE  FreedIsForgotten'
<1>1. PICK C \in SUBSET bodies :
          /\ bodies' = C \cup {<<id, b>>}
          /\ overtaken' = ({x[1] : x \in C} \cap overtaken) \cup (IF Stored(id) = {} THEN {id} ELSE {})
  BY InsertRoom
<1>2. \A i : Stored(i)' = Stored(i)
  BY DEF Stored, Table, storageVars
<1>3. ASSUME NEW x \in C
      PROVE  \/ Stored(x[1]) # {} \/ x[1] \in overtaken'
             \/ tx'.kind = "free" /\ tx'.step = "durable" /\ tx'.id = x[1]
  BY <1>1, <1>3, SMT DEF FreedIsForgotten
<1>4. Stored(id) # {} \/ id \in overtaken'
  BY <1>1
<1> QED  BY <1>1, <1>2, <1>3, <1>4, SMT DEF FreedIsForgotten

\* Memory follows the store: whatever a permanent delete frees leaves the body
\* cache with it, unless a reader that had read the store before puts it back
\* (Registry::commit, DeleteSchema).
THEOREM MemoryIsGivenBack == Spec => []FreedIsForgotten
<1>1. Init => FreedIsForgotten
  BY DEF Init, FreedIsForgotten
<1>2. ASSUME Base, FreedIsForgotten, [Next]_vars PROVE FreedIsForgotten'
  <2>1. CASE (Open \/ MoveBatch \/ Finish) /\ UNCHANGED servingVars
    <3>1. bodies = {} /\ bodies' = bodies
      BY <1>2, <2>1 DEF Base, LiveIsOpen, Quiet, Open, MoveBatch, Finish, servingVars
    <3> QED  BY <3>1 DEF FreedIsForgotten
  <2>2. ASSUME UNCHANGED <<storageVars, bodies, overtaken, tx>> PROVE FreedIsForgotten'
    BY <1>2, <2>2 DEF FreedIsForgotten, Stored, Table, storageVars
  <2>3. ASSUME NEW s \in Slots, NEW c \in Contents, Register(s, c[1], c[2]) PROVE FreedIsForgotten'
    <3>1. tx = NoTx /\ UNCHANGED <<bodies, overtaken>> /\ rows \subseteq rows'
      BY <2>3 DEF Register, Commit, Write
    <3>2. \A i : Stored(i) \subseteq Stored(i)'
      BY <3>1 DEF Stored, Table
    <3> QED  BY <1>2, <3>1, <3>2 DEF FreedIsForgotten, NoTx
  <2>4. ASSUME NEW s \in Slots, NEW id \in Ids, Delete(s, id) PROVE FreedIsForgotten'
    <3> DEFINE del == {<<Default, "versions", s, id>>} \cup {<<Default, "schemas", id, b>> : b \in Freed(s, id)}
    <3>1. /\ tx = NoTx /\ UNCHANGED <<bodies, overtaken>> /\ rows' = (rows \ del) \cup {}
          /\ tx' = [step |-> "durable", kind |-> IF Freed(s, id) = {} THEN "keep" ELSE "free",
                    slot |-> s, id |-> id, body |-> Nobody]
      BY <2>4 DEF Delete, Commit, Write
    <3>2. ASSUME NEW i, Stored(i) # {}, ~(tx'.kind = "free" /\ tx'.id = i) PROVE Stored(i)' # {}
      <4>1. i = id => Freed(s, id) = {}
        BY <3>1, <3>2
      <4> QED  BY <3>1, <3>2, <4>1, DeleteKeepsOthers
    <3>3. tx'.step = "durable" /\ tx.kind # "free"
      BY <3>1 DEF NoTx
    <3> QED  BY <1>2, <3>1, <3>2, <3>3 DEF FreedIsForgotten
  <2>5. CASE Follow
    <3>1. /\ UNCHANGED storageVars /\ tx' = [tx EXCEPT !.step = "cached"]
          /\ \/ tx.kind = "put" /\ Insert(tx.id, tx.body)
             \/ tx.kind = "free" /\ bodies' = Others(tx.id) /\ overtaken' = overtaken \ {tx.id}
             \/ tx.kind = "keep" /\ UNCHANGED <<bodies, overtaken>>
      BY <2>5 DEF Follow
    <3>2. \A i : Stored(i)' = Stored(i)
      BY <3>1 DEF Stored, Table, storageVars
    <3>3. CASE tx.kind = "put" /\ Insert(tx.id, tx.body)
      BY <1>2, <3>1, <3>3, InsertForgets
    <3>4. CASE tx.kind = "free" /\ bodies' = Others(tx.id) /\ overtaken' = overtaken \ {tx.id}
      BY <1>2, <3>2, <3>4 DEF FreedIsForgotten, Others
    <3>5. CASE tx.kind = "keep" /\ UNCHANGED <<bodies, overtaken>>
      BY <1>2, <3>2, <3>5 DEF FreedIsForgotten
    <3> QED  BY <3>1, <3>3, <3>4, <3>5
  <2>6. CASE Publish
    <3>1. tx.step = "cached" /\ UNCHANGED <<storageVars, bodies, overtaken>>
      BY <2>6 DEF Publish
    <3> QED  BY <1>2, <3>1 DEF FreedIsForgotten, Stored, Table, storageVars
  <2>7. ASSUME NEW r \in Readers, Reading(r) PROVE FreedIsForgotten'
    <3>1. CASE Fill(r)
      <4>1. /\ Insert(Sought(readers[r]), readers[r].answer)
            /\ UNCHANGED storageVars /\ tx' = tx
        BY <3>1 DEF Fill
      <4> QED  BY <1>2, <4>1, InsertForgets
    <3>2. CASE ~Fill(r)
      BY <2>2, <2>7, <3>2 DEF Reading, Ask, Hit, Read, ParseHit, ParseMiss, Leave
    <3> QED  BY <3>1, <3>2
  <2>8. CASE Load
    BY <2>2, <2>8 DEF Load
  <2>9. CASE Crash /\ Forget
    BY <2>9 DEF Forget, FreedIsForgotten
  <2>10. CASE UNCHANGED vars
    BY <2>2, <2>10 DEF vars, servingVars
  <2> QED  BY <1>2, <2>1, <2>3, <2>4, <2>5, <2>6, <2>7, <2>8, <2>9, <2>10 DEF Next, Reading
<1> QED  BY <1>1, <1>2, BaseInvariance, PTL DEF Spec

-----------------------------------------------------------------------------
\* The content an id may have: it is registered or imported with it, or the
\* directory had it.
MayHold(i, b) == <<i, b>> \in Contents \/ \E D \in Directories : <<"schemas", i, b>> \in D
OneContent == \A i, b, e : MayHold(i, b) /\ MayHold(i, e) => b = e

\* Rows, cached bodies, cached parses and what readers hold are of such
\* content.
Held(d) == \A r \in d : r[1] = Default /\ r[2] = "schemas" => MayHold(r[3], r[4])
DirectoriesHold == \A d \in survivors \cup {rows} : Held(d)
BodiesHold == /\ \A x \in bodies : MayHold(x[1], x[2])
              /\ tx.kind = "put" => MayHold(tx.id, tx.body)
ParsesHold == \A p \in parsed : \E b : MayHold(p[1], b) /\ p[3] = <<b.text, p[2]>>
ReaderForm(q) == q = [pc |-> q.pc, snap |-> q.snap, id |-> q.id, rec |-> q.rec, dep |-> q.dep,
                      answer |-> q.answer]
ReaderHolds(q) ==
    /\ ReaderForm(q)
    /\ q.rec # Nobody \/ q.pc \in {"parse", "done"} => MayHold(q.id, q.rec)
    /\ q.pc = "fill" => MayHold(Sought(q), q.answer)
    /\ q.pc = "done" => q.answer = ParseOf(q)
ReadersHold == readers = [r \in Readers |-> readers[r]] /\ \A r \in Readers : ReaderHolds(readers[r])

LEMMA WriteHeld ==
    ASSUME DirectoriesHold, NEW del, NEW put, Write(del, put), Held(put)
    PROVE  DirectoriesHold'
<1>1. survivors' \subseteq survivors \cup {rows} \cup {rows'} /\ rows' = (rows \ del) \cup put
  BY EarlierOnly DEF Write
<1>2. Held(rows')
  BY <1>1 DEF DirectoriesHold, Held
<1> QED  BY <1>1, <1>2 DEF DirectoriesHold, Held

LEMMA OldHeld ==
    ASSUME old \in Directories, NEW t \in old, t[1] = "schemas"
    PROVE  MayHold(t[2], t[3])
<1>1. t = <<"schemas", t[2], t[3]>>
  BY OldRow
<1> QED  BY <1>1 DEF MayHold

LEMMA DirectoriesStep ==
    ASSUME Base, DirectoriesHold, [Next]_vars
    PROVE  DirectoriesHold'
<1>1. CASE Open \/ UNCHANGED storageVars
  BY <1>1 DEF Open, storageVars, DirectoriesHold, Held
<1>2. CASE MoveBatch
  <2>1. PICK i \in DOMAIN Families :
            \E B \in SUBSET Unmoved(Families[i]) : Write(B, {Moved(r) : r \in B})
    BY <1>2 DEF MoveBatch
  <2>2. PICK B \in SUBSET Unmoved(Families[i]) : Write(B, {Moved(r) : r \in B})
    BY <2>1
  <2>3. FormatRow \notin rows /\ Intact(rows) /\ old \in Directories
    BY <1>2 DEF MoveBatch, Base, StorageInv, NothingLost
  <2>4. ASSUME NEW r \in B, r[2] = "schemas" PROVE MayHold(r[3], r[4])
    <3>1. PICK t \in old : r = At(None, t) \/ r = At(Default, t)
      BY <2>3, RowForm DEF Unmoved
    <3>2. r[2] = t[1] /\ r[3] = t[2] /\ r[4] = t[3]
      BY <3>1, SMT DEF At
    <3> QED  BY <2>3, <2>4, <3>2, OldHeld
  <2>5. Held({Moved(r) : r \in B})
    BY <2>4, SMT DEF Held, Moved
  <2> QED  BY <2>2, <2>5, WriteHeld
<1>3. CASE Finish
  <2>1. Write({}, Reserved)
    BY <1>3 DEF Finish
  <2>2. FormatRow[1] = None /\ ContainerRow[1] = None /\ None # Default
    BY DEF FormatRow, ContainerRow, None, Default
  <2>3. Held(Reserved)
    BY <2>2 DEF Held, Reserved
  <2> QED  BY <2>1, <2>3, WriteHeld
<1>4. ASSUME NEW s \in Slots, NEW c \in Contents, Register(s, c[1], c[2]) PROVE DirectoriesHold'
  <2> DEFINE put == {<<Default, "schemas", c[1], c[2]>>, <<Default, "versions", s, c[1]>>}
  <2>1. Write({}, put)
    BY <1>4 DEF Register, Commit
  <2>2. MayHold(c[1], c[2])
    BY ContentsAssumption DEF MayHold
  <2>3. Held(put)
    BY <2>2, SMT DEF Held
  <2> QED  BY <2>1, <2>3, WriteHeld
<1>5. ASSUME NEW s \in Slots, NEW id \in Ids, Delete(s, id) PROVE DirectoriesHold'
  <2>1. PICK del : Write(del, {})
    BY <1>5 DEF Delete, Commit
  <2> QED  BY <2>1, WriteHeld, SMT DEF Held
<1>6. CASE Crash
  BY <1>6 DEF Crash, DirectoriesHold, Held
<1>7. \A r \in Readers : Reading(r) => UNCHANGED storageVars
  BY DEF Reading, Ask, Hit, Read, Fill, ParseHit, ParseMiss, Leave
<1> QED  BY <1>1, <1>2, <1>3, <1>4, <1>5, <1>6, <1>7 DEF Next, Reading, Load, Follow, Publish, vars

LEMMA StoredHolds ==
    ASSUME DirectoriesHold, NEW i, NEW b \in Stored(i)
    PROVE  MayHold(i, b)
<1>1. PICK r \in rows : r[1] = Default /\ r[2] = "schemas" /\ r[3] = i /\ r[4] = b
  BY StoredRows, SMT
<1> QED  BY <1>1 DEF DirectoriesHold, Held

LEMMA InsertHolds ==
    ASSUME BodiesHold, NEW i, NEW b, MayHold(i, b), Insert(i, b), ~(tx'.kind = "put") \/ tx' = tx
    PROVE  BodiesHold'
<1>1. PICK C \in SUBSET bodies : bodies' = C \cup {<<i, b>>}
  BY InsertRoom
<1> QED  BY <1>1, SMT DEF BodiesHold

\* A reader that is given b for what it seeks.
LEMMA GotHolds ==
    ASSUME NEW q, ReaderForm(q), q.rec # Nobody => MayHold(q.id, q.rec), NEW b, MayHold(Sought(q), b)
    PROVE  ReaderHolds(Got(q, b))
<1>0. PICK pc, snap, id, rec, dep, answer :
          q = [pc |-> pc, snap |-> snap, id |-> id, rec |-> rec, dep |-> dep, answer |-> answer]
  BY DEF ReaderForm
<1>1. CASE q.rec = Nobody
  <2> DEFINE p == [q EXCEPT !.rec = b, !.pc = IF b.ref = NoSlot THEN "parse" ELSE "get"]
  <2>1. Got(q, b) = p /\ MayHold(q.id, b)
    BY <1>1 DEF Got, Sought
  <2> DEFINE h == [q EXCEPT !.rec = b]
  <2>2. p = [pc |-> IF b.ref = NoSlot THEN "parse" ELSE "get", snap |-> snap, id |-> id, rec |-> b,
             dep |-> dep, answer |-> answer]
    <3>1. h = [pc |-> pc, snap |-> snap, id |-> id, rec |-> b, dep |-> dep, answer |-> answer]
      BY <1>0, SMT
    <3>2. p = [h EXCEPT !.pc = IF b.ref = NoSlot THEN "parse" ELSE "get"]
      OBVIOUS
    <3> HIDE DEF h, p
    <3> QED  BY <3>1, <3>2
  <2> HIDE DEF p
  <2>3. ReaderForm(p) /\ p.rec = b /\ p.id = q.id /\ p.pc \in {"parse", "get"}
    BY <1>0, <2>2 DEF ReaderForm
  <2> QED  BY <2>1, <2>3 DEF ReaderHolds
<1>2. CASE q.rec # Nobody
  <2> DEFINE p == [q EXCEPT !.dep = b, !.pc = "parse"]
  <2>1. Got(q, b) = p
    BY <1>2 DEF Got
  <2> DEFINE h == [q EXCEPT !.dep = b]
  <2>2. p = [pc |-> "parse", snap |-> snap, id |-> id, rec |-> rec, dep |-> b, answer |-> answer]
    <3>1. h = [pc |-> pc, snap |-> snap, id |-> id, rec |-> rec, dep |-> b, answer |-> answer]
      BY <1>0, SMT
    <3>2. p = [h EXCEPT !.pc = "parse"]
      OBVIOUS
    <3> HIDE DEF h, p
    <3> QED  BY <3>1, <3>2
  <2> HIDE DEF p
  <2>3. ReaderForm(p) /\ p.rec = q.rec /\ p.id = q.id /\ p.pc = "parse"
    BY <1>0, <2>2 DEF ReaderForm
  <2> QED  BY <1>2, <2>1, <2>3 DEF ReaderHolds
<1> QED  BY <1>1, <1>2

LEMMA IdleHolds == ReaderHolds(Idle)
BY DEF ReaderHolds, ReaderForm, Idle

\* One reader goes on, the others hold what they held.
LEMMA StepHolds ==
    ASSUME ReadersHold, NEW r \in Readers, NEW q, Step(r, q), ReaderHolds(q)
    PROVE  ReadersHold'
<1>1. readers' = [x \in Readers |-> IF x = r THEN q ELSE readers[x]]
  BY DEF Step, ReadersHold
<1> QED  BY <1>1 DEF ReadersHold, ReaderHolds, ReaderForm, Sought, ParseOf, Deps

\* The other changes of a reader.
Same(p, q) == p.snap = q.snap /\ p.id = q.id /\ p.rec = q.rec /\ p.dep = q.dep

LEMMA Answers ==
    ASSUME NEW q, ReaderForm(q), NEW to, NEW a
    PROVE  LET p == [q EXCEPT !.pc = to, !.answer = a]
           IN ReaderForm(p) /\ p.pc = to /\ p.answer = a /\ Same(p, q)
<1>1. PICK pc, snap, id, rec, dep, answer :
          q = [pc |-> pc, snap |-> snap, id |-> id, rec |-> rec, dep |-> dep, answer |-> answer]
  BY DEF ReaderForm
<1> DEFINE p == [q EXCEPT !.pc = to, !.answer = a]
           h == [q EXCEPT !.pc = to]
<1>2. h = [pc |-> to, snap |-> snap, id |-> id, rec |-> rec, dep |-> dep, answer |-> answer]
  BY <1>1, SMT
<1>3. p = [h EXCEPT !.answer = a]
  OBVIOUS
<1> HIDE DEF h, p
<1>4. p = [pc |-> to, snap |-> snap, id |-> id, rec |-> rec, dep |-> dep, answer |-> a]
  BY <1>2, <1>3
<1>5. ReaderForm(p) /\ p.pc = to /\ p.answer = a /\ Same(p, q)
  BY <1>1, <1>4 DEF ReaderForm, Same
<1> QED  BY <1>5 DEF p

LEMMA Cleared ==
    ASSUME NEW q, ReaderForm(q)
    PROVE  LET p == [q EXCEPT !.answer = Nobody] IN ReaderForm(p) /\ Same(p, q)
<1>1. PICK pc, snap, id, rec, dep, answer :
          q = [pc |-> pc, snap |-> snap, id |-> id, rec |-> rec, dep |-> dep, answer |-> answer]
  BY DEF ReaderForm
<1> DEFINE p == [q EXCEPT !.answer = Nobody]
<1>2. p = [pc |-> pc, snap |-> snap, id |-> id, rec |-> rec, dep |-> dep, answer |-> Nobody]
  BY <1>1, SMT
<1> HIDE DEF p
<1>3. ReaderForm(p) /\ Same(p, q)
  BY <1>1, <1>2 DEF ReaderForm, Same
<1> QED  BY <1>3 DEF p

LEMMA AskHolds ==
    ASSUME NEW S, NEW i
    PROVE  ReaderHolds([Idle EXCEPT !.pc = "get", !.snap = S, !.id = i])
<1> DEFINE h == [Idle EXCEPT !.pc = "get"]
           j == [h EXCEPT !.snap = S]
           p == [Idle EXCEPT !.pc = "get", !.snap = S, !.id = i]
<1>1. h = [pc |-> "get", snap |-> {}, id |-> 0, rec |-> Nobody, dep |-> Nobody, answer |-> Nobody]
  BY SMT DEF Idle
<1>2. p = [j EXCEPT !.id = i]
  OBVIOUS
<1> HIDE DEF h, p
<1>3. j = [pc |-> "get", snap |-> S, id |-> 0, rec |-> Nobody, dep |-> Nobody, answer |-> Nobody]
  BY <1>1, SMT
<1> HIDE DEF j
<1>4. p = [pc |-> "get", snap |-> S, id |-> i, rec |-> Nobody, dep |-> Nobody, answer |-> Nobody]
  BY <1>2, <1>3
<1>5. ReaderHolds(p)
  BY <1>4 DEF ReaderHolds, ReaderForm
<1> QED  BY <1>5 DEF p

LEMMA SameSeeks ==
    ASSUME NEW p, NEW q, Same(p, q)
    PROVE  Sought(p) = Sought(q) /\ ParseOf(p) = ParseOf(q) /\ ParseKey(p) = ParseKey(q)
<1>1. p.snap = q.snap /\ p.id = q.id /\ p.rec = q.rec /\ p.dep = q.dep
  BY DEF Same
<1>2. Sought(p) = Sought(q)
  BY <1>1, SMT DEF Sought
<1>3. Deps(p) = Deps(q)
  BY <1>1 DEF Deps
<1>4. ParseOf(p) = ParseOf(q)
  BY <1>1, <1>3 DEF ParseOf
<1>5. ParseKey(p) = ParseKey(q)
  BY <1>1, <1>3 DEF ParseKey
<1> QED  BY <1>2, <1>4, <1>5

CacheInv == DirectoriesHold /\ BodiesHold /\ ParsesHold /\ ReadersHold

LEMMA ReadingHolds ==
    ASSUME OneContent, CacheInv, NEW r \in Readers, Reading(r)
    PROVE  BodiesHold' /\ ParsesHold' /\ ReadersHold'
<1> DEFINE q == readers[r]
<1>1. ReaderHolds(q) /\ ReaderForm(q)
  BY DEF CacheInv, ReadersHold, ReaderHolds
<1>2. ASSUME UNCHANGED <<bodies, parsed, tx>> PROVE BodiesHold' /\ ParsesHold'
  BY <1>2 DEF CacheInv, BodiesHold, ParsesHold
<1> HIDE DEF q
<1>3. CASE Ask(r)
  <2>1. PICK i : Step(r, [Idle EXCEPT !.pc = "get", !.snap = snapshot, !.id = i])
    BY <1>3 DEF Ask
  <2>2. ReadersHold'
    BY <2>1, AskHolds, StepHolds DEF CacheInv
  <2> QED  BY <1>2, <1>3, <2>2 DEF Ask
<1>4. CASE Hit(r)
  <2>1. PICK b \in Cached(Sought(q)) : Step(r, Got(q, b))
    BY <1>4 DEF Hit, q
  <2>2. MayHold(Sought(q), b)
    BY DEF Cached, CacheInv, BodiesHold
  <2>3. ReaderHolds(Got(q, b))
    BY <1>1, <2>2, GotHolds DEF ReaderHolds
  <2>4. ReadersHold'
    BY <2>1, <2>3, StepHolds DEF CacheInv
  <2> QED  BY <1>2, <1>4, <2>4 DEF Hit
<1>5. CASE Read(r)
  <2>1. ASSUME NEW b \in Stored(Sought(q)), Step(r, [q EXCEPT !.pc = "fill", !.answer = b])
        PROVE  ReadersHold'
    <3> DEFINE p == [q EXCEPT !.pc = "fill", !.answer = b]
    <3>1. ReaderForm(p) /\ p.pc = "fill" /\ p.answer = b /\ Same(p, q)
      BY <1>1, Answers
    <3> HIDE DEF p
    <3>2. MayHold(Sought(p), b) /\ (p.rec # Nobody => MayHold(p.id, p.rec))
      BY <1>1, <3>1, SameSeeks, StoredHolds DEF CacheInv, ReaderHolds, Same
    <3>3. ReaderHolds(p)
      BY <3>1, <3>2 DEF ReaderHolds
    <3> QED  BY <2>1, <3>3, StepHolds DEF CacheInv, p
  <2>2. ASSUME Step(r, Idle) PROVE ReadersHold'
    BY <2>2, IdleHolds, StepHolds DEF CacheInv
  <2>3. ReadersHold'
    BY <1>5, <2>1, <2>2 DEF Read, q
  <2> QED  BY <1>2, <1>5, <2>3 DEF Read
<1>6. CASE Fill(r)
  <2> DEFINE p == [q EXCEPT !.answer = Nobody]
  <2>1. /\ q.pc = "fill" /\ Insert(Sought(q), q.answer) /\ Step(r, Got(p, q.answer))
        /\ UNCHANGED <<parsed, tx>>
    BY <1>6 DEF Fill, q
  <2>2. MayHold(Sought(q), q.answer)
    BY <1>1, <2>1 DEF ReaderHolds
  <2>3. ReaderForm(p) /\ Same(p, q)
    BY <1>1, Cleared
  <2> HIDE DEF p
  <2>4. ReaderHolds(Got(p, q.answer))
    BY <1>1, <2>2, <2>3, SameSeeks, GotHolds DEF ReaderHolds, Same
  <2>5. ReadersHold'
    BY <2>1, <2>4, StepHolds DEF CacheInv
  <2>6. BodiesHold'
    BY <2>1, <2>2, InsertHolds DEF CacheInv
  <2> QED  BY <2>1, <2>5, <2>6 DEF CacheInv, ParsesHold
<1>7. ASSUME NEW a, a = ParseOf(q), q.pc = "parse", Step(r, [q EXCEPT !.pc = "done", !.answer = a])
      PROVE  ReadersHold'
  <2> DEFINE p == [q EXCEPT !.pc = "done", !.answer = a]
  <2>1. ReaderForm(p) /\ p.pc = "done" /\ p.answer = a /\ Same(p, q)
    BY <1>1, Answers
  <2> HIDE DEF p
  <2>2. ParseOf(p) = a /\ MayHold(p.id, p.rec)
    BY <1>1, <1>7, <2>1, SameSeeks DEF ReaderHolds, Same
  <2>3. ReaderHolds(p)
    BY <2>1, <2>2 DEF ReaderHolds
  <2> QED  BY <1>7, <2>3, StepHolds DEF CacheInv, p
<1>8. CASE ParseHit(r)
  <2>1. PICK p \in parsed : /\ <<p[1], p[2]>> = ParseKey(q) /\ q.pc = "parse"
                            /\ Step(r, [q EXCEPT !.pc = "done", !.answer = p[3]])
    BY <1>8 DEF ParseHit, q
  <2>2. p[1] = q.id /\ p[2] = Deps(q)
    BY <2>1 DEF ParseKey
  <2>3. PICK b : MayHold(p[1], b) /\ p[3] = <<b.text, p[2]>>
    BY DEF CacheInv, ParsesHold
  <2>4. MayHold(q.id, q.rec)
    BY <1>1, <2>1 DEF ReaderHolds
  <2>5. b = q.rec
    BY <2>2, <2>3, <2>4 DEF OneContent
  <2>6. p[3] = ParseOf(q)
    BY <2>2, <2>3, <2>5 DEF ParseOf
  <2> QED  BY <1>2, <1>7, <1>8, <2>1, <2>6 DEF ParseHit
<1>9. CASE ParseMiss(r)
  <2> DEFINE e == <<ParseKey(q)[1], ParseKey(q)[2], ParseOf(q)>>
  <2>1. /\ q.pc = "parse" /\ Step(r, [q EXCEPT !.pc = "done", !.answer = ParseOf(q)])
        /\ UNCHANGED <<bodies, tx>>
    BY <1>9 DEF ParseMiss, q
  <2>2. PICK C \in SUBSET parsed : parsed' = C \cup {e}
    BY <1>9 DEF ParseMiss, Room, q
  <2>3. MayHold(q.id, q.rec)
    BY <1>1, <2>1 DEF ReaderHolds
  <2>4. e[1] = q.id /\ e[3] = <<q.rec.text, e[2]>>
    BY DEF ParseKey, ParseOf
  <2> HIDE DEF e
  <2>5. ParsesHold'
    BY <2>2, <2>3, <2>4 DEF CacheInv, ParsesHold
  <2>6. BodiesHold'
    BY <2>1 DEF CacheInv, BodiesHold
  <2> QED  BY <1>7, <2>1, <2>5, <2>6
<1>10. CASE Leave(r)
  <2>1. ReadersHold'
    BY <1>10, IdleHolds, StepHolds DEF CacheInv, Leave
  <2> QED  BY <1>2, <1>10, <2>1 DEF Leave
<1> QED  BY <1>3, <1>4, <1>5, <1>6, <1>8, <1>9, <1>10 DEF Reading

LEMMA CacheStep ==
    ASSUME OneContent, Base, CacheInv, [Next]_vars
    PROVE  CacheInv'
<1>1. DirectoriesHold'
  BY DirectoriesStep DEF CacheInv
<1>2. ASSUME UNCHANGED readers PROVE ReadersHold'
  BY <1>2 DEF CacheInv, ReadersHold, ReaderHolds, ReaderForm, Sought, ParseOf, Deps
<1>3. ASSUME UNCHANGED parsed PROVE ParsesHold'
  BY <1>3 DEF CacheInv, ParsesHold
<1>4. ASSUME UNCHANGED bodies, tx' = tx \/ tx'.kind # "put" PROVE BodiesHold'
  BY <1>4 DEF CacheInv, BodiesHold
<1>5. CASE UNCHANGED servingVars
  BY <1>1, <1>2, <1>3, <1>4, <1>5 DEF servingVars, CacheInv
<1>6. ASSUME NEW s \in Slots, NEW c \in Contents, Register(s, c[1], c[2]) PROVE CacheInv'
  <2>1. /\ UNCHANGED <<bodies, parsed, readers>>
        /\ tx' = [step |-> "durable", kind |-> "put", slot |-> s, id |-> c[1], body |-> c[2]]
    BY <1>6 DEF Register, Commit
  <2>2. MayHold(tx'.id, tx'.body)
    BY <2>1, ContentsAssumption DEF MayHold
  <2>3. BodiesHold'
    BY <2>1, <2>2 DEF CacheInv, BodiesHold
  <2> QED  BY <1>1, <1>2, <1>3, <2>1, <2>3 DEF CacheInv
<1>7. ASSUME NEW s \in Slots, NEW id \in Ids, Delete(s, id) PROVE CacheInv'
  <2>1. UNCHANGED <<bodies, parsed, readers>> /\ tx'.kind # "put"
    BY <1>7 DEF Delete, Commit
  <2> QED  BY <1>1, <1>2, <1>3, <1>4, <2>1 DEF CacheInv
<1>8. CASE Follow
  <2>1. /\ UNCHANGED <<parsed, readers>> /\ TxForm
        /\ tx' = [tx EXCEPT !.step = "cached"]
        /\ \/ tx.kind = "put" /\ Insert(tx.id, tx.body)
           \/ tx.kind # "put" /\ bodies' \subseteq bodies
    BY <1>8 DEF Follow, Others, Base
  <2>2. tx'.kind = tx.kind /\ tx'.id = tx.id /\ tx'.body = tx.body
    BY <2>1 DEF TxForm
  <2>3. CASE tx.kind = "put" /\ Insert(tx.id, tx.body)
    <3>1. MayHold(tx.id, tx.body) /\ \A x \in bodies : MayHold(x[1], x[2])
      BY <2>3 DEF CacheInv, BodiesHold
    <3>2. PICK C \in SUBSET bodies : bodies' = C \cup {<<tx.id, tx.body>>}
      BY <2>3, InsertRoom
    <3>3. BodiesHold'
      BY <2>2, <3>1, <3>2, SMT DEF BodiesHold
    <3> QED  BY <1>1, <1>2, <1>3, <2>1, <3>3 DEF CacheInv
  <2>4. CASE tx.kind # "put" /\ bodies' \subseteq bodies
    <3>1. BodiesHold'
      BY <2>2, <2>4 DEF CacheInv, BodiesHold
    <3> QED  BY <1>1, <1>2, <1>3, <2>1, <3>1 DEF CacheInv
  <2> QED  BY <2>1, <2>3, <2>4
<1>9. CASE Publish
  <2>1. UNCHANGED <<bodies, parsed, readers>> /\ tx'.kind # "put"
    BY <1>9 DEF Publish, NoTx
  <2> QED  BY <1>1, <1>2, <1>3, <1>4, <2>1 DEF CacheInv
<1>10. CASE Load
  BY <1>1, <1>2, <1>3, <1>4, <1>10 DEF Load, CacheInv
<1>11. ASSUME NEW r \in Readers, Reading(r) PROVE CacheInv'
  BY <1>1, <1>11, ReadingHolds DEF CacheInv
<1>12. CASE Forget
  <2>1. bodies' = {} /\ parsed' = {} /\ tx'.kind # "put" /\ readers' = [r \in Readers |-> Idle]
    BY <1>12 DEF Forget, NoTx
  <2>2. \A r \in Readers : ReaderHolds(readers'[r])
    BY <2>1, IdleHolds
  <2>3. ReadersHold'
    BY <2>1, <2>2 DEF ReadersHold, ReaderHolds, ReaderForm, Sought, ParseOf, Deps
  <2> QED  BY <1>1, <2>1, <2>3 DEF CacheInv, BodiesHold, ParsesHold
<1> QED  BY <1>5, <1>6, <1>7, <1>8, <1>9, <1>10, <1>11, <1>12 DEF Next, Reading, vars

\* A parse, fresh or cached, is of the body its reader holds and of what that
\* references, when an id never comes back with other content: the key of the
\* parse cache, an id and the texts its references resolved to, then says what
\* was parsed, although entries outlive the deletion of their schema
\* (parse_record).
THEOREM ParsesAreOfRecord ==
    ASSUME OneContent
    PROVE  Spec => []ParseIsOfRecord
<1>1. Init => CacheInv
  <2> SUFFICES ASSUME Init PROVE CacheInv
    OBVIOUS
  <2>1. rows = {At(None, t) : t \in old} /\ survivors = {rows}
    BY DEF Init, StorageInit
  <2>2. \A r \in rows : r[1] = None
    BY <2>1, SMT DEF At
  <2>3. DirectoriesHold
    BY <2>1, <2>2 DEF DirectoriesHold, Held, None, Default
  <2>4. BodiesHold /\ ParsesHold
    BY DEF Init, BodiesHold, ParsesHold, NoTx
  <2>5. ReadersHold
    BY IdleHolds DEF Init, ReadersHold
  <2> QED  BY <2>3, <2>4, <2>5 DEF CacheInv
<1>2. ASSUME Base, CacheInv, [Next]_vars PROVE CacheInv'
  BY <1>2, CacheStep
<1>3. CacheInv => ParseIsOfRecord
  BY DEF CacheInv, ReadersHold, ReaderHolds, ParseIsOfRecord
<1> QED  BY <1>1, <1>2, <1>3, BaseInvariance, PTL DEF Spec
=============================================================================
