------------------------------ MODULE Storage ------------------------------
(***************************************************************************)
(* The data directory (store.rs, PhysicalStore): how it is opened, how a   *)
(* directory of format 1 is brought to format 2 in place, and what a crash *)
(* leaves of it.  A row is <<container, column family, key, value>>; rows  *)
(* of format 1 and the store's own rows carry no container.                *)
(***************************************************************************)
EXTENDS Naturals, FiniteSets

CONSTANTS
    Families,       \* ALL_CFS, in order
    Directories,    \* format 1: sets of <<family, key, value>>
    BatchRows,      \* rows moved by one batch (10,000)
    SyncWrites,     \* the configuration's sync_writes
    MaxUnsynced,    \* bound: batches written but not yet synced
    MaxCrashes      \* bound: crashes

VARIABLES
    old,            \* the directory as it was before the first start
    rows,           \* what a read of the database sees
    survivors,      \* what a crash may leave: the write-ahead log is cut somewhere
    phase,          \* "down", "moving" or "up"
    crashes

storageVars == <<old, rows, survivors, phase, crashes>>

None    == ""
Default == "default"
At(c, t)      == <<c, t[1], t[2], t[3]>>
FormatRow     == <<None, "meta", "format_version", 2>>
ContainerRow  == <<None, "meta", "container/default", "">>
Reserved      == {FormatRow, ContainerRow}

ASSUME DirectoriesAssumption ==
    \A D \in Directories : \A t \in D :
        /\ t = <<t[1], t[2], t[3]>>
        /\ \E i \in DOMAIN Families : Families[i] = t[1]
        /\ At(None, t) \notin Reserved
ASSUME BoundsAssumption ==
    /\ BatchRows \in Nat \ {0} /\ MaxCrashes \in Nat /\ MaxUnsynced \in Nat
    /\ SyncWrites \in BOOLEAN

-----------------------------------------------------------------------------
\* One batch, atomic.  Without an fsync it is durable at some later time, but
\* never before an earlier one.
Earlier ==
    CASE SyncWrites                                             -> {}
      [] ~SyncWrites /\ Cardinality(survivors) <= MaxUnsynced  -> survivors
      [] ~SyncWrites /\ ~(Cardinality(survivors) <= MaxUnsynced) -> {rows}

Write(del, put) ==
    /\ rows' = (rows \ del) \cup put
    /\ survivors' = Earlier \cup {rows'}

\* A key of the change log is a big-endian number: it starts with 0x00, as
\* the store's own rows do.
LeadingZero(r) == r[1] = None /\ (r[2] = "log" \/ r \in Reserved)

\* Mutant: rows that look reserved are skipped in every column family.
SkippedAnywhere(r) == LeadingZero(r) \/ r[1] = Default

Skipped(r) == (r[2] = "meta" /\ LeadingZero(r)) \/ r[1] = Default

Unmoved(f) == {r \in rows : r[2] = f /\ ~Skipped(r)}
Moved(r)   == <<Default, r[2], r[3], r[4]>>

\* Mutant: a directory where a migration was interrupted is refused.
OpenFresh ==
    /\ phase = "down"
    /\ phase' = CASE FormatRow \in rows -> "up"
                  [] FormatRow \notin rows /\ (\A r \in rows : r[1] = None) -> "moving"
                  [] FormatRow \notin rows /\ ~(\A r \in rows : r[1] = None) -> "down"
    /\ UNCHANGED <<old, rows, survivors, crashes>>

Open ==
    /\ phase = "down"
    /\ phase' = IF FormatRow \in rows THEN "up" ELSE "moving"
    /\ UNCHANGED <<old, rows, survivors, crashes>>

\* Families in order; within one the batches are full but for the last.  The
\* order of the keys does not matter here.
MoveBatch ==
    /\ phase = "moving"
    /\ \E i \in DOMAIN Families :
        /\ \A j \in DOMAIN Families : j < i => Unmoved(Families[j]) = {}
        /\ \E B \in SUBSET Unmoved(Families[i]) :
            /\ B # {}
            /\ Cardinality(B) = BatchRows \/ (B = Unmoved(Families[i]) /\ Cardinality(B) < BatchRows)
            /\ Write(B, {Moved(r) : r \in B})
    /\ UNCHANGED <<old, phase, crashes>>

\* Mutant: the container is not recorded with the format.
FinishUnlisted ==
    /\ phase = "moving"
    /\ \A i \in DOMAIN Families : Unmoved(Families[i]) = {}
    /\ Write({}, {FormatRow})
    /\ phase' = "up"
    /\ UNCHANGED <<old, crashes>>

Finish ==
    /\ phase = "moving"
    /\ \A i \in DOMAIN Families : Unmoved(Families[i]) = {}
    /\ Write({}, Reserved)
    /\ phase' = "up"
    /\ UNCHANGED <<old, crashes>>

\* Whatever the container's view of the store writes carries its prefix.
ContainerWrite ==
    /\ phase = "up"
    /\ {r \in rows' : r[1] # Default} = {r \in rows : r[1] # Default}
    /\ survivors' = Earlier \cup {rows'}
    /\ UNCHANGED <<old, phase, crashes>>

\* The process or the machine stops.
Crash ==
    /\ phase # "down" /\ crashes < MaxCrashes
    /\ rows' \in survivors
    /\ survivors' = {rows'}
    /\ phase' = "down" /\ crashes' = crashes + 1
    /\ UNCHANGED old

StorageInit ==
    /\ old \in Directories
    /\ rows = {At(None, t) : t \in old}
    /\ survivors = {rows}
    /\ phase = "down" /\ crashes = 0

StorageNext == Open \/ MoveBatch \/ Finish \/ ContainerWrite \/ Crash

StorageSpec == StorageInit /\ [][StorageNext]_storageVars

-----------------------------------------------------------------------------
\* A directory that is not yet current holds every row of the old one exactly
\* once, under its old key or its new one, and nothing else; in a current one
\* every row is a container's or the store's own.
Intact(d) ==
    IF FormatRow \in d
    THEN \A r \in d : r[1] = Default \/ r \in Reserved
    ELSE /\ d \subseteq {At(None, t) : t \in old} \cup {At(Default, t) : t \in old}
         /\ \A t \in old : ~(At(None, t) \in d <=> At(Default, t) \in d)

\* At every moment, and whatever a crash leaves, the directory is intact
\* (migrate_to_current_format: "an interrupted migration can simply be run
\* again").
NothingLost == Intact(rows) /\ \A d \in survivors : Intact(d)

\* The step that makes the directory current leaves all of the old rows, the
\* change log's included, in the default container.
OpensWhole ==
    [][FormatRow \notin rows /\ FormatRow \in rows'
        => rows' = {At(Default, t) : t \in old} \cup Reserved]_storageVars
=============================================================================
