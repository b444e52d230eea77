# A formal model of the schema registry

This directory holds TLA+ modules that model the registry, TLC configurations
that model-check them, and TLAPS proofs of the properties that matter most.
Paths below are relative to the crate (`src/src/`).

## The system and its parts

A request is routed to a container by its host, its path is rewritten for
contexts and aliases, its credentials are verified and its principal asked for a
role. One that changes something is a *mutation* (`mutations/*.rs`). The engine
(`engine.rs`) asks its lock-free fast path first, then takes the locks its
target needs (`registry/locks.rs`), pins one snapshot, asks the mode gate
(`modegate.rs`) and the mutation's plan, turns the plan into one RocksDB batch
(`store.rs`), commits it, and publishes the next in-memory snapshot
(`snapshot.rs`, `registry/mod.rs`). Readers load the published snapshot once and
answer from it; schema bodies and parses come through caches. Whether one schema
can read another's data is decided by the checker of its format (`schema/`).
Exporters tail the change log that every batch extends and replay it at another
registry; backup, restore and migration copy a whole registry by calls.

| Part | Code | Module |
|---|---|---|
| write engine, locks, publication, restart | `engine.rs`, `registry/locks.rs`, `registry/mod.rs` (`commit`), `store.rs` (`tx`, `Tx::commit`) | `Engine`, its promise in `Ledger` |
| registration, lookup, compatibility levels, deletes, modes, settings, snapshot indexes | `mutations/*.rs`, `registry/{schemas,lookup,listings,resolution,mod}.rs`, `modegate.rs`, `snapshot.rs` | `Registry` |
| data directory: opening, format migration, what a crash leaves | `store.rs` (`PhysicalStore`) | `Storage` |
| serving: snapshot, body cache, parse cache, readers | `registry/mod.rs`, `registry/schemas.rs`, `store.rs` (`load_snapshot`) | `Serving`, on `Storage` |
| exporters and the trimming of the log | `exporter.rs`, `mutations/exporters.rs`, `registry/mod.rs` (`exporter_state`), `store.rs` (`prune_log`) | `Exporter` |
| backup, restore, migration | `backup.rs`, `migrate.rs` | `Transfer`, on `Registry` |
| Avro: reader/writer check, names, defaults | `schema/avro.rs`, `schema/avro_java.rs` | `AvroCheck`, `AvroNames`, `AvroDefaults` |
| JSON Schema: loader and diff | `schema/json.rs` | `JsonDiff` |
| Protobuf: diff | `schema/protobuf.rs` | `ProtoDiff` |
| containers, rewriting, credentials, roles | `containers.rs`, `context.rs`, `api/rewrite.rs`, `auth.rs`, `authz.rs` | `Access` |

`PROJECT.json` lists every part, the ones not modelled included, with the
reason, and the hazards the code is exposed to.

## Modules

### Engine and Ledger

One process per writer thread. `pc[w]` is the place in `run_inner`: `Begin`
is the fast path and the choice of a target; `AcquireContainer`,
`AcquireExporters`, `AcquireShared` and `AcquireStripe` are the lock steps of
`Locks::acquire`; `Pin` loads the snapshot; `Refuse` is every early return (gate,
plan error, empty plan); `OpenTx` takes the counters lock and reads the log
sequence; `CommitTx` is the batch; `FailTx` a failed one; `LoadSnapshot` and
`StoreSnapshot` are the two halves of the publication, which holds a lock of its
own; `Return` drops the guards. `PutCursor` is the exporter worker's write, which
takes none of the context locks. `Crash` at any point loses everything in memory;
the restart rebuilds the snapshot from the rows.

What a mutation writes is abstracted to a count per *part* (a context, the global
settings, the exporter records). A stale plan, a lost publication and a log
number handed out twice all show in those counts.

`Ledger` is what a client may rely on, without locks: `Mutate` is decided on the
durable state and takes effect as a whole, `Publish` shows it as a whole,
`Restart` shows whatever is durable. `Engine` implements it; the refinement
mapping is the identity on `rows` and `snap`, and `pending` is the set of targets
of the writers between commit and publication.

### Registry

The tables and indexes as they are between two mutations, and one action per
verb. That a verb is atomic is what `Engine` shows. A verb makes a *plan* (a
record of rows to drop, free, put and index) and `Apply` is the batch and
`Snapshot::apply` in one. `RegisterSchema` is the whole of
`RegisterSchema::{fast_path, plan}`: lookup, population from the latest version,
canonical references, the content hash, compatibility against live versions,
the choice of id and version, the overwrite of an occupied number and the removal
of stale soft-deleted versions. A schema is its text, its references and the
`confluent:version` its metadata carries; a request may carry one of its own
(`cv`), which an import stores as it comes and a registration replaces. The format's reader/writer check is the
constant relation `CanRead`. A request that is refused, or answered without a
write, changes nothing and is not an action.

### Storage and Serving

A row is `<<container, column family, key, value>>`. `Open` finds a directory
current or begins to move it; `MoveBatch` moves at most `BatchRows` rows of one
column family in a batch, `Finish` writes the format and the container's record.
Without `sync_writes` a batch is durable at some later time, never before an
earlier one: `survivors` is the set of directories a crash may leave.

`Serving` extends it with one context of a server. A mutation is its batch
(`Register`, `Delete`), then `Follow` (the body cache is filled or invalidated),
then `Publish`. A reader pins the snapshot (`Ask`) and gets a body from the cache
(`Hit`) or from the store (`Read`), filling the cache a step later (`Fill`); it
does the same for the body that is referenced, and then looks up the parse
(`ParseHit`, `ParseMiss`). A full cache loses an entry at an insert, any one.
A slot is a version of a subject.

### Exporter

One context of the source, its log, the exporter records, the one worker task and
the destination registries. A version is `absent`, `live` or `deleted` in `rows`
(durable), in `snap` (published) and in `dst`. A client's verb (`Register`,
`SoftDelete`, `HardDelete`) writes rows and log at once; `Publish` comes later,
and the worker may read in between. Operators create, delete, pause, resume and
reset (`Transition`), and change a destination's mode.

The worker's place is `pc`: `List` the exporters, `Take` one, then follow a batch
(`StartEvent`, `DeleteEvent`, `Progress`) or, when its next event is trimmed, copy
the current state (`Snapshot`, `CopyVersion`, `Reconcile`, `CopyDone`); `Rest` and
`PruneLog` end the round. `stack` is the recursion of `export_version`, which
exports references first. Each call to the destination has a fate: answered, never
arrived, or arrived with the answer lost. `ExporterState` is the compare-and-set
by which the worker stores what an attempt came to, so that a late answer cannot
overrule an operator. `Crash` at any point loses the worker's state. What
the destination answers is taken from the registry's own verbs: a soft delete of a
referenced version, or a permanent delete of a live one, is refused.

`early` and `copies` are history variables: versions the worker read before
their publication, and whether a copy of the current state was ever started.

`Followed` names the versions whose copy the code gets right: not read early,
registered once, not purged if an exporter ever had to copy what there is, and
`Repeatable`. The last is about a replay that posts a deleted reference live, to
export what references it, and mirrors its delete afterwards. When it is cut off
in between, only a replay that meets the reference again deletes it, and none
does once what references it is purged.

### Transfer

The tables of `Registry` are first the source's, which clients fill
(`ClientStep`). `Backup` reads the dump and the tables become those of an empty
destination. A tool then makes its calls one at a time, each a verb of `Registry`
with the verb's own guards: `local` is the restore behind `/admin/api/restore`,
`remote` the replay through the public API, `migrate` the direct copy. The calls of
a part of the work (the wide settings, one subject, the settings that end a
restore) are computed as the code makes them: references before the version,
every version before any soft delete, modes last. `LoseCall` breaks the
connection before or after the effect, `Kill` stops the tool between two calls,
`Start` starts it, also a second time. The destination normalises texts unless
the subject's config says otherwise, which is what `raw` records. The tools write
`normalize: false` for a subject while they write its versions. `remote` and
`migrate` then put the whole config; `local` merges the dumped one into it
(`Merged`), so that the `false` stays where the dump says nothing of `normalize`.
Whether it does is drawn with the dump (`filled`), and `KeptRaw` names what stays.

### The formats

`SchemaChange` draws a schema, and for the formats that are compared in pairs a
second one that is to read what the first writes. The checkers are operators,
and the properties compare them with reference definitions.

`AvroCheck` is `calc` with its memo as it is threaded through the recursion,
against the resolution of values of a bounded depth (`Resolves`) and the greatest
fixed point of the compatibility rules (`Exact`). `AvroNames` is the parser's
treatment of names and namespaces, the check for redefinitions and the rendering.
`AvroDefaults` is the validation of a default, the stand-in given to the
library's model, and normalisation; a number is one of the ranges int, long,
past 64 bits and decimal. `JsonDiff` is the loader (keywords to the kinds of
schema the diff knows, of draft-04 and of the later drafts) and the diff with its
stack, against validity of a set of documents; `MaxMatching` is compared with all
matchings. A number counts halves, so that there are fractions to cut off; a format
or a pattern of strings is the set of the lengths it allows. A property called
`$id`, which the loader skips, and keywords the loader does not know are left out. `ProtoDiff` is the
comparison of messages, fields, oneofs, maps and referenced files, against the
pairs of messages that meet when the reader decodes what was written. `Formats`
puts them together behind `can_read`.

### Access

The operators are the functions of `context.rs`, `rewrite.rs` and `authz.rs` on
names that are sequences of words and marks. The processes are requests:
`Arrive` routes, rewrites and looks into the cache of verified credentials,
`Acquire` takes a slot of the password check in the order of the queue,
`LookAgain` looks into the cache once more, `Verify` checks, fills the cache and
answers, `Leave` ends. A route's pattern is one host or `*`: globs within a host
name, and ports, are not modelled.

### MC modules

`MCEngine` gives the hash of contexts to lock stripes (two contexts share one).
`MCRegistry` and `MCTransfer` define the requests each run sends. In `MCExporter`
a version of one subject references a version of another. `MCFormats` defines the
families of schemas, `MCAccess` users, routes, aliases and requests, `MCServing`
directories and what may be stored under an id.

## Runs

| Run | What it shows |
|---|---|
| `engine` | Two writers, three contexts on two stripes, global and exporter mutations, one crash. `FreshPlans`: from its pinned view to its commit nothing a plan has read changes. `LogDense`: no gap or duplicate in the log. `ImplementsLedger`: the refinement. `EveryMutationEnds`: no writer waits for ever, whatever was refused, failed or lost. |
| `references` | References to the newest version, deletes and registrations again, in one context. `RefbyExact`: the reverse index is exact. `HashSound`: the hash index leads to the content it is asked for. `NoDangling`: no live schema loses what it references. `PlanAgrees`: plan and fast path give one answer. |
| `numbering` | Requests with version 0, -1 and 2, with and without a schema or a number in their metadata. `Idempotent`: a registration can be repeated without a write, unless it is no import and brings its own number, which the plan replaces. `TransitivelyCompatible`: under a transitive level and a reader/writer relation that is not transitive, all live versions are compatible. |
| `import` | Imports under given ids and versions on two subjects, with mode changes and deletes. `ContentFixed`: content in use never changes. `NoGarbage`: a body goes with the last version that holds it. `NumberTracksVersion`: the number in the metadata is the version's own, when an import that brings one names that version. |
| `modes` | Modes on three scopes and the deletion of contexts. `ReadonlyFreezes`: a read-only scope keeps its live versions. |
| `exporter` | One exporter, two subjects, all operations. `CaughtUp`: an exporter at the end of the log has made a copy of the versions `Followed` names. `TrimmedOnlyAtZero`: no event is trimmed from an exporter under way. `WaitsForOperator`: a paused or failed exporter changes only when an operator acts. `Converges`: once clients and failures stop, every exporter that nobody stopped is at the end of the log, or one of three obstacles (`Blocked`) is in its way. |
| `transfer` | The three tools on every source that four requests make, with a lost call or a kill and a second attempt. `CopyIsComplete`: what reports success is a complete copy, with nothing left of the tool's own settings but what `KeptRaw` names. `TextKept`: texts arrive as they were stored, but for one case of `migrate`. `RefusedOnlyForCause`: the destination refuses a call for the named causes only; in particular an interrupted migration can be repeated. |
| `formats` | `AvroSound`, `JsonSound`, `ProtoSound`: what a checker accepts can be read, but for the cases `Choosing`, `Blind` and `Overlooked` name. `AvroComplete`: the memo refuses nothing the rules allow. `ReadsItself`: every schema can read its own data. `MatchingIsMaximum`: the pairing of alternatives is a maximum one. `CanonicalText`: parser, redefinition check and renderer agree on names, and the stored text means what was sent. `DefaultsSurvive`: a default reaches the model and the stored text as a value of its type. |
| `access` | `ChallengedRightly`: a caller is challenged exactly when their credentials are wrong. `ListingsAgree`: listings show what paths allow. `PatternsMean`: wildcards match what they mean, but for a last part that repeats. `ContextKept`: a request under `/contexts/{context}` stays in it. `EveryLoginEnds`: no login is shut out. |
| `serving` | A directory of format 1, empty or filled, migrated row by row with a crash anywhere, then served. `NothingLost`, `OpensWhole`: no row is lost or doubled. `PublishedIsStored`: what the snapshot names can be read. `FreedIsForgotten`: freed bodies leave the cache, but for a late reader's. `ParseIsOfRecord`: a cached parse is of the body and the references it is used for. `ServesInTheEnd`: after the last crash the server serves, and what is durable is published. |

Two more runs each check one statement of the code's own documentation that
the code does not keep; `findings` in `PROJECT.json` quotes them.

| Run | Statement | What happens |
|---|---|---|
| `exporter_window` | a version missing when the worker reads was hard-deleted | it was logged but not yet published; the worker skips it for good |
| `stale_parse` | content under an id never changes, so a stale parse cannot be looked up | a permanent delete frees the body, an import stores another under the id, and the parse of the former is used |

### Disagreements without a run of their own

The modules state more of what comments and documents say and the code does not
keep. Each line names the property and the change to a configuration under which
TLC finds it violated.

| Property | Configuration | Statement | What happens |
|---|---|---|---|
| `NoDangling` | `RegistryReferences.cfg` with `Drafts <- ExactRefs` | `mutations/delete_subject.rs:5`: deleting a version something still references is refused | registering again hard-deletes stale soft-deleted versions unasked (`register_schema.rs:159`) |
| `DeletesRespectReferences` | `RegistryReferences.cfg` with `Drafts <- CrossRefs`, `Contexts = {c1, c2}` | the same | referrers in other contexts are not seen (`registry/listings.rs:242`) |
| `HashSound` | `RegistryImport.cfg` | `registry/schemas.rs:55`: "the id holding this exact content" | the index entry of a freed body stays and leads to what is imported under the id |
| `RetriesSucceed` | `Exporter.cfg` | `exporter.rs:23`: "Replays are idempotent"; the README: "it is retried automatically" | the retry mirrors a soft delete that the destination refuses, since the lost call had put a live referrer there (`exporter.rs:555`) |
| `ByteForByte` | `Transfer.cfg` | `migrate.rs:198`: "Schemas must land byte for byte as the source stored them" | a version copied as the reference of another subject's is written while normalization is still on for its subject (`migrate.rs:256`) |
| `NothingRaw` | `Transfer.cfg` | `backup.rs:645`: the tool's `normalize` is "Ours, not the dump's", "so it is cleared once everything is in" | `restore_local` merges the dumped config (`backup.rs:608`, `model.rs:352`), which clears nothing where the dump has no `normalize` |
| `EveryDocument` | `Formats.cfg` with `Schemas <- MCMultiples` | `schema/json.rs:4`, as below | `multipleOf` is cut to an integer: from 0.5 to 1, or from 2.5 to 1.5, is called a reduction (`schema/json.rs:990`) |
| `EveryDocument` | `Formats.cfg` with `Schemas <- MCReferring` | `schema/json.rs:4`: "every document valid under the writer schema is also valid under the reader schema" | below a schema that is met again nothing is compared (`schema/json.rs:873`) |
| `ByIdReadable` | `Access.cfg` | `authz.rs:20`: any authenticated caller may read a schema by id "as long as they hold a role somewhere" | the path is a global target, which only roles held everywhere open |

The models reach more that no document speaks of.

- Registry: equal ids of two contexts share a row of the reverse index; an id
  shared by two subjects that one change to IMPORT of the whole registry or of
  their context purges keeps its body (`NoGarbage` is checked for IMPORT on a
  subject); a plan that lost a race with an equal registration compares its
  request with the next version's number in it.
- Serving: a reader that read the store before an id was freed may cache the
  body after it; one that is later still puts it back over what was imported
  under the id meanwhile.
- Exporter: a copy of the current state cannot remove a subject that is live at
  the destination and gone at the source; a soft-deleted version whose reference
  was purged cannot be exported (these are disjuncts of `Blocked`); a version
  number used again within one batch is exported once; the compare-and-set does
  not see that an exporter was given another destination.
- Transfer: under a global READONLY_OVERRIDE every scope is dumped with it as its
  own mode; settings of subjects without versions are in a local dump only as
  configs; a live version that references a soft-deleted one makes a restore
  stop; a restore repeated after one that left the registry or a context read-only
  is refused; the destination refuses to replace a referenced version that `migrate`
  wrote in normal form.
- Avro: a default with a key its record lacks, or with an integer past 64 bits,
  is not normalised (`Stray`); a branch of a reader's union that is tried and left
  leaves answers in the memo (`Choosing`).
- JSON Schema: what `Blind` lists. `contains`, `propertyNames`, `format`, two
  conditions and the exclusive limits of draft-04 are loaded and never compared, and
  a fractional `multipleOf` is compared by its integer part (`Uncompared`,
  `Fractional`); keys required and not listed, the alternatives of a `oneOf`,
  patterns of keys, values that no keyword is about and whatever lies below a schema
  met again are compared in part or not at all. `JsonSound` says nothing of
  a pair with one of these. Protobuf: what `Overlooked` lists.
- Access: the last part of a pattern is matched at its first occurrence
  (`Repeats`); a subject of the default context whose name begins with `:.` is
  read as a qualified one.

### Bounds

| Module | Bounds and why they are enough |
|---|---|
| `Engine` | `MaxMutations` = 3 lets two writers overlap in every step and one go on to a second mutation; a violation takes two overlapping writers. One crash (`MaxCrashes`), since a restart forgets all but the rows. `MaxEvents` = 2 tells a batch from an event. |
| `Registry` | `MaxVersion` and `MaxId` bound what the verbs may write; a registration beyond them is disabled. Three of each allow: register, soft delete, register again under the same id, and one more in between; two suffice where imports name ids and versions. Two texts tell equal content from different content; each run sends one shape of request. |
| `Exporter` | `MaxLog` = 4 events: a version and what it references, registered and deleted. `Batch` = 2 makes that two batches. `MaxOps` = 3: create, pause and resume or reset. `MaxFaults` = 1 lost call or crash. `MaxWork` = 5 bounds events and operations together, so that liveness can be checked with the faults. The case `Repeatable` excludes takes more events than that; it was met in the proof of `CopiesAreComplete`, which needs no bounds. |
| `Transfer` | `Requests` = 4 fill the source: two versions, a reference, a soft delete or a setting. `Attempts` = 2, `Losses` = 1: one interruption and the attempt after it. |
| Formats | Families of schemas rather than all: recursion through two types, a union, an alias and a reference; for JSON Schema each keyword the loader reads, in small pairs, and four schemas of draft-04. `Depth` = 3 is the depth of Avro values; JSON documents nest up to six objects. |
| `Access` | Two requests, `Slots` = 1 and `CacheLimit` = 1: both wait, one is overtaken, the cache is emptied. Two password checks at a time need more slots; the proofs are for any number. Names of at most three words with two that repeat. |
| `Storage`, `Serving` | `BatchRows` = 1 gives every point a migration can be cut at; `MaxUnsynced` = 1 batch not yet durable; one crash; two versions, three ids, one reader beside the mutations; `MaxEntries` = 2 makes both caches overflow. |

Deadlock checking is off in `Engine`, `Registry`, `Transfer` and `Formats`, whose
bounded systems stop when the bounds are used up. The worker of `Exporter`, the
requests of `Access` and the server never stop.

### Fairness

- `Engine`: weak fairness of each writer's own steps, since a thread that can go
  on is scheduled. Nothing is assumed of the locks, so the property is about
  bounded numbers of mutations: with an unbounded stream a thread could starve at
  a lock that is not fair, which the code does not exclude.
- `Exporter`: weak fairness of the worker (a loop that wakes on a timer, with a
  timeout on each call) and of `Publish` (the committing thread goes on to
  publish). Clients, operators, failures and crashes have none.
- `Serving`: weak fairness of opening, loading and publishing, which wait for no
  one. Readers and clients have none.
- `Access`: weak fairness of `Acquire`, `LookAgain` and `Verify`: the semaphore hands its
  permits out in the order they were asked for, and a verification ends.

## Proofs

TLAPS proves the following for every value of the constants. Where a theorem has
hypotheses about the requests, the code does not keep the property without them;
the table at the end names what happens then. A proof module begins with `USE
Zenon`: leaves are proved by Zenon unless they name SMT (arithmetic, sequences,
records) or PTL (temporal steps).

### The engine

`EngineProofs`: `EngineTypes`, `PlansAreFresh`, `SnapshotFollowsStore`,
`LogIsDense`, `SnapshotsGrow`, `EngineImplementsLedger`. The inductive invariant
says which mutexes a writer holds at each `pc`, that no mutex is held by two, that
whoever has pinned a view still sees the durable value of all parts its plan
reads, and that the count of a part in the snapshot is its count in the rows minus
the writers between commit and publication. Freshness alone is not inductive: it
needs the correspondence of locks and `pc`, since the container lock is what keeps
a global mutation apart from all others. The refinement (`L == INSTANCE Ledger
WITH ...` in `Engine`) follows from the same invariant: a commit maps to `Mutate`,
whose guard is that no unpublished writer writes what it reads, the swap of the
snapshot to `Publish`, a crash to `Restart` and every other step to a stutter.

`WaitingIsOrdered` and `NoDeadlock` are the part of `EveryMutationEnds` that needs no
fairness: a writer waits only for one that is farther along `run_inner`, so that no
circle of writers waits for itself, and as long as a mutation is under way, the
guard of the next step of one of them holds (`Ready`). They need the converse of the
correspondence above, `OwnerInv`: a lock is held only by a writer that is where
it holds it, so that no refusal and no failed write leaves one behind.

### The registry

`RegistryProofs`: `RegistryTypes`, `UsagesAreExact`, `BodiesArePresent`,
`NextIsFresh`, `ContextsAreListed`, `ContentIsFixed`. The five invariants are
inductive together (`IInv`): the index of ids is what tells a hard delete which
content it may free, the counter beyond all ids is why an assigned id has no
content to overwrite. The proof defines when a plan is `Good` for a state, shows
that the plan of each verb is good, and that a good plan keeps `IInv` and the
content of every id in use. Assumptions are those of `RegistryAssumption` and
`DraftShape`: requests have the shape the API gives them.

Its second part sorts the steps into four kinds (`Kinds`): a registration,
a removal of soft-deleted versions no live schema refers to, the hiding of live
versions of one subject that may be changed, and steps that leave the tables alone.
From `IInv` and what each kind does to the rows it proves

- `NumbersTrackVersions`: `NumberTracksVersion`, which is inductive beside `IInv`, when
  an import that brings a number names that version (`NumberedImports`);
- `ReadonlyScopesAreFrozen`: `ReadonlyFreezes`, an action property;
- `AlwaysTransitivelyCompatible`: `TransitivelyCompatible`, with one transitive
  level (`OneLevel`) and no imports. It is inductive since a new version is beyond
  every version there is, and is compared with all live ones;
- `RegistrationIsIdempotent`: `Idempotent`, for all requests but imports that ask
  for the latest version (`NoLatestImports`).

`RegistryReferenceProofs` is about what belongs together across rows.

- `HashIndexIsSound`: `HashSound`, without imports. An id is used again for the
  content it had or it is fresh, which is what `NextFresh` gives.
- `GarbageIsFreed`: `NoGarbage`, when modes are set for subjects (`OwnScopes`).
- `RefbyIsExact`: `RefbyExact`, with references within contexts (`LocalRefs`) and
  `OwnScopes`. The two directions are shown apart: that no edge of a stored version
  is missing (`RefbyHas`) needs that an edge leads from one id only, that none is
  left over (`RefbyOnly`) needs `NoGarbage`.
- `DeletesAreRefused`: `DeletesRespectReferences`, with `LocalRefs`.
- `NothingDangles`: `NoDangling`, with `LocalRefs` and references to the newest
  version only (`LatestOnly`). The invariant is stronger: what a live version
  references is live (`LiveTargets`), so whatever is hidden or removed has no live
  referrer.
- `PlanAgreesWithFastPath`: `PlanAgrees`, for requests without a version
  or a number (`Unnumbered`) whose text comes always with or always without references
  (`SettledRefs`): then the hash index alone decides both answers.

### The data directory and the server

`StorageProofs`: `MigrationLosesNothing`, `MigrationIsWhole`, and, for the server
on top, `ServingUsesStorage` and `ServerLosesNothing`. `StorageInv` adds to
`NothingLost` that no survivor is current before the directory itself is, so that
no crash makes it current, and that a directory is served only once its format is
written and moved only before, which is why moving rows meets none of a server's.
Assumptions: rows of format 1 are in the known column families and are not the
store's own (`DirectoriesAssumption`), the bounds are numbers. That the server uses
its directory as `Storage` says rests on `LiveIsOpen`: it writes only once the
directory is open, and only rows of its container.

The same module proves of the snapshot and the caches, for any directories,
contents, readers, sizes and crashes:

- `PublishedCanBeRead`: `PublishedIsStored`, when the versions of the directories
  have their content (`WholeDirectories`). `SnapshotInv` adds that every survivor
  and the directory itself have it too, and that a mutation under way frees only
  what the snapshot it is about to publish no longer names;
- `MemoryIsGivenBack`: `FreedIsForgotten`;
- `ParsesAreOfRecord`: `ParseIsOfRecord`, when an id never comes back with other
  content (`OneContent`, a condition on `Contents` and the directories). `CacheInv`
  says that rows, cached bodies, cached parses and what readers hold are all of the
  content their id may have. `ContentsAssumption` says that contents are pairs.

### The exporters

`ExporterProofs`: `NothingNeededIsTrimmed`, `OnlyOperatorsWake`, `CursorsGoForward`
(a stored offset grows or stays; only an operator's request takes it back, to
zero). `TrimmedOnlyAtZero`
alone is not inductive: the worker stores the offset `until` later than it chose
it, and trims to the floor `keep` later than it computed it. `IInv` adds that the
floor is at most `at` and `at` below `until` while a batch is read, that neither is
above `until` while a copy is under way, that `until` is within the log, and that before trimming every stored offset is zero or at
least `keep`, which holds since offsets go down only to zero (create and reset).

`ExporterVisitProofs` and `ExporterCopyProofs`, on definitions and lemmas at the end
of `ExporterProofs`: `CopiesAreComplete`, that `CaughtUp` holds as long as an
exporter's name keeps a destination of its own (`Homes`, a condition on the
behaviour, with the destination of each name in the constant `home`). It is an
invariant about a destination in every state, of which `CaughtUp` is the case of
the last offset:

- `SourceInv` says how log, rows and snapshot agree: events of a version come in
  order, the row is what the last of them made, and references are logged before
  what references them.
- `GoodKey(k, v, x)` says what a destination has of version `k` for an exporter at
  offset `x`: what is logged before `x` has arrived, but that a version deleted
  before `x` may be live while an event from `x` on (`Redo`) makes the worker meet
  it again. Without `Redo` the statement fails at every replay: offsets go back to
  zero, calls are lost, and an export revives the deleted versions it references.
- `Stored`, `Listed` and `Standing` state it for the stored offset of each exporter,
  for the offset in the list the worker took, and for the event it is at.
- `FrameGood`, `DoneGood`, `EventGood` and `Closed` (with the types in `WorkInv`) say
  what the recursion of `export_version` has already done for the versions on its
  stack, those exported in this batch or copy, and the event itself; `Closed` is
  that what an exported version references was exported or skipped for good.

Each action has its lemma, the steps of the recursion share `TopStep` and
`VisitStep`. The invariants were checked with TLC on small
instances before they were proved.

### Access

`AccessProofs`: `OnlyWrongCredentialsAreChallenged` (`ChallengedRightly`) with the
invariant that only right credentials are remembered, from `AccessAssumption` (no
user is called what stands for no credentials); `ListingsShowWhatPathsAllow`
(`ListingsAgree`), for subjects whose names read back as they are written
(`SubjectsSpelled`). `NoLoginIsForgotten` and `LoginsStayWithinLimits` are what
`EveryLoginEnds` needs besides fairness, from `LimitsAssumption` (finitely many
callers): whoever waits for a slot stands in the queue, once, and nobody else
does; no more verifications run than there are slots, and the cache holds at most
one entry more than `CacheLimit`, since it is emptied before an insertion.

### Why the hypotheses are there

Each excludes a behaviour of the code in which the property fails.

| Theorem | Without | What happens |
|---|---|---|
| `NothingDangles` | `LatestOnly` | a registration hard-deletes a stale version that is referenced by number |
| `RefbyIsExact`, `DeletesAreRefused` | `LocalRefs` | equal ids of two contexts share a row of the index, and referrers in other contexts are not seen |
| `GarbageIsFreed`, `RefbyIsExact` | `OwnScopes` | one purge of two subjects that share an id keeps its body |
| `HashIndexIsSound` | `NoImports` | an import stores other content under a freed id that is still indexed |
| `AlwaysTransitivelyCompatible` | `NoImports` | an import is not compared |
| `NumbersTrackVersions` | `NumberedImports` | an import's metadata is stored as it comes, its number included |
| `RegistrationIsIdempotent` | `NoLatestImports` | an import stores no number, and the lookup for -1, which does not ask the hash index, finds only versions that carry one |
| `PlanAgreesWithFastPath` | `Unnumbered`, `SettledRefs` | the lookup by content also answers with a version that carries a number, or references the request lacks |
| `ParsesAreOfRecord` | `OneContent` | the run `stale_parse` |
| `ListingsShowWhatPathsAllow` | `SubjectsSpelled` | a subject of the default context that begins with `:.` is listed under another name |
| `CopiesAreComplete` | `Homes` | the late answer for an exporter that was deleted moves the offset of the one created under its name with another destination |

### Only model-checked

- Liveness (`EveryMutationEnds`, `Converges`, `EveryLoginEnds`, `ServesInTheEnd`):
  fairness is out of the prover's reach.
- `Transfer` and the formats: a tool's calls, and a checker's answer, are folds and
  recursive functions over data, and the prover has no induction over data.
- `PatternsMean` and `ContextKept` of `Access`, for the same reason: matching and
  rewriting run along the sequence of a name.

Proved and not checked by a run of their own: the type invariants, `PublishLag`,
`SnapshotMonotone` (both follow from the ledger), `UsagesExact`, `BodyPresent`,
`NextFresh`, `ContextsListed`, `DeletesRespectReferences`, `WaitsLeadForward`,
`SomeoneGoesOn`, `OffsetsAdvance`, `Queued`, `WithinLimits`.

## Not modelled

- Work on text and bytes: JSON, IDL and descriptors as text, `proto_wire.rs`,
  `proto_print.rs`, `java_order.rs`, tags, percent-encoding, the PROXY header,
  error wording.
- Of schemas: metadata other than `confluent:version`, rules, compatibility groups;
  Avro's logical types and properties; JSON references to other documents and
  `$id`.
- Of exporters: `UpdateExporter`, the restore of records, renaming and contexts at
  the destination. Together with the faults they take the instance past what TLC
  explores.
- Reads that change nothing (`registry/views.rs`, listings and their paging), HTTP
  handlers that only pass on a call, configuration and startup, more than one
  container at a time in `Storage`, metrics, the benchmark client.
- The plan of a mutation as several steps that read other contexts
  (`registry/schemas.rs:104`): what it reads there is outside its locks.
- RocksDB itself, which is taken to apply a batch atomically and to recover a
  prefix of the batches.
