------------------------------ MODULE Registry ------------------------------
(***************************************************************************)
(* The registry as a sequence of mutations: the tables of the store and    *)
(* the indexes of the snapshot (store.rs, snapshot.rs), and the verbs that *)
(* change them (mutations/*.rs) with the lookups they consult              *)
(* (registry/*.rs).  One action is one verb that writes: its gate, its     *)
(* plan and the batch that applies it.  That a verb is atomic is what      *)
(* module Engine shows; a request that is refused, or answered without a   *)
(* write, changes nothing and is not an action.                            *)
(*                                                                         *)
(* A schema is its text (with its type), its references and the            *)
(* confluent:version its metadata carries (0: none).  Other metadata,      *)
(* rules, compatibility groups, normalisation, guids and times are left    *)
(* out, and every text parses.                                             *)
(***************************************************************************)
EXTENDS Integers, FiniteSets, FiniteSetsExt

CONSTANTS
    Default,        \* the default context
    Contexts,       \* all contexts
    Subjects,       \* subject names, the same in every context
    Here,           \* the context of an unqualified reference
    Empty,          \* the text of a request without a schema
    CanRead,        \* pairs <<reader, writer>> of texts, the format's check
    Drafts,         \* the registrations clients send
    Modes,          \* the modes clients set
    Levels,         \* the compatibility levels clients set
    SetScopes,      \* the scopes whose mode and level clients set
    DefaultLevel,   \* the level of the server's configuration
    MaxVersion,     \* bound: version numbers
    MaxId           \* bound: schema ids

AllModes  == {"READWRITE", "READONLY", "READONLY_OVERRIDE", "IMPORT"}
AllLevels == {"NONE", "BACKWARD", "BACKWARD_TRANSITIVE", "FORWARD", "FORWARD_TRANSITIVE",
              "FULL", "FULL_TRANSITIVE"}

Scopes == {<<"global">>} \cup ({"context"} \X Contexts) \cup ({"subject"} \X Contexts \X Subjects)

\* A draft: version 0 is "not given" and -1 the latest, id -1 is "not given".
\* A reference names a context (or Here), a subject and a version (-1: latest).
ASSUME RegistryAssumption ==
    /\ Default \in Contexts /\ Here \notin Contexts
    /\ Modes \subseteq AllModes /\ Levels \subseteq AllLevels /\ DefaultLevel \in AllLevels
    /\ SetScopes \subseteq Scopes
    /\ MaxVersion \in Nat /\ MaxId \in Nat
    /\ \A d \in Drafts :
        /\ d.id \in Nat \cup {-1} /\ d.version \in Nat \cup {-1} /\ d.cv \in Nat
        /\ d.refs \subseteq ((Contexts \cup {Here}) \X Subjects \X (Nat \cup {-1}))

ASSUME DraftShape ==
    \A d \in Drafts :
        d = [text |-> d.text, refs |-> d.refs, id |-> d.id, version |-> d.version, cv |-> d.cv]

VARIABLES
    versions,       \* <<context, subject, version>> -> [id, deleted]
    usages,         \* index: <<context, id, subject, version>> of every version
    bodies,         \* <<context, id>> -> content
    fingerprints,   \* <<context, content>> -> id, never removed
    refby,          \* <<<<context, subject, version>>, id>>: the id references it
    next,           \* context -> the next id to assign
    contexts,       \* contexts that ever held a version and were not deleted
    modes,          \* scope -> mode
    configs         \* scope -> compatibility level

tables   == <<versions, usages, bodies, fingerprints, refby, next>>
settings == <<modes, configs>>
vars     == <<tables, contexts, settings>>

\* Partial functions as maps: g over f, and f without the keys K.
Put(f, g)   == [x \in DOMAIN f \cup DOMAIN g |-> IF x \in DOMAIN g THEN g[x] ELSE f[x]]
Without(f, K) == [x \in DOMAIN f \ K |-> f[x]]
Only(x, y)  == [z \in {x} |-> y]
Nothing     == [z \in {} |-> z]

Init ==
    /\ versions = Nothing
    /\ usages = {}
    /\ bodies = Nothing
    /\ fingerprints = Nothing
    /\ refby = {}
    /\ next = [c \in Contexts |-> 1]
    /\ contexts = {}
    /\ modes = Nothing
    /\ configs = Nothing

-----------------------------------------------------------------------------
(***************************************************************************)
(* Queries on the snapshot.                                                *)
(***************************************************************************)
Rows(c, s) == {v \in 1..MaxVersion : <<c, s, v>> \in DOMAIN versions}
Live(c, s) == {v \in Rows(c, s) : ~versions[<<c, s, v>>].deleted}

SubjectNames(c) == {s \in Subjects : Rows(c, s) # {}}
ListContexts == contexts \cup {Default}

\* The content of a stored version.
Entity(c, s, v) == bodies[<<c, versions[<<c, s, v>>].id>>]

Used(c, i) == \E u \in usages : u[1] = c /\ u[2] = i

\* Which mode and which level apply: first match, never a merge.
Look(f, x, otherwise) == IF x \in DOMAIN f THEN f[x] ELSE otherwise
GlobalMode == Look(modes, <<"global">>, "READWRITE")
ModeInContext(c) ==
    IF GlobalMode = "READONLY_OVERRIDE" THEN GlobalMode
    ELSE Look(modes, <<"context", c>>, IF c = Default THEN GlobalMode ELSE "READWRITE")
ModeInScope(c, s) ==
    IF GlobalMode = "READONLY_OVERRIDE" THEN GlobalMode
    ELSE Look(modes, <<"subject", c, s>>,
              IF c = Default THEN GlobalMode ELSE Look(modes, <<"context", c>>, "READWRITE"))
ConfigInScope(c, s) ==
    Look(configs, <<"subject", c, s>>,
         Look(configs, IF c = Default THEN <<"global">> ELSE <<"context", c>>, DefaultLevel))

\* Mutant: deletes and settings are let through under a global override.
AllowedInOverride(intent, mode) ==
    CASE intent = "write"  -> mode = "READWRITE"
      [] intent = "import" -> mode = "IMPORT"
      [] intent = "modify" -> mode # "READONLY"

\* The mode table of modegate::check.
Allowed(intent, mode) ==
    CASE intent = "write"  -> mode = "READWRITE"
      [] intent = "import" -> mode = "IMPORT"
      [] intent = "modify" -> mode \in {"READWRITE", "IMPORT"}

-----------------------------------------------------------------------------
(***************************************************************************)
(* References.                                                             *)
(***************************************************************************)
RefTarget(c, r) == <<IF r[1] = Here THEN c ELSE r[1], r[2], r[3]>>

\* The edges content x stored under id i of context c has in refby.
Edges(c, i, x) == {<<RefTarget(c, r), i>> : r \in x.refs}

\* Where a reference of a request leads: -1 is the newest live version.
Concrete(c, r) ==
    LET t == RefTarget(c, r)
    IN IF r[3] = -1 /\ Live(t[1], t[2]) # {} THEN <<r[1], r[2], Max(Live(t[1], t[2]))>> ELSE r

\* Everything reachable from the versions K through stored references.  The
\* code visits each version once; the chain limit of 64 is out of reach here.
Closure(K) ==
    LET Targets(k) == IF k \in DOMAIN versions
                      THEN {e[1] : e \in Edges(k[1], 0, Entity(k[1], k[2], k[3]))} ELSE {}
        reach[n \in 0..Cardinality(DOMAIN versions)] ==
            IF n = 0 THEN K ELSE reach[n - 1] \cup UNION {Targets(k) : k \in reach[n - 1]}
    IN reach[Cardinality(DOMAIN versions)]

\* Soft-deleted versions resolve; a missing one anywhere fails the request.
Resolves(c, refs) ==
    LET direct == {RefTarget(c, Concrete(c, r)) : r \in refs}
    IN direct \subseteq DOMAIN versions /\ Closure(direct) \subseteq DOMAIN versions

\* Mutant: an id of the same subject is not a referrer.
LiveReferrersElsewhere(c, s, v) ==
    {e[2] : e \in {f \in refby : /\ f[1] = <<c, s, v>>
                                 /\ \E u \in usages : /\ u[1] = c /\ u[2] = f[2] /\ u[3] # s
                                                      /\ u[4] \in Live(c, u[3])}}

\* Ids of live schemas referencing a version, looked up in its own context.
LiveReferrers(c, s, v) ==
    {e[2] : e \in {f \in refby : /\ f[1] = <<c, s, v>>
                                 /\ \E u \in usages : /\ u[1] = c /\ u[2] = f[2]
                                                      /\ u[4] \in Live(c, u[3])}}

-----------------------------------------------------------------------------
(***************************************************************************)
(* A plan: the rows to write.  Rows go before rows come, as in every plan  *)
(* of the code, so the order within each kind does not matter.             *)
(***************************************************************************)
NoPlan == [drop |-> {}, free |-> {}, unref |-> {},
           put |-> Nothing, body |-> Nothing, index |-> Nothing, ref |-> {}, next |-> Nothing]

\* Mutant: versions that go in the same plan count as users.
StillUsedAlone(k, also) ==
    \E u \in usages : u[1] = k[1] /\ u[2] = versions[k].id /\ <<u[3], u[4]>> # <<k[2], k[3]>>

\* hard_delete_writes: the version goes, and its content and its edges with
\* it unless another version holds the id; "also" names versions of the same
\* subject that go in the same plan.
StillUsed(k, also) ==
    \E u \in usages : /\ u[1] = k[1] /\ u[2] = versions[k].id
                      /\ ~(u[3] = k[2] /\ (u[4] = k[3] \/ <<u[3], u[4]>> \in also))

HardDelete(K, also) ==
    LET freed == {<<k[1], versions[k].id>> : k \in {j \in K : ~StillUsed(j, also)}} \cap DOMAIN bodies
    IN [NoPlan EXCEPT !.drop = K, !.free = freed,
                      !.unref = UNION {Edges(ci[1], ci[2], bodies[ci]) : ci \in freed}]

SoftDelete(K) == [NoPlan EXCEPT !.put = [k \in K |-> [versions[k] EXCEPT !.deleted = TRUE]]]

\* The two indexes the snapshot keeps of the version and schema rows.
UsagesAfter(p) ==
    (usages \ {<<k[1], versions[k].id, k[2], k[3]>> :
                  k \in p.drop \cup (DOMAIN p.put \cap DOMAIN versions)})
        \cup {<<k[1], p.put[k].id, k[2], k[3]>> : k \in DOMAIN p.put}

\* Mutant: rows come before rows go.
RefbySwapped(p) == (refby \cup p.ref) \ p.unref
RefbyAfter(p) == (refby \ p.unref) \cup p.ref

\* engine::apply, Tx and Snapshot::apply.
Apply(p) ==
    /\ versions' = Put(Without(versions, p.drop), p.put)
    /\ usages' = UsagesAfter(p)
    /\ bodies' = Put(Without(bodies, p.free), p.body)
    /\ fingerprints' = Put(fingerprints, p.index)
    /\ refby' = RefbyAfter(p)
    /\ next' = Put(next, p.next)
    /\ contexts' = contexts \cup {k[1] : k \in DOMAIN p.put}

-----------------------------------------------------------------------------
(***************************************************************************)
(* Registration.                                                           *)
(***************************************************************************)
NewVersion(c, s) == IF Rows(c, s) = {} THEN 1 ELSE Max(Rows(c, s)) + 1

\* Mutant: the number of the latest version is carried over.
PopulateCarried(c, s, d, import) ==
    [text |-> d.text, refs |-> d.refs,
     cv |-> IF Live(c, s) # {} THEN Entity(c, s, Max(Live(c, s))).cv ELSE IF d.version # 0 THEN 1 ELSE 0]

\* populate_from_previous: an empty request repeats the latest version; a
\* version in the request, or a number in its metadata or else in the latest
\* version's, puts the number of the new version into the metadata.  Imports
\* are taken as they are, the number they carry included.
Populate(c, s, d, import) ==
    LET old == Entity(c, s, Max(Live(c, s)))
        repeat == d.text = Empty
        numbered == d.version # 0 \/ d.cv # 0 \/ (Live(c, s) # {} /\ old.cv # 0)
    IN IF import THEN [text |-> d.text, refs |-> d.refs, cv |-> d.cv]
       ELSE [text |-> IF repeat THEN old.text ELSE d.text,
             refs |-> IF repeat THEN old.refs ELSE d.refs,
             cv |-> IF numbered THEN NewVersion(c, s) ELSE 0]

Canonicalize(c, x) == [x EXCEPT !.refs = {Concrete(c, r) : r \in x.refs}]

\* hash_lookup: the id indexed for this content, when a version uses it, and
\* the newest version of the subject with that id.
HashLookup(c, x) ==
    {i \in 0..MaxId : <<c, x>> \in DOMAIN fingerprints /\ i = fingerprints[<<c, x>>] /\ Used(c, i)}
VersionsWithId(c, s, i) == {v \in 1..MaxVersion : <<c, i, s, v>> \in usages}
HashLive(c, s, i) == VersionsWithId(c, s, i) # {} /\ Max(VersionsWithId(c, s, i)) \in Live(c, s)

\* Mutant: a request without a number does not find a numbered version.
CanLookupNumbered(x, y, v) ==
    /\ x.text = y.text
    /\ x.cv = y.cv \/ (y.cv = 0 /\ x.cv = v)
    /\ \/ x.refs = {} /\ y.refs # {}
       \/ (x.cv # 0 \/ y.cv # 0) /\ x.refs = y.refs

\* can_lookup: request content x finds stored content y of version v although
\* their hashes differ.
CanLookup(x, y, v) ==
    /\ x.text = y.text
    /\ x.cv = y.cv \/ (x.cv = 0 /\ y.cv # 0) \/ (y.cv = 0 /\ x.cv = v)
    /\ \/ x.refs = {} /\ y.refs # {}
       \/ (x.cv # 0 \/ y.cv # 0) /\ x.refs = y.refs

\* lookup_under_subject among live versions: at most one answer.
LookupUnderSubject(c, s, d) ==
    LET x == Canonicalize(c, [text |-> d.text, refs |-> d.refs, cv |-> d.cv])
        hit == {i \in HashLookup(c, x) : d.version # -1 /\ HashLive(c, s, i)}
        found == {v \in Live(c, s) : /\ d.version = -1 => v = Max(Live(c, s))
                                     /\ CanLookup(x, Entity(c, s, v), v)}
    IN IF d.text = Empty THEN {}
       ELSE IF hit # {}
       THEN {[version |-> Max(VersionsWithId(c, s, i)), id |-> i, content |-> x] : i \in hit}
       ELSE {[version |-> v, id |-> versions[<<c, s, v>>].id, content |-> Entity(c, s, v)] :
                v \in {w \in found : w = Max(found)}}

\* register_fast_path: what is registered already is answered without a lock.
FastPath(c, s, d) ==
    {e \in LookupUnderSubject(c, s, d) :
        IF d.version \in {0, -1} THEN d.id < 0 \/ d.id = e.id
        ELSE /\ d.id = e.id
             /\ \/ e.version = d.version
                \/ /\ d.version \in Live(c, s)
                   /\ versions[<<c, s, d.version>>].id = e.id
                   /\ Entity(c, s, d.version) = e.content}

\* Mutant: only the full level looks past the latest version.
FullTransitive(l) == l = "FULL_TRANSITIVE"

\* The levels, and check_compatibility against the live versions.
Transitive(l) == l \in {"BACKWARD_TRANSITIVE", "FORWARD_TRANSITIVE", "FULL_TRANSITIVE"}
Backward(l)   == l \in {"BACKWARD", "BACKWARD_TRANSITIVE", "FULL", "FULL_TRANSITIVE"}
Forward(l)    == l \in {"FORWARD", "FORWARD_TRANSITIVE", "FULL", "FULL_TRANSITIVE"}
Follows(l, new, old) == /\ Backward(l) => <<new, old>> \in CanRead
                        /\ Forward(l) => <<old, new>> \in CanRead

Compatible(c, s, text) ==
    LET level == ConfigInScope(c, s)
        olds == {v \in Live(c, s) : level # "NONE" /\ (Transitive(level) \/ v = Max(Live(c, s)))}
    IN \A v \in olds : /\ Resolves(c, Entity(c, s, v).refs)
                       /\ Follows(level, text, Entity(c, s, v).text)

\* The id a registration of content x gets: the indexed one, the one the
\* request names, or the next.
ChooseId(c, d, x) ==
    LET hit == {i \in HashLookup(c, x) : d.id < 0 \/ d.id = i}
    IN IF hit # {} THEN CHOOSE i \in hit : TRUE ELSE d.id

\* Mutant: the hash index is not consulted again under the lock.
RegisteredByContent(c, s, d, x) ==
    /\ d.version = 0
    /\ \E v \in Live(c, s) : /\ ChooseId(c, d, x) \in {-1, versions[<<c, s, v>>].id}
                             /\ CanLookup(x, Entity(c, s, v), v)

\* RegisterSchema::plan found a live version that already answers the request.
Registered(c, s, d, x) ==
    /\ d.version = 0
    /\ \/ \E i \in HashLookup(c, x) : (d.id < 0 \/ d.id = i) /\ HashLive(c, s, i)
       \/ \E v \in Live(c, s) : /\ ChooseId(c, d, x) \in {-1, versions[<<c, s, v>>].id}
                                /\ CanLookup(x, Entity(c, s, v), v)

\* Mutant: an id that only soft-deleted versions use is free to take.
MayStoreOverDeleted(c, id, x) ==
    (\E u \in usages : u[1] = c /\ u[2] = id /\ u[4] \in Live(c, u[3]))
        => Look(bodies, <<c, id>>, x) = x

\* An id that is in use takes no other content.
MayStore(c, id, x) == Used(c, id) => Look(bodies, <<c, id>>, x) = x

\* Mutant: the counter moves only for an id beyond it.
AdvancePastImports(c, id) == IF id > next[c] THEN Only(c, id + 1) ELSE Nothing

\* The counter moves past the id.
Advance(c, id) == IF id >= next[c] THEN Only(c, id + 1) ELSE Nothing

\* The rows of a registration: a version already under that number and older
\* soft-deleted versions with the same id are removed for good.
RegisterPlan(c, s, version, id, x) ==
    LET k == <<c, s, version>>
        stale == {v \in Rows(c, s) : /\ v < version /\ v \notin Live(c, s)
                                     /\ versions[<<c, s, v>>].id = id}
        over == HardDelete({k} \cap DOMAIN versions, {})
        gone == HardDelete({<<c, s, v>> : v \in stale}, {<<s, v>> : v \in stale})
    IN [drop  |-> over.drop \cup gone.drop,
        free  |-> over.free \cup gone.free,
        unref |-> over.unref \cup gone.unref,
        put   |-> Only(k, [id |-> id, deleted |-> FALSE]),
        body  |-> Only(<<c, id>>, x),
        index |-> Only(<<c, x>>, id),
        ref   |-> Edges(c, id, x),
        next  |-> Advance(c, id)]

RegisterSchema(c, s, d) ==
    LET import == ModeInScope(c, s) = "IMPORT"
        raw == Populate(c, s, d, import)
        x == Canonicalize(c, raw)
        chosen == ChooseId(c, d, x)
        version == IF d.version <= 0 THEN NewVersion(c, s) ELSE d.version
        id == IF chosen >= 0 THEN chosen ELSE next[c]
    IN /\ version <= MaxVersion
       /\ d.text # Empty => Resolves(c, d.refs)
       /\ FastPath(c, s, d) = {}
       /\ Allowed(IF d.id >= 0 THEN "import" ELSE "write", ModeInScope(c, s))
       /\ d.text = Empty => ~import /\ Live(c, s) # {}
       /\ Resolves(c, raw.refs)
       /\ ~Registered(c, s, d, x)
       /\ ~import => Compatible(c, s, x.text) /\ d.version \in {0, -1, NewVersion(c, s)}
       /\ chosen >= 0 => MayStore(c, id, x)
       /\ id <= MaxId
       /\ \E p \in {RegisterPlan(c, s, version, id, x)} : Apply(p)
       /\ UNCHANGED settings

-----------------------------------------------------------------------------
(***************************************************************************)
(* Deletes.                                                                *)
(***************************************************************************)
ForgetSettings(c, s) ==
    /\ modes' = Without(modes, {<<"subject", c, s>>})
    /\ configs' = Without(configs, {<<"subject", c, s>>})

DeleteSubject(c, s, permanent) ==
    LET vs == IF permanent THEN Rows(c, s) ELSE Live(c, s)
        keys == {<<c, s, v>> : v \in vs}
    IN /\ vs # {}
       /\ \A v \in vs : LiveReferrers(c, s, v) = {}
       /\ permanent => Live(c, s) = {}
       /\ Allowed("modify", ModeInScope(c, s))
       /\ IF permanent THEN Apply(HardDelete(keys, {<<s, v>> : v \in vs})) /\ UNCHANGED settings
                       ELSE Apply(SoftDelete(keys)) /\ ForgetSettings(c, s)

\* The spec "latest" picks a live version, so its effects are among these.
DeleteSubjectVersion(c, s, v, permanent) ==
    /\ v \in Rows(c, s)
    /\ permanent <=> v \notin Live(c, s)
    /\ LiveReferrers(c, s, v) = {}
    /\ Allowed("modify", ModeInScope(c, s))
    /\ Apply(IF permanent THEN HardDelete({<<c, s, v>>}, {}) ELSE SoftDelete({<<c, s, v>>}))
    /\ IF ~permanent /\ Live(c, s) = {v} THEN ForgetSettings(c, s) ELSE UNCHANGED settings

DeleteContext(c) ==
    /\ c # Default
    /\ SubjectNames(c) = {}
    /\ contexts' = contexts \ {c}
    /\ modes' = Without(modes, {<<"context", c>>})
    /\ configs' = Without(configs, {<<"context", c>>})
    /\ UNCHANGED tables

-----------------------------------------------------------------------------
(***************************************************************************)
(* Settings.  Entering IMPORT removes the soft-deleted versions in scope.  *)
(***************************************************************************)
InScope(scope) ==
    {k \in DOMAIN versions :
        CASE scope[1] = "global"  -> k[1] \in ListContexts
          [] scope[1] = "context" -> k[1] = scope[2]
          [] scope[1] = "subject" -> k[1] = scope[2] /\ k[2] = scope[3]}

ModeOf(scope) ==
    CASE scope[1] = "global"  -> GlobalMode
      [] scope[1] = "context" -> ModeInContext(scope[2])
      [] scope[1] = "subject" -> ModeInScope(scope[2], scope[3])

SetMode(scope, m, force) ==
    LET doomed == InScope(scope)
        purge == m = "IMPORT" /\ ModeOf(scope) # "IMPORT" /\ ~force
    IN /\ purge => \A k \in doomed : /\ versions[k].deleted
                                     /\ LiveReferrers(k[1], k[2], k[3]) = {}
       /\ Apply(IF purge THEN HardDelete(doomed, {<<k[2], k[3]>> : k \in doomed}) ELSE NoPlan)
       /\ modes' = Put(modes, Only(scope, m))
       /\ UNCHANGED configs

\* mode_of_scope must have an answer: a global override, or a mode of its own.
DeleteMode(scope) ==
    /\ scope[1] # "global"
    /\ GlobalMode = "READONLY_OVERRIDE" \/ scope \in DOMAIN modes
    /\ modes' = Without(modes, {scope})
    /\ UNCHANGED <<tables, contexts, configs>>

UpdateCompatibility(scope, l) ==
    /\ Allowed("modify", ModeOf(scope))
    /\ configs' = Put(configs, Only(scope, l))
    /\ UNCHANGED <<tables, contexts, modes>>

DeleteSubjectConfig(scope) ==
    /\ scope[1] # "global" => scope \in DOMAIN configs
    /\ Allowed("modify", ModeOf(scope))
    /\ configs' = Without(configs, {scope})
    /\ UNCHANGED <<tables, contexts, modes>>

-----------------------------------------------------------------------------
Next ==
    \/ \E c \in Contexts, s \in Subjects :
        \/ \E d \in Drafts : RegisterSchema(c, s, d)
        \/ \E permanent \in BOOLEAN :
            \/ DeleteSubject(c, s, permanent)
            \/ \E v \in 1..MaxVersion : DeleteSubjectVersion(c, s, v, permanent)
    \/ \E c \in Contexts : DeleteContext(c)
    \/ \E scope \in SetScopes :
        \/ \E m \in Modes, force \in BOOLEAN : SetMode(scope, m, force)
        \/ \E l \in Levels : UpdateCompatibility(scope, l)
        \/ DeleteMode(scope)
        \/ DeleteSubjectConfig(scope)

Spec == Init /\ [][Next]_vars

-----------------------------------------------------------------------------
Ids      == 0..MaxId
Keys     == Contexts \X Subjects \X (1..MaxVersion)
Texts    == {d.text : d \in Drafts} \ {Empty}
Contents == [text : Texts, refs : SUBSET ((Contexts \cup {Here}) \X Subjects \X (1..MaxVersion)),
             cv : Nat]

\* Every table holds rows of the shape its key and record types give it; stored
\* references are concrete (canonicalize has resolved "latest").
TypeOK ==
    /\ DOMAIN versions \subseteq Keys
    /\ \A k \in DOMAIN versions : versions[k] \in [id : Ids, deleted : BOOLEAN]
    /\ usages \subseteq Contexts \X Ids \X Subjects \X (1..MaxVersion)
    /\ DOMAIN bodies \subseteq Contexts \X Ids
    /\ \A ci \in DOMAIN bodies : bodies[ci] \in Contents
    /\ DOMAIN fingerprints \subseteq Contexts \X Contents
    /\ \A cx \in DOMAIN fingerprints : fingerprints[cx] \in Ids
    /\ refby \subseteq Keys \X Ids
    /\ next \in [Contexts -> 1..(MaxId + 1)]
    /\ contexts \subseteq Contexts
    /\ DOMAIN modes \subseteq Scopes /\ \A x \in DOMAIN modes : modes[x] \in AllModes
    /\ DOMAIN configs \subseteq Scopes /\ \A x \in DOMAIN configs : configs[x] \in AllLevels

\* The incremental index of ids is at every moment exactly what load_snapshot
\* would rebuild from the version rows after a restart (Snapshot::apply).
UsagesExact ==
    usages = {<<k[1], versions[k].id, k[2], k[3]>> : k \in DOMAIN versions}

\* Freeing content never takes it from a version that still holds the id, be
\* it of another subject, soft-deleted, or written by the same plan
\* (hard_delete_writes: still_used and also_removed).
BodyPresent == \A k \in DOMAIN versions : <<k[1], versions[k].id>> \in DOMAIN bodies

\* The id counter is past every id of the context, imported, indexed or kept,
\* so an id the registry assigns was never used before (SetNextId).
NextFresh ==
    /\ \A k \in DOMAIN versions : versions[k].id < next[k[1]]
    /\ \A cx \in DOMAIN fingerprints : fingerprints[cx] < next[cx[1]]

\* Content that no version holds any more is gone: a permanent delete frees
\* what it took (hard_delete_writes, "It is also the only thing that ever
\* frees what a deleted schema took").
NoGarbage == \A ci \in DOMAIN bodies : Used(ci[1], ci[2])

\* The reverse index knows every reference of every stored version, and
\* nothing else, so a delete sees exactly the referrers there are
\* (PutRefby, DeleteRefby and their shared ids).
RefbyExact ==
    /\ \A k \in DOMAIN versions :
        Edges(k[1], versions[k].id, Entity(k[1], k[2], k[3])) \subseteq refby
    /\ \A edge \in refby : \E ci \in DOMAIN bodies :
        Used(ci[1], ci[2]) /\ edge \in Edges(ci[1], ci[2], bodies[ci])

\* hash_lookup answers "the id holding this exact content": an indexed id that
\* is in use holds the indexed content.
HashSound ==
    \A cx \in DOMAIN fingerprints :
        Used(cx[1], fingerprints[cx]) => bodies[<<cx[1], fingerprints[cx]>>] = cx[2]

\* What a live version references exists (resolve_references checked it when
\* the version was registered).
NoDangling ==
    \A k \in DOMAIN versions : ~versions[k].deleted =>
        \A r \in Entity(k[1], k[2], k[3]).refs : RefTarget(k[1], r) \in DOMAIN versions

\* A request that the lock-free path would answer is answered without a write
\* by the plan as well, so it does not matter that another writer registered
\* the schema after this request had looked (register_fast_path, plan).
PlanAgrees ==
    \A c \in Contexts, s \in Subjects, d \in Drafts :
        d.version = 0 /\ Resolves(c, d.refs) /\ FastPath(c, s, d) # {} =>
            Registered(c, s, d, Canonicalize(c, Populate(c, s, d, ModeInScope(c, s) = "IMPORT")))

\* The number in a stored version's metadata is the version it is stored as,
\* after any deletes, re-registrations and sharing of ids between subjects
\* (populate_from_previous: "confluent:version tracks the version").
NumberTracksVersion == \A k \in DOMAIN versions : Entity(k[1], k[2], k[3]).cv \in {0, k[3]}

\* Under one transitive level every live version follows every older live one,
\* whatever was deleted or registered again in between (check_compatibility).
TransitivelyCompatible ==
    \A c \in Contexts, s \in Subjects : \A v, w \in Live(c, s) :
        v < w => Follows(DefaultLevel, Entity(c, s, w).text, Entity(c, s, v).text)

\* A context that holds versions, live or not, is listed, so a global change
\* of mode reaches all of them (known_contexts, DeleteContext).
ContextsListed == \A k \in DOMAIN versions : k[1] \in ListContexts

-----------------------------------------------------------------------------
\* While some version holds an id, its content does not change, not even by an
\* import that names the id (the overwrite check of RegisterSchema::plan).
ContentFixed ==
    [][\A ci \in DOMAIN bodies \cap DOMAIN bodies' :
        Used(ci[1], ci[2]) => bodies'[ci] = bodies[ci]]_vars

LiveRows(c, s) == {<<v, versions[<<c, s, v>>]>> : v \in Live(c, s)}

\* A read-only scope keeps its live versions: no verb on it, on its context or
\* on the registry adds, hides or removes one (modegate::check, mode_in_scope).
ReadonlyFreezes ==
    [][\A c \in Contexts, s \in Subjects :
        ModeInScope(c, s) \in {"READONLY", "READONLY_OVERRIDE"} =>
            LiveRows(c, s)' = LiveRows(c, s)]_vars

\* A schema that was just registered is answered by the lock-free path, unless
\* it references the newest version of its own subject and so means something
\* else now, or is no import and carries a number in the metadata, which the
\* plan replaces by the version.
Idempotent ==
    [][\A c \in Contexts, s \in Subjects : Live(c, s)' \ Live(c, s) # {} =>
        \A d \in Drafts : /\ d.version \in {0, -1} /\ d.text # Empty
                          /\ d.cv # 0 => d.id >= 0
                          /\ RegisterSchema(c, s, d)
                          /\ Canonicalize(c, d)' = Canonicalize(c, d)
            => FastPath(c, s, d)' # {}]_vars

Referenced(k) ==
    \E j \in DOMAIN versions : /\ ~versions[j].deleted
                               /\ \E r \in Entity(j[1], j[2], j[3]).refs : RefTarget(j[1], r) = k
Delete(c, s, permanent) ==
    \/ DeleteSubject(c, s, permanent)
    \/ \E v \in 1..MaxVersion : DeleteSubjectVersion(c, s, v, permanent)

\* No delete hides or removes a version that a live schema references
\* (delete_subject.rs: "Skipping the soft delete is refused, and so is
\* deleting a version something else still references").
DeletesRespectReferences ==
    [][\A k \in DOMAIN versions :
        Referenced(k) /\ (k \in DOMAIN versions' => versions'[k] # versions[k]) =>
            ~ \E permanent \in BOOLEAN : Delete(k[1], k[2], permanent)]_vars
=============================================================================
