------------------------------ MODULE Transfer ------------------------------
(***************************************************************************)
(* Copying a registry: the dump (backup.rs), its replay into another       *)
(* registry, and the direct copy between two registries (migrate.rs).      *)
(*                                                                         *)
(* The tables of module Registry are first those of the source, which      *)
(* clients fill; Backup takes the dump and the tables become those of an   *)
(* empty destination.  A tool then makes its calls, one verb of Registry   *)
(* each: "local" is restore_local behind POST /admin/api/restore, "remote" *)
(* the replay through the public API, and "migrate" the direct copy.  A    *)
(* call may be lost before or after it took effect, a tool may be killed,  *)
(* and be started again.                                                   *)
(*                                                                         *)
(* The destination normalises what it registers unless the subject's       *)
(* config says otherwise, which is what the tools set while they write.    *)
(* Whether the source normalises by default, and so says it in the configs *)
(* it answers with, is chosen when the dump is taken.  Clients set levels. *)
(* Exporter records, rules and metadata are left out.                      *)
(***************************************************************************)
EXTENDS Registry, Sequences, SequencesExt

CONSTANTS
    ContextOrder,   \* the contexts but the default one, as they are listed
    SubjectOrder,   \* <<context, subject>> as subjects are listed
    Normal,         \* text -> its normal form
    Tools,          \* the tools that are run
    Requests,       \* bound: the requests that fill the source
    Attempts,       \* bound: how often a tool is started
    Losses          \* bound: calls that are lost

ASSUME TransferAssumption ==
    /\ ToSet(ContextOrder) = Contexts \ {Default}
    /\ ToSet(SubjectOrder) = Contexts \X Subjects
    /\ Tools \subseteq {"local", "remote", "migrate"}
    /\ \A d \in Drafts : d.version = 0 /\ d.cv = 0

VARIABLES
    raw,        \* subjects whose config at the destination says normalize = false
    dump,       \* what Backup read
    part,       \* the part of its work: <<"wide">>, a subject, or <<"settle">>
    queue,      \* subjects the tool has still to begin with
    plan,       \* the calls of the part, and the versions whose copy is begun by then
    at,         \* the next call of the plan
    outcome,    \* of the last attempt: "none", "running", "ok" or "failed"
    skipped,    \* subjects migrate reports as skipped
    refused,    \* attempts in which the destination refused a call
    requests,
    attempts,   \* the tools started so far
    losses

work == <<part, queue, plan, at, outcome, skipped, refused, attempts>>
allVars == <<vars, raw, dump, work, requests, losses>>

TransferInit ==
    /\ Init
    /\ raw = {} /\ dump = [taken |-> FALSE]
    /\ part = <<"wide">> /\ queue = <<>> /\ plan = [calls |-> <<>>, begun |-> {}] /\ at = 1
    /\ outcome = "none" /\ skipped = {} /\ refused = {} /\ attempts = <<>>
    /\ requests = 0 /\ losses = 0

Tool == Last(attempts)

-----------------------------------------------------------------------------
(***************************************************************************)
(* The dump.                                                               *)
(***************************************************************************)
Subject(cs) == <<"subject", cs[1], cs[2]>>
Context(c)  == <<"context", c>>

\* Subjects that have a version, deleted or not, and the scopes a dump visits.
Listed == {cs \in Contexts \X Subjects : Rows(cs[1], cs[2]) # {}}
Visited == {<<"global">>} \cup {Context(c) : c \in contexts \ {Default}} \cup {Subject(cs) : cs \in Listed}

\* get_mode of exactly this scope: the registry always has one, and a global
\* override answers for every scope.
ModeOfScope(scope) ==
    IF scope = <<"global">> \/ GlobalMode = "READONLY_OVERRIDE" THEN {GlobalMode}
    ELSE {modes[x] : x \in DOMAIN modes \cap {scope}}

\* dump_local, or with own = FALSE the walk of read, which cannot see a subject
\* that has a config and no version.  The registry always has a config.  A
\* config is read filled in: it says normalize = true if that is the default.
Dumped(own, normalizes) ==
    [taken    |-> TRUE,
     filled   |-> normalizes,
     versions |-> versions,
     contents |-> [k \in DOMAIN versions |-> Entity(k[1], k[2], k[3])],
     listed   |-> Listed,
     modes    |-> [x \in {y \in Visited : ModeOfScope(y) # {}} |-> CHOOSE m \in ModeOfScope(x) : TRUE],
     configs  |-> Put([x \in {y \in DOMAIN configs : y \in Visited \/ (own /\ y[1] = "subject")} |->
                          configs[x]],
                      Only(<<"global">>, Look(configs, <<"global">>, DefaultLevel))),
     settings |-> [modes |-> modes, configs |-> configs]]

-----------------------------------------------------------------------------
(***************************************************************************)
(* The calls of the tools.  A call carries the versions begun before it.   *)
(***************************************************************************)
Call(verb, scope, arg, begun) == [verb |-> verb, scope |-> scope, arg |-> arg, begun |-> begun]

Plan(begun) == [calls |-> <<>>, begun |-> begun]
Then(p, verb, scope, arg) == [p EXCEPT !.calls = Append(@, Call(verb, scope, arg, p.begun))]
Begin(p, k) == [p EXCEPT !.begun = @ \cup {k}]
Each(p, step(_, _), seq) == FoldLeft(step, p, seq)

\* put_config: a config is merged into the one that is there, so the remote
\* tools delete first.
PutConfig(t, p, scope, level) ==
    Then(IF t = "local" \/ scope[1] = "global" THEN p ELSE Then(p, "clearConfig", scope, 0),
         "config", scope, [level |-> level, normalize |-> dump.filled])

\* Mutants: normalization stays on; the config comes before the mode.
PrepareMode(p, cs)   == Then(p, "mode", Subject(cs), "IMPORT")
PrepareConfig(p, cs) == Then(Then(p, "raw", Subject(cs), 0), "mode", Subject(cs), "IMPORT")

\* IMPORT keeps ids and versions, normalize = false keeps the text.
Prepare(p, cs) == Then(Then(p, "mode", Subject(cs), "IMPORT"), "raw", Subject(cs), 0)

\* write_version, write_version_local and copy_version: references first.
RECURSIVE WriteVersion(_, _, _)
WriteVersion(t, p, k) ==
    LET cs == <<k[1], k[2]>>
        x == dump.contents[k]
        Reference(q, target) ==
            IF target \in DOMAIN dump.versions
            THEN WriteVersion(t, IF t = "migrate" THEN q ELSE Prepare(q, <<target[1], target[2]>>), target)
            ELSE IF t = "migrate" THEN Then(Begin(q, target), "missing", Subject(cs), 0)
            ELSE q
        written == Each(Begin(p, k), Reference, SetToSeq({RefTarget(k[1], r) : r \in x.refs}))
        ready == IF t = "migrate" THEN Then(written, "mode", Subject(cs), "IMPORT") ELSE written
    IN IF k \in p.begun THEN p
       ELSE Then(ready, "post", Subject(cs),
                 [text |-> x.text, refs |-> x.refs, id |-> dump.versions[k].id, version |-> k[3],
                  cv |-> x.cv])

VersionsOf(cs) ==
    SelectSeq([v \in 1..MaxVersion |-> v], LAMBDA v : <<cs[1], cs[2], v>> \in DOMAIN dump.versions)
Hidden(cs, v) == dump.versions[<<cs[1], cs[2], v>>].deleted

\* One subject: every version before any delete, because the delete of the last
\* live version drops the subject's settings.  migrate_subject goes on with the
\* subject's own config and mode.
CopySubject(t, cs, begun) ==
    LET vs == VersionsOf(cs)
        written == Each(Prepare(Plan(begun), cs),
                        LAMBDA p, v : WriteVersion(t, p, <<cs[1], cs[2], v>>), vs)
        hidden == Each(written, LAMBDA p, v : Then(p, "hide", Subject(cs), v),
                       SelectSeq(vs, LAMBDA v : Hidden(cs, v)))
        configured == IF Subject(cs) \in DOMAIN dump.configs
                      THEN PutConfig(t, hidden, Subject(cs), dump.configs[Subject(cs)])
                      ELSE Then(hidden, "clearConfig", Subject(cs), 0)
    IN IF t # "migrate" THEN hidden
       ELSE IF Subject(cs) \in DOMAIN dump.modes
       THEN Then(configured, "mode", Subject(cs), dump.modes[Subject(cs)])
       ELSE Then(configured, "clearMode", Subject(cs), 0)

Wide == <<<<"global">>>> \o [i \in DOMAIN ContextOrder |-> Context(ContextOrder[i])]
Narrow == SelectSeq(SubjectOrder, LAMBDA cs : cs \in dump.listed)

\* The settings of the registry and its contexts come first.  copy_config
\* clears what is not configured at the source.
WideConfigs(t) ==
    Each(Plan({}),
         LAMBDA p, x : IF x \in DOMAIN dump.configs THEN PutConfig(t, p, x, dump.configs[x])
                       ELSE IF t = "migrate" /\ x[1] # "global" THEN Then(p, "clearConfig", x, 0)
                       ELSE p, Wide)

\* Mutant: the IMPORT mode is left where the dump has no mode.
SettleInImport(t, begun) ==
    Each(Each(Plan(begun), LAMBDA p, cs : Then(p, "clearConfig", Subject(cs), 0), Narrow),
         LAMBDA p, x : Then(p, "mode", x, dump.modes[x]),
         SelectSeq(Wide, LAMBDA x : x \in DOMAIN dump.modes))

\* What a restore does once every subject is written: clear the config it set,
\* put the subjects' own configs, then all modes, then clear the IMPORT it set.
Settle(t, begun) ==
    LET subjects == [i \in DOMAIN SubjectOrder |-> Subject(SubjectOrder[i])]
        mine == [i \in DOMAIN Narrow |-> Subject(Narrow[i])]
        cleared == Each(Plan(begun), LAMBDA p, x : Then(p, "clearConfig", x, 0),
                        SelectSeq(mine, LAMBDA x : x \notin DOMAIN dump.configs))
        configured == Each(cleared, LAMBDA p, x : PutConfig(t, p, x, dump.configs[x]),
                           SelectSeq(subjects, LAMBDA x : x \in DOMAIN dump.configs))
        moded == Each(configured, LAMBDA p, x : Then(p, "mode", x, dump.modes[x]),
                      SelectSeq(Wide \o subjects, LAMBDA x : x \in DOMAIN dump.modes))
    IN Each(moded, LAMBDA p, x : Then(p, "clearMode", x, 0),
            SelectSeq(mine, LAMBDA x : x \notin DOMAIN dump.modes))

PlanOf(t, p, begun) ==
    CASE p = <<"wide">>   -> WideConfigs(t)
      [] p = <<"settle">> -> Settle(t, begun)
      [] OTHER            -> CopySubject(t, <<p[2], p[3]>>, begun)

-----------------------------------------------------------------------------
(***************************************************************************)
(* What a call does at the destination.                                    *)
(***************************************************************************)
Request(k) == IF k.scope \in raw THEN k.arg ELSE [k.arg EXCEPT !.text = Normal[@]]

Perform(k) ==
    CASE k.verb = "mode"        -> SetMode(k.scope, k.arg, TRUE)
      [] k.verb = "config"      -> UpdateCompatibility(k.scope, k.arg.level)
      [] k.verb = "raw"         -> UpdateCompatibility(k.scope, Look(configs, k.scope, DefaultLevel))
      [] k.verb = "clearConfig" -> DeleteSubjectConfig(k.scope)
      [] k.verb = "clearMode"   -> DeleteMode(k.scope)
      [] k.verb = "post"        -> \E c \in {k.scope[2]}, s \in {k.scope[3]}, d \in {Request(k)} :
                                      RegisterSchema(c, s, d)
      [] k.verb = "hide"        -> DeleteSubjectVersion(k.scope[2], k.scope[3], k.arg, FALSE)
      [] k.verb = "missing"     -> FALSE /\ UNCHANGED vars

\* merged_with: what the update does not mention is kept, so normalize = false
\* goes with the whole config, or when the update says normalize = true.
Merged(k) ==
    CASE k.verb = "raw"                       -> raw \cup {k.scope}
      [] k.verb = "config" /\ k.arg.normalize -> raw \ {k.scope}
      [] OTHER                                -> raw

Performed(k) == Perform(k) /\ raw' = Merged(k) \cap DOMAIN configs'

\* A refusal the tools go on after, or an answer without a write: the version
\* is registered as it is, is not live, or there is nothing to clear.  The
\* local restore ignores every refusal to clear.
Tolerated(k) ==
    CASE k.verb = "post"        -> /\ Resolves(k.scope[2], k.arg.refs)
                                   /\ FastPath(k.scope[2], k.scope[3], Request(k)) # {}
      [] k.verb = "hide"        -> k.arg \notin Live(k.scope[2], k.scope[3])
      [] k.verb = "clearConfig" -> Tool = "local" \/ k.scope \notin DOMAIN configs
      [] k.verb = "clearMode"   -> TRUE
      [] OTHER                  -> FALSE

\* On to the next subject, the settings that end a restore, or the end.
Proceed(begun) ==
    LET Turn(p) == part' = p /\ plan' = PlanOf(Tool, p, begun) /\ UNCHANGED outcome
    IN /\ at' = 1
       /\ \/ queue # <<>> /\ Turn(Subject(Head(queue))) /\ queue' = Tail(queue)
          \/ queue = <<>> /\ Tool # "migrate" /\ part # <<"settle">> /\ Turn(<<"settle">>) /\ UNCHANGED queue
          \/ /\ queue = <<>> /\ (Tool = "migrate" \/ part = <<"settle">>)
             /\ outcome' = (IF skipped' = {} THEN "ok" ELSE "failed") /\ UNCHANGED <<part, queue, plan>>

\* An error ends a restore, and a migration before its first subject; later
\* migrate reports the subject as skipped and goes on with the next.
Fail(k) ==
    IF Tool = "migrate" /\ part # <<"wide">>
    THEN skipped' = skipped \cup {part} /\ Proceed(k.begun)
    ELSE outcome' = "failed" /\ UNCHANGED <<part, plan, at, queue, skipped>>

-----------------------------------------------------------------------------
ClientStep ==
    /\ ~dump.taken /\ requests < Requests
    /\ Next
    /\ requests' = requests + 1
    /\ UNCHANGED <<raw, dump, work, losses>>

\* Take the dump; the tables are now an empty registry's.
Backup(own, normalizes) ==
    /\ ~dump.taken /\ DOMAIN versions # {}
    /\ dump' = Dumped(own, normalizes)
    /\ versions' = Nothing /\ usages' = {} /\ bodies' = Nothing /\ fingerprints' = Nothing
    /\ refby' = {} /\ next' = [c \in Contexts |-> 1] /\ contexts' = {}
    /\ modes' = Nothing /\ configs' = Nothing
    /\ requests' = 0
    /\ UNCHANGED <<raw, work, losses>>

Start(t) ==
    /\ dump.taken /\ outcome # "running" /\ Len(attempts) < Attempts
    /\ attempts # <<>> => t = Tool
    /\ attempts' = Append(attempts, t)
    /\ part' = <<"wide">> /\ plan' = PlanOf(t, <<"wide">>, {}) /\ at' = 1 /\ queue' = Narrow
    /\ outcome' = "running" /\ skipped' = {}
    /\ UNCHANGED <<vars, raw, dump, refused, requests, losses>>

\* One call and its answer.
MakeCall ==
    /\ outcome = "running"
    /\ \E k \in {plan.calls[at]} : \E accepted \in {ENABLED Perform(k)} :
        /\ IF accepted THEN Performed(k) ELSE UNCHANGED <<vars, raw>>
        /\ IF accepted \/ Tolerated(k)
           THEN /\ UNCHANGED <<skipped, refused>>
                /\ IF at < Len(plan.calls)
                   THEN at' = at + 1 /\ UNCHANGED <<part, queue, plan, outcome>>
                   ELSE Proceed(plan.begun)
           ELSE Fail(k) /\ refused' = refused \cup {Len(attempts)}
    /\ UNCHANGED <<dump, attempts, requests, losses>>

\* The connection breaks before or after the call took effect.
LoseCall ==
    /\ outcome = "running" /\ Tool # "local" /\ losses < Losses
    /\ \E k \in {plan.calls[at]} :
        /\ UNCHANGED <<vars, raw>> \/ Performed(k)
        /\ Fail(k)
    /\ losses' = losses + 1
    /\ UNCHANGED <<dump, refused, attempts, requests>>

\* The tool, or with it the server, is stopped between two calls.
Kill ==
    /\ outcome = "running" /\ losses < Losses
    /\ outcome' = "failed" /\ losses' = losses + 1
    /\ UNCHANGED <<vars, raw, dump, part, plan, at, queue, skipped, refused, attempts, requests>>

TransferNext ==
    \/ ClientStep
    \/ \E own, normalizes \in BOOLEAN : Backup(own, normalizes)
    \/ \E t \in Tools : Start(t)
    \/ MakeCall \/ LoseCall \/ Kill

TransferSpec == TransferInit /\ [][TransferNext]_allVars

-----------------------------------------------------------------------------
References(k) == {RefTarget(k[1], r) : r \in dump.contents[k].refs}

\* What the calls of a tool can meet: a version references one that is gone, or
\* one that is soft-deleted; the registry or a context is read-only; a
\* referenced version is not in normal form.
Dangling     == \E k \in DOMAIN dump.versions : ~(References(k) \subseteq DOMAIN dump.versions)
HiddenTarget == \E k \in DOMAIN dump.versions : \E t \in References(k) \cap DOMAIN dump.versions :
                    dump.versions[t].deleted
Frozen       == \E x \in DOMAIN dump.modes :
                    x[1] # "subject" /\ dump.modes[x] \in {"READONLY", "READONLY_OVERRIDE"}
Unnormal     == \E k \in DOMAIN dump.versions : \E t \in References(k) \cap DOMAIN dump.versions :
                    Normal[dump.contents[t].text] # dump.contents[t].text

\* restore_local puts a subject's config over the one it set itself: where the
\* dump does not say normalize, its own normalize = false stays.
KeptRaw == IF Tool = "local" /\ ~dump.filled THEN DOMAIN dump.configs ELSE {}

\* "Ours, not the dump's ... so it is cleared once everything is in"
\* (restore_local): a finished copy leaves normalize = false nowhere.
NothingRaw == outcome = "ok" => raw = {}

\* A tool that reports success has made a copy: every version, deleted or not,
\* under its number and id, and the mode and the config of every subject,
\* whatever earlier attempts left behind; nothing of what the tool set for its
\* own purposes remains, but normalize = false in the configs KeptRaw names.
CopyIsComplete ==
    outcome = "ok" =>
        /\ versions = dump.versions
        /\ raw \subseteq KeptRaw
        /\ \A cs \in dump.listed :
            /\ Look(configs, Subject(cs), "") = Look(dump.settings.configs, Subject(cs), "")
            /\ \/ Look(modes, Subject(cs), "") = Look(dump.settings.modes, Subject(cs), "")
               \/ Look(dump.settings.modes, <<"global">>, "") = "READONLY_OVERRIDE"

\* Schemas must land byte for byte as the source stored them (migrate.rs).
ByteForByte ==
    dump.taken => \A k \in DOMAIN versions : Entity(k[1], k[2], k[3]) = dump.contents[k]

Migrated == "migrate" \in ToSet(attempts)

\* They do, at every moment of a restore; a migration rewrites a version that
\* it copies as the reference of another.
TextKept == ByteForByte \/ (Migrated /\ Unnormal)

\* The destination refuses no call, on the first attempt or on any after one
\* that was stopped anywhere, but for these causes (migrate.rs: "an interrupted
\* migration can simply be repeated").
RefusedOnlyForCause ==
    refused # {} =>
        \/ Dangling \/ HiddenTarget
        \/ Frozen /\ refused # {1}
        \/ Migrated /\ Unnormal
=============================================================================
