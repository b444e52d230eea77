------------------------------ MODULE Serving ------------------------------
(***************************************************************************)
(* A server on an opened directory: the snapshot, the caches of schema     *)
(* bodies and of parses (registry/mod.rs, registry/schemas.rs), readers    *)
(* that pin a snapshot and fill the caches, and the mutations of one       *)
(* context, durable first and published later.  A slot is a version of a   *)
(* subject; a body is a text and the slot it references, if any.           *)
(***************************************************************************)
EXTENDS Storage

CONSTANTS
    Contents,       \* <<id, body>>: what may be registered or imported under an id
    Slots,
    Readers,
    NoSlot,
    Nobody,         \* no body, no parse
    MaxEntries      \* the configuration's cache_max_entries, of each cache

ASSUME ContentsAssumption == \A c \in Contents : c = <<c[1], c[2]>>

VARIABLES
    live,           \* the snapshot is loaded
    snapshot,       \* <<slot, id>>
    bodies,         \* the body cache: <<id, body>>
    parsed,         \* the parse cache: <<id, text of the reference, parse>>
    tx,             \* the mutation between its batch and its publication
    readers,
    overtaken       \* history: ids cached by a reader after their body was freed

servingVars == <<live, snapshot, bodies, parsed, tx, readers, overtaken>>
vars == <<storageVars, servingVars>>

Ids       == {c[1] : c \in Contents}
Idle      == [pc |-> "idle", snap |-> {}, id |-> 0, rec |-> Nobody, dep |-> Nobody, answer |-> Nobody]
NoTx      == [step |-> "none", kind |-> "none", slot |-> NoSlot, id |-> 0, body |-> Nobody]
Table(f)  == {<<r[3], r[4]>> : r \in {x \in rows : x[1] = Default /\ x[2] = f}}
Stored(id) == {s[2] : s \in {x \in Table("schemas") : x[1] = id}}
Cached(id) == {s[2] : s \in {x \in bodies : x[1] = id}}

\* What an insert may leave of a cache: others go when it is full.
Room(cache) ==
    IF Cardinality(cache) < MaxEntries THEN {cache} ELSE {C \in SUBSET cache : Cardinality(C) = MaxEntries - 1}
Others(id)  == {x \in bodies : x[1] # id}
Insert(id, b) ==
    \E C \in Room(Others(id)) :
        /\ bodies' = C \cup {<<id, b>>}
        /\ overtaken' = ({x[1] : x \in C} \cap overtaken)
                            \cup (IF Stored(id) = {} THEN {id} ELSE {})

Taken == {v[1] : v \in Table("versions")}

\* Store::load_snapshot, before the first request.
Load ==
    /\ phase = "up" /\ ~live
    /\ live' = TRUE /\ snapshot' = Table("versions")
    /\ UNCHANGED <<storageVars, bodies, parsed, tx, readers, overtaken>>

-----------------------------------------------------------------------------
(***************************************************************************)
(* Mutations.  The batch is durable; then, under the publish lock, the     *)
(* body cache follows and the snapshot is swapped.                         *)
(***************************************************************************)
Commit(kind, s, id, b, del, put) ==
    /\ live /\ tx = NoTx
    /\ Write(del, put)
    /\ tx' = [step |-> "durable", kind |-> kind, slot |-> s, id |-> id, body |-> b]
    /\ UNCHANGED <<old, phase, crashes, live, snapshot, bodies, parsed, readers, overtaken>>

\* An id that holds other content is refused.
Register(s, id, b) ==
    /\ s \notin Taken
    /\ b.ref = NoSlot \/ b.ref \in Taken
    /\ Stored(id) \subseteq {b}
    /\ Commit("put", s, id, b, {}, {<<Default, "schemas", id, b>>, <<Default, "versions", s, id>>})

\* Mutant: the content goes although another version holds the id.
FreedAlways(s, id) == Stored(id)

\* What a permanent delete frees: the content no other version holds.
Freed(s, id) == {b \in Stored(id) : \A v \in Table("versions") : v[2] = id => v[1] = s}

\* A permanent delete of a version that nothing references.
Delete(s, id) ==
    /\ <<s, id>> \in Table("versions")
    /\ \A v \in Table("versions") : \A b \in Stored(v[2]) : b.ref # s
    /\ Commit(IF Freed(s, id) = {} THEN "keep" ELSE "free", s, id, Nobody,
              {<<Default, "versions", s, id>>} \cup {<<Default, "schemas", id, b>> : b \in Freed(s, id)}, {})

\* Mutant: a freed body stays cached.
FollowPuts ==
    /\ tx.step = "durable"
    /\ tx' = [tx EXCEPT !.step = "cached"]
    /\ \/ tx.kind = "put" /\ Insert(tx.id, tx.body)
       \/ tx.kind # "put" /\ UNCHANGED <<bodies, overtaken>>
    /\ UNCHANGED <<storageVars, live, snapshot, parsed, readers>>

Follow ==
    /\ tx.step = "durable"
    /\ tx' = [tx EXCEPT !.step = "cached"]
    /\ \/ tx.kind = "put" /\ Insert(tx.id, tx.body)
       \/ tx.kind = "free" /\ bodies' = Others(tx.id) /\ overtaken' = overtaken \ {tx.id}
       \/ tx.kind = "keep" /\ UNCHANGED <<bodies, overtaken>>
    /\ UNCHANGED <<storageVars, live, snapshot, parsed, readers>>

Publish ==
    /\ tx.step = "cached"
    /\ snapshot' = Table("versions") /\ tx' = NoTx
    /\ UNCHANGED <<storageVars, live, bodies, parsed, readers, overtaken>>

-----------------------------------------------------------------------------
(***************************************************************************)
(* Readers: Reader::get_schema for the body and for the body it            *)
(* references, then parse_record.                                          *)
(***************************************************************************)
Sought(q) ==
    IF q.rec = Nobody THEN q.id ELSE (CHOOSE v \in q.snap : v[1] = q.rec.ref)[2]

Step(r, q) == readers' = [readers EXCEPT ![r] = q]

\* get_schema returns b: what was asked for, or what that references.
Got(q, b) ==
    IF q.rec = Nobody
    THEN [q EXCEPT !.rec = b, !.pc = IF b.ref = NoSlot THEN "parse" ELSE "get"]
    ELSE [q EXCEPT !.dep = b, !.pc = "parse"]

Ask(r) ==
    /\ live /\ readers[r].pc = "idle"
    /\ \E v \in snapshot : Step(r, [Idle EXCEPT !.pc = "get", !.snap = snapshot, !.id = v[2]])
    /\ UNCHANGED <<storageVars, live, snapshot, bodies, parsed, tx, overtaken>>

Hit(r) ==
    /\ readers[r].pc = "get"
    /\ \E b \in Cached(Sought(readers[r])) : Step(r, Got(readers[r], b))
    /\ UNCHANGED <<storageVars, live, snapshot, bodies, parsed, tx, overtaken>>

\* A miss: the store is read now and the cache filled later.
Read(r) ==
    LET q == readers[r] IN
    /\ q.pc = "get" /\ Cached(Sought(q)) = {}
    /\ \/ \E b \in Stored(Sought(q)) : Step(r, [q EXCEPT !.pc = "fill", !.answer = b])
       \/ Stored(Sought(q)) = {} /\ Step(r, Idle)
    /\ UNCHANGED <<storageVars, live, snapshot, bodies, parsed, tx, overtaken>>

Fill(r) ==
    LET q == readers[r] IN
    /\ q.pc = "fill"
    /\ Insert(Sought(q), q.answer)
    /\ Step(r, Got([q EXCEPT !.answer = Nobody], q.answer))
    /\ UNCHANGED <<storageVars, live, snapshot, parsed, tx>>

\* deps_fingerprint: the texts the references resolved to, none for none.
Deps(q) == IF q.dep = Nobody THEN Nobody ELSE q.dep.text

\* Mutant: the parse is kept under the id alone.
ParseKeyOfId(q) == <<q.id, Nobody>>

ParseKey(q) == <<q.id, Deps(q)>>

ParseOf(q)  == <<q.rec.text, Deps(q)>>

ParseHit(r) ==
    LET q == readers[r] IN
    /\ q.pc = "parse"
    /\ \E p \in parsed : /\ <<p[1], p[2]>> = ParseKey(q)
                         /\ Step(r, [q EXCEPT !.pc = "done", !.answer = p[3]])
    /\ UNCHANGED <<storageVars, live, snapshot, bodies, parsed, tx, overtaken>>

ParseMiss(r) ==
    LET q == readers[r] IN
    /\ q.pc = "parse" /\ ~\E p \in parsed : <<p[1], p[2]>> = ParseKey(q)
    /\ \E C \in Room(parsed) : parsed' = C \cup {<<ParseKey(q)[1], ParseKey(q)[2], ParseOf(q)>>}
    /\ Step(r, [q EXCEPT !.pc = "done", !.answer = ParseOf(q)])
    /\ UNCHANGED <<storageVars, live, snapshot, bodies, tx, overtaken>>

Leave(r) ==
    /\ readers[r].pc = "done" /\ Step(r, Idle)
    /\ UNCHANGED <<storageVars, live, snapshot, bodies, parsed, tx, overtaken>>

-----------------------------------------------------------------------------
Forget ==
    /\ live' = FALSE /\ snapshot' = {} /\ bodies' = {} /\ parsed' = {}
    /\ tx' = NoTx /\ readers' = [r \in Readers |-> Idle] /\ overtaken' = {}

Init ==
    /\ StorageInit
    /\ live = FALSE /\ snapshot = {} /\ bodies = {} /\ parsed = {}
    /\ tx = NoTx /\ readers = [r \in Readers |-> Idle] /\ overtaken = {}

Next ==
    \/ Open /\ UNCHANGED servingVars
    \/ MoveBatch /\ UNCHANGED servingVars
    \/ Finish /\ UNCHANGED servingVars
    \/ Load
    \/ \E s \in Slots :
        \/ \E c \in Contents : Register(s, c[1], c[2])
        \/ \E id \in Ids : Delete(s, id)
    \/ Follow
    \/ Publish
    \/ \E r \in Readers : Ask(r) \/ Hit(r) \/ Read(r) \/ Fill(r) \/ ParseHit(r) \/ ParseMiss(r) \/ Leave(r)
    \/ Crash /\ Forget

\* The server goes on opening and loading, and a mutation that is durable is
\* published: neither waits for anyone.
Fairness ==
    /\ WF_vars((Open \/ MoveBatch \/ Finish) /\ UNCHANGED servingVars)
    /\ WF_vars(Load) /\ WF_vars(Follow) /\ WF_vars(Publish)

Spec == Init /\ [][Next]_vars /\ Fairness

-----------------------------------------------------------------------------
\* A parse is of the body its reader holds and of what the reader's snapshot
\* says that body references, however versions were deleted and registered
\* again since the parse was cached (parse_record: "makes a stale entry
\* impossible to look up rather than merely unlikely").
ParseIsOfRecord ==
    \A r \in Readers : readers[r].pc = "done" => readers[r].answer = ParseOf(readers[r])

\* What the published snapshot names can be read: its body is stored, unless
\* the mutation under way has just freed it (Registry::commit publishes what
\* is durable; hard_delete_writes).
PublishedIsStored ==
    \A v \in snapshot : Stored(v[2]) # {} \/ (tx.kind = "free" /\ tx.id = v[2])

\* A permanent delete gives the memory back: a body that is cached and not
\* stored was put there by a reader that had read the store before the delete,
\* or is about to be invalidated (Registry::commit: "so the cached copy has to
\* go with it").
FreedIsForgotten ==
    \A x \in bodies : \/ Stored(x[1]) # {} \/ x[1] \in overtaken
                      \/ (tx.kind = "free" /\ tx.step = "durable" /\ tx.id = x[1])

\* Once crashes stop the server serves what is durable: every interrupted
\* migration is completed and every durable mutation published.
ServesInTheEnd == <>[]live /\ []<>(tx = NoTx)
=============================================================================
