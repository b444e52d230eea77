--------------------------- MODULE RegistryProofs ---------------------------
(***************************************************************************)
(* Proofs about Registry, for every set of contexts, subjects and requests *)
(* and every bound.  The inductive invariant is the conjunction of the     *)
(* types, the exact index of ids, the presence of every body, the counter  *)
(* beyond every id, and the listing of contexts.  Each verb makes a plan;  *)
(* the plan is good for the state it was made in, and a good plan keeps    *)
(* the invariant and the content of every id in use.                       *)
(***************************************************************************)
EXTENDS Registry, WellFoundedInduction, TLAPS

\* A leaf that names no prover is proved by Zenon.
USE Zenon

\* A nonempty set of versions has a greatest one.
LEMMA MaxInSet ==
    ASSUME NEW N \in Nat, NEW S \in SUBSET (1..N), S # {}
    PROVE  Max(S) \in S /\ \A y \in S : Max(S) >= y
<1> DEFINE T == {N - v : v \in S}
<1>1. T \subseteq Nat /\ T # {}
  <2>1. \A v \in S : v \in 1..N /\ N - v \in Nat
    BY SMT
  <2> QED  BY <2>1
<1>2. PICK m \in T : \A y \in T : ~(<<y, m>> \in OpToRel(<, Nat))
  <2> HIDE DEF T
  <2> QED  BY <1>1, NatLessThanWellFounded, WFMin
<1>3. ASSUME NEW y \in T PROVE m <= y
  <2> HIDE DEF T
  <2>1. y \in Nat /\ m \in Nat /\ ~(<<y, m>> \in OpToRel(<, Nat))
    BY <1>1, <1>2
  <2> QED  BY <2>1, SMT DEF OpToRel
<1>4. PICK v \in S : m = N - v
  OBVIOUS
<1>5. \A w \in S : v >= w
  BY <1>3, <1>4, SMT
<1>6. \E z \in S : \A y \in S : z >= y
  BY <1>5
<1>7. PICK z \in S : \A y \in S : z >= y
  BY <1>6
<1> QED  BY <1>6 DEF Max
-----------------------------------------------------------------------------
IInv == TypeOK /\ UsagesExact /\ BodyPresent /\ NextFresh /\ ContextsListed

\* The rows of plan p have their types, and what it frees nobody holds.
GoodRows(p) ==
    /\ p.drop \subseteq DOMAIN versions
    /\ DOMAIN p.put \subseteq Keys
    /\ \A k \in DOMAIN p.put : p.put[k] \in [id : Ids, deleted : BOOLEAN]
    /\ p.free \subseteq DOMAIN bodies
    /\ DOMAIN p.body \subseteq Contexts \X Ids
    /\ \A ci \in DOMAIN p.body : p.body[ci] \in Contents
    /\ DOMAIN p.index \subseteq Contexts \X Contents
    /\ \A cx \in DOMAIN p.index : p.index[cx] \in Ids
    /\ p.ref \subseteq Keys \X Ids

\* The counter only grows, and past every id the plan writes.
GoodNext(p) ==
    /\ DOMAIN p.next \subseteq Contexts
    /\ \A c \in DOMAIN p.next : p.next[c] \in 1..(MaxId + 1) /\ p.next[c] >= next[c]
    /\ \A k \in DOMAIN p.put : p.put[k].id < Put(next, p.next)[k[1]]
    /\ \A cx \in DOMAIN p.index : p.index[cx] < Put(next, p.next)[cx[1]]

\* Every version that stays or comes has its content.
GoodBodies(p) ==
    /\ \A k \in DOMAIN p.put :
        <<k[1], p.put[k].id>> \in (DOMAIN bodies \ p.free) \cup DOMAIN p.body
    /\ \A k \in DOMAIN versions \ (p.drop \cup DOMAIN p.put) :
        <<k[1], versions[k].id>> \in p.free => <<k[1], versions[k].id>> \in DOMAIN p.body
    /\ \A ci \in DOMAIN p.body \cap DOMAIN bodies : Used(ci[1], ci[2]) => p.body[ci] = bodies[ci]

Good(p) == GoodRows(p) /\ GoodNext(p) /\ GoodBodies(p)

\* The settings after a step are of their types.
SettingsOK ==
    /\ DOMAIN modes \subseteq Scopes /\ \A x \in DOMAIN modes : modes[x] \in AllModes
    /\ DOMAIN configs \subseteq Scopes /\ \A x \in DOMAIN configs : configs[x] \in AllLevels

ContentKept ==
    \A ci \in DOMAIN bodies \cap DOMAIN bodies' : Used(ci[1], ci[2]) => bodies'[ci] = bodies[ci]

\* What the tables hold after the rows of a plan went and came.
After(p) ==
    /\ DOMAIN versions' = (DOMAIN versions \ p.drop) \cup DOMAIN p.put
    /\ \A k \in DOMAIN p.put : versions'[k] = p.put[k]
    /\ \A k \in (DOMAIN versions \ p.drop) \ DOMAIN p.put : versions'[k] = versions[k]
    /\ DOMAIN bodies' = (DOMAIN bodies \ p.free) \cup DOMAIN p.body
    /\ \A ci \in DOMAIN p.body : bodies'[ci] = p.body[ci]
    /\ \A ci \in (DOMAIN bodies \ p.free) \ DOMAIN p.body : bodies'[ci] = bodies[ci]
    /\ DOMAIN fingerprints' = DOMAIN fingerprints \cup DOMAIN p.index
    /\ \A cx \in DOMAIN p.index : fingerprints'[cx] = p.index[cx]
    /\ \A cx \in DOMAIN fingerprints \ DOMAIN p.index : fingerprints'[cx] = fingerprints[cx]
    /\ DOMAIN next' = DOMAIN next \cup DOMAIN p.next
    /\ \A c \in DOMAIN p.next : next'[c] = p.next[c]
    /\ \A c \in DOMAIN next \ DOMAIN p.next : next'[c] = next[c]
    /\ next' = [c \in DOMAIN next' |-> next'[c]]

LEMMA RowsAfter ==
    ASSUME NEW p, Apply(p)
    PROVE  After(p)
  BY DEF After, Apply, Put, Without

\* A key is its three parts.
LEMMA KeyParts ==
    ASSUME NEW k \in Keys
    PROVE  /\ k = <<k[1], k[2], k[3]>> /\ k[1] \in Contexts /\ k[2] \in Subjects
           /\ k[3] \in 1..MaxVersion
  BY SMT DEF Keys

\* The index of ids says of each id who holds it.
LEMMA UsedBy ==
    ASSUME UsagesExact, TypeOK, NEW c, NEW i
    PROVE  Used(c, i) <=> \E k \in DOMAIN versions : k[1] = c /\ versions[k].id = i
<1>1. ASSUME NEW k \in DOMAIN versions PROVE Used(k[1], versions[k].id)
  <2> DEFINE u == <<k[1], versions[k].id, k[2], k[3]>>
  <2>1. u \in usages
    BY DEF UsagesExact
  <2>2. u[1] = k[1] /\ u[2] = versions[k].id
    OBVIOUS
  <2> HIDE DEF u
  <2> QED  BY <2>1, <2>2 DEF Used
<1>2. ASSUME NEW u \in usages
      PROVE  \E k \in DOMAIN versions : k[1] = u[1] /\ versions[k].id = u[2]
  <2>1. PICK k \in DOMAIN versions : u = <<k[1], versions[k].id, k[2], k[3]>>
    BY DEF UsagesExact
  <2> QED  BY <2>1
<1> QED  BY <1>1, <1>2, SMT DEF Used

-----------------------------------------------------------------------------
\* A good plan keeps the types of the tables.
LEMMA ApplyTypes ==
    ASSUME TypeOK, UsagesExact, NEW p, GoodRows(p), GoodNext(p), Apply(p), SettingsOK'
    PROVE  TypeOK'
<1> USE RegistryAssumption
<1>0. After(p)
  BY RowsAfter
<1>1. /\ DOMAIN versions' \subseteq Keys
      /\ \A k \in DOMAIN versions' : versions'[k] \in [id : Ids, deleted : BOOLEAN]
  BY <1>0 DEF After, TypeOK, GoodRows
<1>2. /\ DOMAIN bodies' \subseteq Contexts \X Ids
      /\ \A ci \in DOMAIN bodies' : bodies'[ci] \in Contents
  BY <1>0 DEF After, TypeOK, GoodRows
<1>3. /\ DOMAIN fingerprints' \subseteq Contexts \X Contents
      /\ \A cx \in DOMAIN fingerprints' : fingerprints'[cx] \in Ids
  BY <1>0 DEF After, TypeOK, GoodRows
<1>4. refby' \subseteq Keys \X Ids
  BY DEF TypeOK, GoodRows, Apply, RefbyAfter
<1>5. next' \in [Contexts -> 1..(MaxId + 1)]
  <2>1. next \in [Contexts -> 1..(MaxId + 1)]
    BY DEF TypeOK
  <2>2. DOMAIN next' = Contexts
    BY <2>1, <1>0 DEF After, GoodNext
  <2>3. \A c \in Contexts : next'[c] \in 1..(MaxId + 1)
    BY <2>1, <1>0 DEF After, GoodNext
  <2> QED  BY <2>2, <2>3, <1>0 DEF After
<1>6. contexts' \subseteq Contexts
  BY KeyParts DEF TypeOK, GoodRows, Apply
<1>7. usages' \subseteq Contexts \X Ids \X Subjects \X (1..MaxVersion)
  <2>1. \A k \in DOMAIN p.put :
           <<k[1], p.put[k].id, k[2], k[3]>> \in Contexts \X Ids \X Subjects \X (1..MaxVersion)
    BY KeyParts DEF GoodRows
  <2> QED  BY <2>1 DEF TypeOK, Apply, UsagesAfter, Ids
<1> QED  BY <1>1, <1>2, <1>3, <1>4, <1>5, <1>6, <1>7 DEF TypeOK, SettingsOK

\* The index of ids stays exact: what leaves it are the usages of the versions
\* that went or were overwritten, what enters it those that came.
LEMMA ApplyUsages ==
    ASSUME TypeOK, UsagesExact, NEW p, GoodRows(p), Apply(p)
    PROVE  UsagesExact'
<1> DEFINE U(k) == <<k[1], versions[k].id, k[2], k[3]>>
           gone == p.drop \cup (DOMAIN p.put \cap DOMAIN versions)
<1>0. After(p)
  BY RowsAfter
<1>1. usages = {U(k) : k \in DOMAIN versions}
  BY DEF UsagesExact
<1>2. usages' = (usages \ {U(k) : k \in gone}) \cup {<<k[1], p.put[k].id, k[2], k[3]>> : k \in DOMAIN p.put}
  BY DEF Apply, UsagesAfter
<1>3. gone \subseteq DOMAIN versions
  BY DEF GoodRows
<1>4. ASSUME NEW k \in DOMAIN versions, NEW j \in DOMAIN versions, U(k) = U(j) PROVE k = j
  BY <1>4, KeyParts DEF TypeOK
<1>5. usages \ {U(k) : k \in gone} = {U(k) : k \in DOMAIN versions \ gone}
  <2> HIDE DEF gone, U
  <2> QED  BY <1>1, <1>3, <1>4
<1>6. {U(k) : k \in DOMAIN versions \ gone}
        = {<<k[1], versions'[k].id, k[2], k[3]>> : k \in DOMAIN versions \ gone}
  <2>1. \A k \in DOMAIN versions \ gone : versions'[k] = versions[k]
    BY <1>0 DEF After
  <2> QED  BY <2>1
<1>7. {<<k[1], p.put[k].id, k[2], k[3]>> : k \in DOMAIN p.put}
        = {<<k[1], versions'[k].id, k[2], k[3]>> : k \in DOMAIN p.put}
  BY <1>0, SMT DEF After
<1>8. DOMAIN versions' = (DOMAIN versions \ gone) \cup DOMAIN p.put
  BY <1>0 DEF After
<1>9. usages' = {<<k[1], versions'[k].id, k[2], k[3]>> : k \in DOMAIN versions'}
  <2> HIDE DEF gone, U
  <2> QED  BY <1>2, <1>5, <1>6, <1>7, <1>8
<1> QED  BY <1>9 DEF UsagesExact

\* No version loses its content, the counter stays ahead, and every context
\* with a version is listed.
LEMMA ApplyRest ==
    ASSUME IInv, NEW p, Good(p), Apply(p)
    PROVE  BodyPresent' /\ NextFresh' /\ ContextsListed' /\ ContentKept
<1> USE RegistryAssumption DEF IInv, Good
<1>0. After(p)
  BY RowsAfter
<1>1. BodyPresent'
  BY <1>0 DEF After, BodyPresent, GoodBodies
<1>2. NextFresh'
  <2>1. \A c \in Contexts : c \in DOMAIN next /\ next[c] \in Nat /\ next'[c] >= next[c]
    BY <1>0, SMT DEF After, TypeOK, GoodNext
  <2>2. Put(next, p.next) = next'
    BY DEF Apply
  <2>3. ASSUME NEW k \in DOMAIN versions' PROVE versions'[k].id < next'[k[1]]
    <3>1. CASE k \in DOMAIN p.put
      BY <3>1, <2>2, <1>0 DEF After, GoodNext
    <3>2. CASE k \notin DOMAIN p.put
      <4>1. k \in DOMAIN versions /\ versions'[k] = versions[k]
        BY <3>2, <1>0 DEF After
      <4>2. versions[k].id < next[k[1]] /\ k[1] \in Contexts /\ versions[k].id \in Nat
        BY <4>1, KeyParts, SMT DEF NextFresh, TypeOK, Ids
      <4>3. next'[k[1]] \in Nat
        BY <4>2, <2>1, <1>0, SMT DEF After, TypeOK, GoodNext
      <4> QED  BY <4>1, <4>2, <4>3, <2>1, SMT
    <3> QED  BY <3>1, <3>2
  <2>4. ASSUME NEW cx \in DOMAIN fingerprints' PROVE fingerprints'[cx] < next'[cx[1]]
    <3>1. CASE cx \in DOMAIN p.index
      BY <3>1, <2>2, <1>0 DEF After, GoodNext
    <3>2. CASE cx \notin DOMAIN p.index
      <4>1. cx \in DOMAIN fingerprints /\ fingerprints'[cx] = fingerprints[cx]
        BY <3>2, <1>0 DEF After
      <4>2. fingerprints[cx] < next[cx[1]] /\ cx[1] \in Contexts /\ fingerprints[cx] \in Nat
        BY <4>1, SMT DEF NextFresh, TypeOK, Ids
      <4>3. next'[cx[1]] \in Nat
        BY <4>2, <2>1, <1>0, SMT DEF After, TypeOK, GoodNext
      <4> QED  BY <4>1, <4>2, <4>3, <2>1, SMT
    <3> QED  BY <3>1, <3>2
  <2> QED  BY <2>3, <2>4 DEF NextFresh
<1>3. ContextsListed'
  BY <1>0 DEF After, ContextsListed, ListContexts, Apply
<1>4. ContentKept
  BY <1>0 DEF After, ContentKept, GoodBodies
<1> QED  BY <1>1, <1>2, <1>3, <1>4

-----------------------------------------------------------------------------
\* The fields of the plans that only remove or only hide.
LEMMA NoPlanFields ==
    /\ NoPlan.drop = {} /\ NoPlan.free = {} /\ NoPlan.ref = {}
    /\ DOMAIN NoPlan.put = {} /\ DOMAIN NoPlan.body = {} /\ DOMAIN NoPlan.index = {}
    /\ DOMAIN NoPlan.next = {}
  BY DEF NoPlan, Nothing

LEMMA NoPlanGood ==
    ASSUME IInv
    PROVE  Good(NoPlan)
  BY NoPlanFields DEF Good, GoodRows, GoodNext, GoodBodies

Freed(K, also) == {<<k[1], versions[k].id>> : k \in {j \in K : ~StillUsed(j, also)}} \cap DOMAIN bodies

LEMMA HardDeleteFields ==
    ASSUME NEW K, NEW also
    PROVE  LET p == HardDelete(K, also)
           IN /\ p.drop = K /\ p.free = Freed(K, also) /\ p.ref = {}
              /\ DOMAIN p.put = {} /\ DOMAIN p.body = {} /\ DOMAIN p.index = {} /\ DOMAIN p.next = {}
  BY DEF HardDelete, Freed, NoPlan, Nothing

\* Content a hard delete frees is held only by the version itself and by
\* versions of the same subject that "also" names.
LEMMA HoldersGo ==
    ASSUME TypeOK, UsagesExact, NEW j \in DOMAIN versions, NEW also, ~StillUsed(j, also),
           NEW k \in DOMAIN versions, k[1] = j[1], versions[k].id = versions[j].id
    PROVE  k[2] = j[2] /\ (k[3] = j[3] \/ <<k[2], k[3]>> \in also)
<1> DEFINE u == <<k[1], versions[k].id, k[2], k[3]>>
<1>1. u \in usages
  BY DEF UsagesExact
<1>2. u[1] = j[1] /\ u[2] = versions[j].id /\ u[3] = k[2] /\ u[4] = k[3]
  OBVIOUS
<1> HIDE DEF u
<1> QED  BY <1>1, <1>2 DEF StillUsed

Closed(K, also) ==
    \A j \in K, k \in DOMAIN versions :
        k[1] = j[1] /\ k[2] = j[2] /\ <<k[2], k[3]>> \in also => k \in K

LEMMA FreedHolders ==
    ASSUME IInv, NEW K \in SUBSET DOMAIN versions, NEW also, Closed(K, also),
           NEW k \in DOMAIN versions, <<k[1], versions[k].id>> \in Freed(K, also)
    PROVE  k \in K
<1>1. PICK j \in K : ~StillUsed(j, also) /\ <<k[1], versions[k].id>> = <<j[1], versions[j].id>>
  BY DEF Freed
<1>2. k[2] = j[2] /\ (k[3] = j[3] \/ <<k[2], k[3]>> \in also)
  BY <1>1, HoldersGo DEF IInv
<1>3. k[1] = j[1]
  BY <1>1
<1>4. CASE k[3] = j[3]
  <2>1. k = j
    BY <1>2, <1>3, <1>4, KeyParts DEF IInv, TypeOK
  <2> QED  BY <2>1
<1> QED  BY <1>2, <1>3, <1>4 DEF Closed

LEMMA HardDeleteGood ==
    ASSUME IInv, NEW K \in SUBSET DOMAIN versions, NEW also, Closed(K, also)
    PROVE  Good(HardDelete(K, also))
<1> DEFINE p == HardDelete(K, also)
<1>1. /\ p.drop = K /\ p.free = Freed(K, also) /\ p.ref = {}
      /\ DOMAIN p.put = {} /\ DOMAIN p.body = {} /\ DOMAIN p.index = {} /\ DOMAIN p.next = {}
  BY HardDeleteFields
<1> HIDE DEF p
<1>2. GoodRows(p) /\ GoodNext(p)
  BY <1>1 DEF GoodRows, GoodNext, Freed
<1>3. GoodBodies(p)
  BY <1>1, FreedHolders DEF GoodBodies
<1> QED  BY <1>2, <1>3 DEF Good, p

LEMMA SoftDeleteGood ==
    ASSUME IInv, NEW K \in SUBSET DOMAIN versions
    PROVE  Good(SoftDelete(K))
<1> DEFINE p == SoftDelete(K)
<1>1. /\ p.drop = {} /\ p.free = {} /\ p.ref = {}
      /\ DOMAIN p.put = K /\ DOMAIN p.body = {} /\ DOMAIN p.index = {} /\ DOMAIN p.next = {}
      /\ \A k \in K : p.put[k] = [versions[k] EXCEPT !.deleted = TRUE]
  BY DEF SoftDelete, NoPlan, Nothing
<1> HIDE DEF p
<1>2. ASSUME NEW k \in K
      PROVE  p.put[k] \in [id : Ids, deleted : BOOLEAN] /\ p.put[k].id = versions[k].id
  <2>1. versions[k] \in [id : Ids, deleted : BOOLEAN]
    BY DEF IInv, TypeOK
  <2>2. p.put[k] = [versions[k] EXCEPT !.deleted = TRUE]
    BY <1>1
  <2> HIDE DEF Ids
  <2> QED  BY <2>1, <2>2
<1>3. GoodRows(p)
  BY <1>1, <1>2 DEF GoodRows, IInv, TypeOK
<1>4. GoodNext(p)
  <2>1. Put(next, p.next) = next
    BY <1>1 DEF Put, IInv, TypeOK
  <2> QED  BY <1>1, <1>2, <2>1 DEF GoodNext, IInv, NextFresh
<1>5. GoodBodies(p)
  BY <1>1, <1>2 DEF GoodBodies, IInv, BodyPresent
<1> QED  BY <1>3, <1>4, <1>5 DEF Good, p

-----------------------------------------------------------------------------
\* The plan of a registration.
LEMMA NewVersionNat ==
    ASSUME NEW c, NEW s
    PROVE  NewVersion(c, s) \in Nat /\ NewVersion(c, s) >= 1
<1> USE RegistryAssumption
<1>1. Rows(c, s) \in SUBSET (1..MaxVersion)
  BY DEF Rows
<1>2. CASE Rows(c, s) # {}
  <2>1. Max(Rows(c, s)) \in 1..MaxVersion
    BY <1>1, <1>2, MaxInSet
  <2> QED  BY <2>1, <1>2, SMT DEF NewVersion
<1> QED  BY <1>2, SMT DEF NewVersion

Triples == (Contexts \cup {Here}) \X Subjects \X Int

LEMMA LatestEntity ==
    ASSUME IInv, NEW c \in Contexts, NEW s \in Subjects, Live(c, s) # {}
    PROVE  Entity(c, s, Max(Live(c, s))) \in Contents
<1> USE RegistryAssumption
<1>1. Live(c, s) \in SUBSET (1..MaxVersion) /\ Live(c, s) \subseteq Rows(c, s)
  BY DEF Live, Rows
<1>2. Max(Live(c, s)) \in Rows(c, s)
  BY <1>1, MaxInSet
<1> DEFINE k == <<c, s, Max(Live(c, s))>>
<1>3. k \in DOMAIN versions
  BY <1>2 DEF Rows
<1>4. k[1] = c
  OBVIOUS
<1>5. <<c, versions[k].id>> \in DOMAIN bodies
  BY <1>3, <1>4 DEF IInv, BodyPresent
<1> QED  BY <1>5 DEF IInv, TypeOK, Entity

LEMMA PopulateTypes ==
    ASSUME IInv, NEW c \in Contexts, NEW s \in Subjects, NEW d \in Drafts, NEW import \in BOOLEAN,
           d.text = Empty => ~import /\ Live(c, s) # {}
    PROVE  Populate(c, s, d, import) \in [text : Texts, refs : SUBSET Triples, cv : Nat]
<1> USE RegistryAssumption
<1>1. d.refs \in SUBSET Triples /\ (d.text # Empty => d.text \in Texts) /\ d.cv \in Nat
  BY SMT DEF Triples, Texts
<1>2. NewVersion(c, s) \in Nat /\ 0 \in Nat
  BY NewVersionNat, SMT
<1>3. CASE d.text = Empty
  <2> DEFINE old == Entity(c, s, Max(Live(c, s)))
  <2>1. old \in Contents
    BY <1>3, LatestEntity
  <2> HIDE DEF old
  <2>2. old.text \in Texts /\ old.refs \in SUBSET Triples
    BY <2>1, SMT DEF Contents, Triples
  <2>3. \E n \in Nat : Populate(c, s, d, import) = [text |-> old.text, refs |-> old.refs, cv |-> n]
    BY <1>2, <1>3 DEF Populate, old
  <2> QED  BY <2>2, <2>3, SMT
<1>4. CASE d.text # Empty
  <2>1. \E n \in Nat : Populate(c, s, d, import) = [text |-> d.text, refs |-> d.refs, cv |-> n]
    BY <1>1, <1>2, <1>4 DEF Populate
  <2> QED  BY <1>1, <1>4, <2>1, SMT
<1> QED  BY <1>3, <1>4

LEMMA CanonicalizeTypes ==
    ASSUME IInv, NEW c \in Contexts, NEW raw \in [text : Texts, refs : SUBSET Triples, cv : Nat],
           Resolves(c, raw.refs)
    PROVE  Canonicalize(c, raw) \in Contents
<1> USE RegistryAssumption
<1> DEFINE Stored == (Contexts \cup {Here}) \X Subjects \X (1..MaxVersion)
<1>1. ASSUME NEW r \in raw.refs PROVE Concrete(c, r) \in Stored
  <2> DEFINE e == Concrete(c, r)
  <2>1. r \in Triples
    OBVIOUS
  <2>2. e[1] = r[1] /\ e = <<e[1], e[2], e[3]>>
    <3>1. r = <<r[1], r[2], r[3]>>
      BY <2>1, SMT DEF Triples
    <3>2. e = r \/ \E v : e = <<r[1], r[2], v>>
      BY DEF Concrete
    <3> QED  BY <3>1, <3>2, SMT
  <2>3. RefTarget(c, e) \in Keys
    BY DEF Resolves, IInv, TypeOK
  <2> HIDE DEF e
  <2>4. e[2] \in Subjects /\ e[3] \in 1..MaxVersion
    BY <2>3 DEF RefTarget, Keys
  <2> QED  BY <2>1, <2>2, <2>4 DEF Triples, e
<1> DEFINE refs == {Concrete(c, r) : r \in raw.refs}
<1>2. refs \in SUBSET Stored
  BY <1>1
<1>3. Canonicalize(c, raw) = [raw EXCEPT !.refs = refs]
  BY DEF Canonicalize
<1> HIDE DEF refs
<1> QED  BY <1>2, <1>3 DEF Contents

LEMMA AdvanceGood ==
    ASSUME IInv, NEW c \in Contexts, NEW id \in Ids
    PROVE  /\ DOMAIN Advance(c, id) \subseteq Contexts
           /\ \A e \in DOMAIN Advance(c, id) :
                Advance(c, id)[e] \in 1..(MaxId + 1) /\ Advance(c, id)[e] >= next[e]
           /\ id < Put(next, Advance(c, id))[c]
<1> USE RegistryAssumption
<1>1. DOMAIN next = Contexts /\ next[c] \in 1..(MaxId + 1) /\ id \in Nat /\ id <= MaxId
  BY SMT DEF IInv, TypeOK, Ids
<1>2. CASE id >= next[c]
  <2>1. Advance(c, id) = [e \in {c} |-> id + 1]
    BY <1>2 DEF Advance, Only
  <2> QED  BY <1>1, <1>2, <2>1, SMT DEF Put
<1>3. CASE ~(id >= next[c])
  <2>1. DOMAIN Advance(c, id) = {}
    BY <1>3 DEF Advance, Nothing
  <2>2. Put(next, Advance(c, id))[c] = next[c]
    BY <1>1, <2>1 DEF Put
  <2> QED  BY <1>1, <1>3, <2>1, <2>2, SMT
<1> QED  BY <1>2, <1>3

LEMMA RegisterPlanGood ==
    ASSUME IInv, NEW c \in Contexts, NEW s \in Subjects, NEW version \in 1..MaxVersion,
           NEW id \in Ids, NEW x \in Contents, MayStore(c, id, x)
    PROVE  Good(RegisterPlan(c, s, version, id, x))
<1> USE RegistryAssumption
<1> DEFINE p == RegisterPlan(c, s, version, id, x)
           k == <<c, s, version>>
           stale == {v \in Rows(c, s) : /\ v < version /\ v \notin Live(c, s)
                                        /\ versions[<<c, s, v>>].id = id}
           K == {k} \cap DOMAIN versions
           G == {<<c, s, v>> : v \in stale}
           also == {<<s, v>> : v \in stale}
<1>1. /\ p.drop = K \cup G /\ p.free = Freed(K, {}) \cup Freed(G, also)
      /\ p.put = Only(k, [id |-> id, deleted |-> FALSE])
      /\ p.body = Only(<<c, id>>, x) /\ p.index = Only(<<c, x>>, id)
      /\ p.ref = Edges(c, id, x) /\ p.next = Advance(c, id)
  BY DEF RegisterPlan, HardDelete, Freed, NoPlan
<1>2. K \in SUBSET DOMAIN versions /\ Closed(K, {})
  BY DEF Closed
<1>3. G \in SUBSET DOMAIN versions
  BY DEF Rows
<1>4. Closed(G, also)
  <2>1. SUFFICES ASSUME NEW j \in G, NEW e \in DOMAIN versions,
                        e[1] = j[1], e[2] = j[2], <<e[2], e[3]>> \in also
                 PROVE  e \in G
    BY DEF Closed
  <2> HIDE DEF stale
  <2>2. PICK v \in stale : j = <<c, s, v>>
    OBVIOUS
  <2>3. PICK w \in stale : <<e[2], e[3]>> = <<s, w>>
    BY <2>1
  <2>4. e = <<c, s, w>>
    BY <2>1, <2>2, <2>3, KeyParts DEF IInv, TypeOK
  <2> QED  BY <2>4
<1>5. Edges(c, id, x) \subseteq Keys \X Ids
  <2>1. ASSUME NEW r \in x.refs PROVE RefTarget(c, r) \in Keys
    <3>1. r \in (Contexts \cup {Here}) \X Subjects \X (1..MaxVersion)
      BY DEF Contents
    <3> QED  BY <3>1 DEF RefTarget, Keys
  <2> QED  BY <2>1, SMT DEF Edges
<1>6. k \in Keys /\ k[1] = c
  BY DEF Keys
<1>7. p.free \subseteq DOMAIN bodies
  BY <1>1 DEF Freed
<1> HIDE DEF p, k, K, G, also
<1> DEFINE row == [id |-> id, deleted |-> FALSE]
<1>8. row \in [id : Ids, deleted : BOOLEAN] /\ row.id = id
  BY DEF Ids
<1>9. /\ DOMAIN p.put = {k} /\ p.put[k] = row
      /\ DOMAIN p.body = {<<c, id>>} /\ p.body[<<c, id>>] = x
      /\ DOMAIN p.index = {<<c, x>>} /\ p.index[<<c, x>>] = id
  BY <1>1 DEF Only
<1> HIDE DEF row
<1>10. GoodRows(p)
  <2>1. p.drop \subseteq DOMAIN versions /\ p.ref \subseteq Keys \X Ids
    BY <1>1, <1>2, <1>3, <1>5
  <2>2. /\ DOMAIN p.put \subseteq Keys
        /\ DOMAIN p.body \subseteq Contexts \X Ids /\ DOMAIN p.index \subseteq Contexts \X Contents
    BY <1>6, <1>9, SMT
  <2> QED  BY <1>7, <1>8, <1>9, <2>1, <2>2 DEF GoodRows
<1>11. GoodNext(p)
  <2>1. /\ DOMAIN p.next \subseteq Contexts
        /\ \A e \in DOMAIN p.next : p.next[e] \in 1..(MaxId + 1) /\ p.next[e] >= next[e]
        /\ id < Put(next, p.next)[c]
    BY <1>1, AdvanceGood
  <2>2. \A j \in DOMAIN p.put : p.put[j].id = id /\ j[1] = c
    BY <1>6, <1>8, <1>9
  <2>3. \A cx \in DOMAIN p.index : p.index[cx] = id /\ cx[1] = c
    BY <1>9, SMT
  <2> QED  BY <2>1, <2>2, <2>3 DEF GoodNext
<1>12. GoodBodies(p)
  <2>1. ASSUME NEW e \in DOMAIN versions \ (p.drop \cup DOMAIN p.put)
        PROVE  <<e[1], versions[e].id>> \notin p.free
    BY <1>1, <1>2, <1>3, <1>4, FreedHolders
  <2>2. <<c, id>> \in DOMAIN bodies /\ Used(c, id) => bodies[<<c, id>>] = x
    BY DEF MayStore, Look
  <2> QED  BY <1>6, <1>8, <1>9, <2>1, <2>2, SMT DEF GoodBodies
<1> QED  BY <1>10, <1>11, <1>12 DEF Good, p

\* The id a registration takes is an id, and it takes no other content.
LEMMA ChosenId ==
    ASSUME IInv, NEW c \in Contexts, NEW d \in Drafts, NEW x
    PROVE  ChooseId(c, d, x) \in Int /\ ChooseId(c, d, x) >= -1
<1> USE RegistryAssumption
<1> DEFINE hit == {i \in HashLookup(c, x) : d.id < 0 \/ d.id = i}
<1>1. hit \subseteq 0..MaxId
  BY DEF HashLookup
<1>2. CASE hit # {}
  <2>1. ChooseId(c, d, x) \in hit
    BY <1>2 DEF ChooseId
  <2> QED  BY <1>1, <2>1, SMT
<1>3. CASE hit = {}
  BY <1>3, SMT DEF ChooseId
<1> QED  BY <1>2, <1>3

LEMMA NextUnused ==
    ASSUME IInv, NEW c \in Contexts
    PROVE  ~Used(c, next[c])
<1> SUFFICES ASSUME Used(c, next[c]) PROVE FALSE
  OBVIOUS
<1>1. PICK k \in DOMAIN versions : k[1] = c /\ versions[k].id = next[c]
  BY UsedBy DEF IInv
<1>2. next[c] \in Int
  BY RegistryAssumption, SMT DEF IInv, TypeOK
<1> QED  BY <1>1, <1>2, SMT DEF IInv, NextFresh

\* What a registration stores, where, and under which id.
ContentOf(c, s, d) == Canonicalize(c, Populate(c, s, d, ModeInScope(c, s) = "IMPORT"))
VersionOf(c, s, d) == IF d.version <= 0 THEN NewVersion(c, s) ELSE d.version
IdOf(c, s, d) ==
    LET chosen == ChooseId(c, d, ContentOf(c, s, d)) IN IF chosen >= 0 THEN chosen ELSE next[c]

LEMMA Registration ==
    ASSUME IInv, NEW c \in Contexts, NEW s \in Subjects, NEW d \in Drafts, RegisterSchema(c, s, d)
    PROVE  /\ VersionOf(c, s, d) \in 1..MaxVersion
           /\ IdOf(c, s, d) \in Ids
           /\ ContentOf(c, s, d) \in Contents
           /\ MayStore(c, IdOf(c, s, d), ContentOf(c, s, d))
           /\ Apply(RegisterPlan(c, s, VersionOf(c, s, d), IdOf(c, s, d), ContentOf(c, s, d)))
<1> DEFINE import == ModeInScope(c, s) = "IMPORT"
           raw == Populate(c, s, d, import)
           x == Canonicalize(c, raw)
           chosen == ChooseId(c, d, x)
           version == IF d.version <= 0 THEN NewVersion(c, s) ELSE d.version
           id == IF chosen >= 0 THEN chosen ELSE next[c]
<1>0. x = ContentOf(c, s, d) /\ id = IdOf(c, s, d) /\ version = VersionOf(c, s, d)
  BY DEF ContentOf, IdOf, VersionOf
<1>1. /\ d.text = Empty => ~import /\ Live(c, s) # {}
      /\ Resolves(c, raw.refs)
      /\ chosen >= 0 => MayStore(c, id, x)
      /\ version <= MaxVersion /\ id <= MaxId
      /\ Apply(RegisterPlan(c, s, version, id, x))
  BY DEF RegisterSchema
<1>2. import \in BOOLEAN
  OBVIOUS
<1> HIDE DEF import
<1>3. raw \in [text : Texts, refs : SUBSET Triples, cv : Nat]
  BY <1>1, <1>2, PopulateTypes
<1> HIDE DEF raw
<1>4. x \in Contents
  BY <1>1, <1>3, CanonicalizeTypes
<1> HIDE DEF x
<1>5. chosen \in Int /\ chosen >= -1
  BY ChosenId
<1> HIDE DEF chosen
<1>6. next[c] \in Nat /\ MaxId \in Nat /\ MaxVersion \in Nat /\ d.version \in Int
  BY RegistryAssumption, SMT DEF IInv, TypeOK
<1>7. id \in Ids
  <2>1. id \in Nat
    BY <1>5, <1>6, SMT
  <2> HIDE DEF id
  <2> QED  BY <1>1, <1>6, <2>1, SMT DEF Ids
<1>8. version \in 1..MaxVersion
  <2>1. NewVersion(c, s) \in Nat /\ NewVersion(c, s) >= 1
    BY NewVersionNat
  <2>2. version \in Nat /\ version >= 1
    BY <1>6, <2>1, SMT
  <2> HIDE DEF version
  <2> QED  BY <1>1, <1>6, <2>2, SMT
<1>9. MayStore(c, id, x)
  BY <1>1, NextUnused DEF MayStore
<1> HIDE DEF version, id
<1> QED  BY <1>0, <1>1, <1>4, <1>7, <1>8, <1>9

LEMMA RegisterGood ==
    ASSUME IInv, NEW c \in Contexts, NEW s \in Subjects, NEW d \in Drafts, RegisterSchema(c, s, d)
    PROVE  \E p : Good(p) /\ Apply(p)
  BY Registration, RegisterPlanGood

-----------------------------------------------------------------------------
\* One step per verb.
LEMMA GoodStep ==
    ASSUME IInv, NEW p, Good(p), Apply(p), SettingsOK'
    PROVE  IInv' /\ ContentKept
<1>1. TypeOK'
  BY ApplyTypes DEF IInv, Good
<1>2. UsagesExact'
  BY ApplyUsages DEF IInv, Good
<1>3. BodyPresent' /\ NextFresh' /\ ContextsListed' /\ ContentKept
  BY ApplyRest DEF IInv, Good
<1> QED  BY <1>1, <1>2, <1>3 DEF IInv

LEMMA Forgotten ==
    ASSUME TypeOK, NEW K, NEW L, modes' = Without(modes, K), configs' = Without(configs, L)
    PROVE  SettingsOK'
  BY DEF TypeOK, SettingsOK, Without

LEMMA SettingsKept ==
    ASSUME TypeOK, UNCHANGED settings
    PROVE  SettingsOK'
  BY DEF TypeOK, SettingsOK, settings

LEMMA SubjectRows ==
    ASSUME TypeOK, NEW c, NEW s
    PROVE  LET keys == {<<c, s, v>> : v \in Rows(c, s)}
           IN keys \in SUBSET DOMAIN versions /\ Closed(keys, {<<s, v>> : v \in Rows(c, s)})
<1> DEFINE keys == {<<c, s, v>> : v \in Rows(c, s)}
<1>1. keys \in SUBSET DOMAIN versions
  BY DEF Rows
<1>2. ASSUME NEW j \in keys, NEW k \in DOMAIN versions, k[1] = j[1], k[2] = j[2] PROVE k \in keys
  <2>1. j[1] = c /\ j[2] = s
    BY SMT
  <2>2. k = <<c, s, k[3]>> /\ k[3] \in 1..MaxVersion
    BY <1>2, <2>1, KeyParts DEF TypeOK
  <2> QED  BY <2>2 DEF Rows
<1> HIDE DEF keys
<1>3. Closed(keys, {<<s, v>> : v \in Rows(c, s)})
  BY <1>2 DEF Closed
<1> QED  BY <1>1, <1>3 DEF keys

LEMMA DeleteSubjectStep ==
    ASSUME IInv, NEW c \in Contexts, NEW s \in Subjects, NEW permanent \in BOOLEAN,
           DeleteSubject(c, s, permanent)
    PROVE  IInv' /\ ContentKept
<1>1. CASE permanent
  <2> DEFINE keys == {<<c, s, v>> : v \in Rows(c, s)}
             also == {<<s, v>> : v \in Rows(c, s)}
  <2>1. Apply(HardDelete(keys, also)) /\ UNCHANGED settings
    BY <1>1 DEF DeleteSubject
  <2>2. keys \in SUBSET DOMAIN versions /\ Closed(keys, also)
    BY SubjectRows DEF IInv
  <2> HIDE DEF keys, also
  <2>3. Good(HardDelete(keys, also))
    BY <2>2, HardDeleteGood
  <2>4. SettingsOK'
    BY <2>1, SettingsKept DEF IInv
  <2> QED  BY <2>1, <2>3, <2>4, GoodStep
<1>2. CASE ~permanent
  <2> DEFINE keys == {<<c, s, v>> : v \in Live(c, s)}
  <2>1. Apply(SoftDelete(keys)) /\ ForgetSettings(c, s)
    BY <1>2 DEF DeleteSubject
  <2>2. keys \in SUBSET DOMAIN versions
    BY DEF Live, Rows
  <2> HIDE DEF keys
  <2>3. Good(SoftDelete(keys))
    BY <2>2, SoftDeleteGood
  <2>4. SettingsOK'
    BY <2>1, Forgotten DEF IInv, ForgetSettings
  <2> QED  BY <2>1, <2>3, <2>4, GoodStep
<1> QED  BY <1>1, <1>2

LEMMA DeleteVersionStep ==
    ASSUME IInv, NEW c \in Contexts, NEW s \in Subjects, NEW v \in 1..MaxVersion,
           NEW permanent \in BOOLEAN, DeleteSubjectVersion(c, s, v, permanent)
    PROVE  IInv' /\ ContentKept
<1> DEFINE K == {<<c, s, v>>}
           p == IF permanent THEN HardDelete(K, {}) ELSE SoftDelete(K)
<1>1. K \in SUBSET DOMAIN versions /\ Closed(K, {})
  BY DEF DeleteSubjectVersion, Rows, Closed
<1>2. Apply(p)
  BY DEF DeleteSubjectVersion
<1>3. SettingsOK'
  BY Forgotten, SettingsKept DEF DeleteSubjectVersion, ForgetSettings, IInv
<1> HIDE DEF K
<1>4. Good(p)
  BY <1>1, HardDeleteGood, SoftDeleteGood
<1> HIDE DEF p
<1> QED  BY <1>2, <1>3, <1>4, GoodStep

LEMMA SetModeStep ==
    ASSUME IInv, NEW scope \in SetScopes, NEW m \in Modes, NEW force \in BOOLEAN,
           SetMode(scope, m, force)
    PROVE  IInv' /\ ContentKept
<1> USE RegistryAssumption
<1> DEFINE K == InScope(scope)
           also == {<<k[2], k[3]>> : k \in K}
           p == HardDelete(K, also)
<1>1. K \in SUBSET DOMAIN versions
  BY DEF InScope
<1>2. Closed(K, also)
  BY DEF Closed, InScope
<1>3. SettingsOK'
  <2>1. modes' = Put(modes, Only(scope, m)) /\ configs' = configs
    BY DEF SetMode
  <2>2. scope \in Scopes /\ m \in AllModes
    OBVIOUS
  <2> HIDE DEF Scopes, AllModes
  <2> QED  BY <2>1, <2>2 DEF SettingsOK, IInv, TypeOK, Put, Only
<1>4. Apply(p) \/ Apply(NoPlan)
  BY DEF SetMode
<1> HIDE DEF K, also
<1>5. Good(p)
  BY <1>1, <1>2, HardDeleteGood
<1> HIDE DEF p
<1> QED  BY <1>3, <1>4, <1>5, NoPlanGood, GoodStep

\* Verbs that leave the tables alone.
LEMMA TablesKept ==
    ASSUME IInv, UNCHANGED tables, contexts' \subseteq Contexts, SettingsOK',
           \A k \in DOMAIN versions : k[1] \in ListContexts'
    PROVE  IInv' /\ ContentKept
<1> USE DEF tables
<1>1. TypeOK'
  BY DEF IInv, TypeOK, SettingsOK
<1>2. UsagesExact' /\ BodyPresent' /\ NextFresh'
  BY DEF IInv, UsagesExact, BodyPresent, NextFresh
<1>3. ContextsListed' /\ ContentKept
  BY DEF ContextsListed, ContentKept
<1> QED  BY <1>1, <1>2, <1>3 DEF IInv

LEMMA DeleteContextStep ==
    ASSUME IInv, NEW c \in Contexts, DeleteContext(c)
    PROVE  IInv' /\ ContentKept
<1>1. SettingsOK'
  BY Forgotten DEF DeleteContext, IInv
<1>2. ASSUME NEW k \in DOMAIN versions PROVE k[1] # c
  <2>1. k = <<k[1], k[2], k[3]>> /\ k[2] \in Subjects /\ k[3] \in 1..MaxVersion
    BY KeyParts DEF IInv, TypeOK
  <2>2. k[3] \in Rows(k[1], k[2])
    BY <2>1 DEF Rows
  <2> QED  BY <2>1, <2>2 DEF DeleteContext, SubjectNames
<1>3. \A k \in DOMAIN versions : k[1] \in ListContexts'
  BY <1>2 DEF DeleteContext, IInv, ContextsListed, ListContexts
<1> QED  BY <1>1, <1>3, TablesKept DEF DeleteContext, IInv, TypeOK

LEMMA SettingStep ==
    ASSUME IInv, NEW scope \in SetScopes,
           \/ DeleteMode(scope) \/ DeleteSubjectConfig(scope)
           \/ \E l \in Levels : UpdateCompatibility(scope, l)
    PROVE  IInv' /\ ContentKept
<1> USE RegistryAssumption
<1>1. UNCHANGED <<tables, contexts>>
  BY DEF DeleteMode, DeleteSubjectConfig, UpdateCompatibility
<1>2. SettingsOK'
  <2>1. ASSUME NEW l \in Levels, UpdateCompatibility(scope, l) PROVE SettingsOK'
    <3>1. modes' = modes /\ configs' = Put(configs, Only(scope, l))
      BY <2>1 DEF UpdateCompatibility
    <3>2. scope \in Scopes /\ l \in AllLevels
      OBVIOUS
    <3> HIDE DEF Scopes, AllModes, AllLevels
    <3> QED  BY <3>1, <3>2 DEF SettingsOK, IInv, TypeOK, Put, Only
  <2>2. SettingsOK
    BY DEF IInv, TypeOK, SettingsOK
  <2> HIDE DEF Scopes, AllModes, AllLevels
  <2>3. CASE DeleteMode(scope)
    BY <2>2, <2>3 DEF DeleteMode, SettingsOK, Without
  <2>4. CASE DeleteSubjectConfig(scope)
    BY <2>2, <2>4 DEF DeleteSubjectConfig, SettingsOK, Without
  <2> QED  BY <2>1, <2>3, <2>4
<1>3. \A k \in DOMAIN versions : k[1] \in ListContexts'
  BY <1>1 DEF IInv, ContextsListed, ListContexts
<1> QED  BY <1>1, <1>2, <1>3, TablesKept DEF IInv, TypeOK

-----------------------------------------------------------------------------
LEMMA Initially == Init => IInv
  BY RegistryAssumption, SMT DEF Init, IInv, TypeOK, UsagesExact, BodyPresent, NextFresh, ContextsListed,
       Nothing

LEMMA Stuttering ==
    ASSUME IInv, UNCHANGED vars
    PROVE  IInv' /\ ContentKept
  BY DEF vars, tables, settings, IInv, TypeOK, UsagesExact, BodyPresent, NextFresh, ContextsListed,
         ListContexts, ContentKept

LEMMA Inductive ==
    ASSUME IInv, [Next]_vars
    PROVE  IInv' /\ ContentKept
<1>1. ASSUME NEW c \in Contexts, NEW s \in Subjects, NEW d \in Drafts, RegisterSchema(c, s, d)
      PROVE  IInv' /\ ContentKept
  <2>1. PICK p : Good(p) /\ Apply(p)
    BY <1>1, RegisterGood
  <2>2. SettingsOK'
    BY <1>1, SettingsKept DEF RegisterSchema, IInv
  <2> QED  BY <2>1, <2>2, GoodStep
<1> QED
  BY <1>1, DeleteSubjectStep, DeleteVersionStep, DeleteContextStep, SetModeStep, SettingStep,
     Stuttering DEF Next

LEMMA Invariant == Spec => []IInv
  BY Initially, Inductive, PTL DEF Spec

\* Every table keeps the shape its key and record types give it, for any
\* contexts, subjects, requests and bounds.
THEOREM RegistryTypes == Spec => []TypeOK
<1>1. IInv => TypeOK
  BY DEF IInv
<1> QED  BY <1>1, Invariant, PTL

\* The incremental index of ids equals the one a restart rebuilds from the
\* version rows, whatever plan of whatever verb was applied (Snapshot::apply).
THEOREM UsagesAreExact == Spec => []UsagesExact
<1>1. IInv => UsagesExact
  BY DEF IInv
<1> QED  BY <1>1, Invariant, PTL

\* A hard delete, an overwrite and the purge of SetMode never free content that
\* a remaining version holds (hard_delete_writes).
THEOREM BodiesArePresent == Spec => []BodyPresent
<1>1. IInv => BodyPresent
  BY DEF IInv
<1> QED  BY <1>1, Invariant, PTL

\* The id counter is beyond every id in the rows and in the index (SetNextId).
THEOREM NextIsFresh == Spec => []NextFresh
<1>1. IInv => NextFresh
  BY DEF IInv
<1> QED  BY <1>1, Invariant, PTL

\* A context that holds versions is listed (known_contexts, DeleteContext).
THEOREM ContextsAreListed == Spec => []ContextsListed
<1>1. IInv => ContextsListed
  BY DEF IInv
<1> QED  BY <1>1, Invariant, PTL

\* The content of an id in use is never replaced, not by an import that names
\* the id nor by one the counter assigns (RegisterSchema::plan).
THEOREM ContentIsFixed == Spec => ContentFixed
<1>1. ASSUME IInv, [Next]_vars
      PROVE  [\A ci \in DOMAIN bodies \cap DOMAIN bodies' :
                Used(ci[1], ci[2]) => bodies'[ci] = bodies[ci]]_vars
  BY <1>1, Inductive DEF ContentKept
<1> QED  BY <1>1, Invariant, PTL DEF Spec, ContentFixed

-----------------------------------------------------------------------------
(***************************************************************************)
(* What a request leads to: the number in the metadata, the compatibility  *)
(* of all live versions, the answer to a repeated registration, and the    *)
(* freeze of a read-only scope.  A step of the registry is a registration, *)
(* a removal, a hiding of versions, or one that leaves the tables alone;   *)
(* in the last three no version comes.                                     *)
(***************************************************************************)
\* Clients set modes and levels of subjects only.
OwnScopes == \A scope \in SetScopes : scope[1] = "subject"
OneSubject(K) == \A j, k \in K : j[1] = k[1] /\ j[2] = k[2]

\* Soft-deleted versions K, to which no live schema refers, go for good.
Removes(K, also) ==
    /\ K \in SUBSET DOMAIN versions /\ Closed(K, also)
    /\ \A k \in K : versions[k].deleted /\ LiveReferrers(k[1], k[2], k[3]) = {}
    /\ \A j, k \in K : j # k => <<k[2], k[3]>> \in also
    /\ OwnScopes => OneSubject(K)
    /\ Apply(HardDelete(K, also))

\* Live versions K of one subject, to which no live schema refers, are hidden.
Hides(c, s, K) ==
    /\ K \in SUBSET DOMAIN versions
    /\ \A k \in K : k[1] = c /\ k[2] = s /\ LiveReferrers(c, s, k[3]) = {}
    /\ Allowed("modify", ModeInScope(c, s))
    /\ Apply(SoftDelete(K))

\* The tables hold what they held.
Keeps ==
    /\ DOMAIN versions' = DOMAIN versions /\ \A k \in DOMAIN versions : versions'[k] = versions[k]
    /\ DOMAIN bodies' = DOMAIN bodies /\ \A ci \in DOMAIN bodies : bodies'[ci] = bodies[ci]
    /\ DOMAIN fingerprints' = DOMAIN fingerprints
    /\ \A cx \in DOMAIN fingerprints : fingerprints'[cx] = fingerprints[cx]
    /\ refby' = refby

LEMMA NoPlanKeeps == Apply(NoPlan) => Keeps
<1> SUFFICES ASSUME Apply(NoPlan) PROVE Keeps
  OBVIOUS
<1>1. After(NoPlan)
  BY RowsAfter
<1>2. refby' = refby
  BY DEF Apply, RefbyAfter, NoPlan
<1> QED  BY <1>1, <1>2, NoPlanFields DEF After, Keeps

LEMMA DeleteSubjectKind ==
    ASSUME IInv, NEW c \in Contexts, NEW s \in Subjects, NEW permanent \in BOOLEAN,
           DeleteSubject(c, s, permanent)
    PROVE  (\E K, also : Removes(K, also)) \/ (\E K : Hides(c, s, K))
<1>1. CASE permanent
  <2> DEFINE keys == {<<c, s, v>> : v \in Rows(c, s)}
             also == {<<s, v>> : v \in Rows(c, s)}
  <2>1. /\ \A v \in Rows(c, s) : LiveReferrers(c, s, v) = {}
        /\ Live(c, s) = {}
        /\ Apply(HardDelete(keys, also))
    BY <1>1 DEF DeleteSubject
  <2>2. keys \in SUBSET DOMAIN versions /\ Closed(keys, also)
    BY SubjectRows DEF IInv
  <2>3. ASSUME NEW k \in keys
        PROVE  versions[k].deleted /\ LiveReferrers(k[1], k[2], k[3]) = {} /\ <<k[2], k[3]>> \in also
    <3>1. PICK v \in Rows(c, s) : k = <<c, s, v>>
      OBVIOUS
    <3>2. versions[<<c, s, v>>].deleted
      BY <2>1 DEF Live
    <3> QED  BY <2>1, <3>1, <3>2
  <2>4. OneSubject(keys)
    BY SMT DEF OneSubject
  <2> HIDE DEF keys, also
  <2>5. Removes(keys, also)
    BY <2>1, <2>2, <2>3, <2>4 DEF Removes
  <2> QED  BY <2>5
<1>2. CASE ~permanent
  <2> DEFINE keys == {<<c, s, v>> : v \in Live(c, s)}
  <2>1. /\ \A v \in Live(c, s) : LiveReferrers(c, s, v) = {}
        /\ Allowed("modify", ModeInScope(c, s))
        /\ Apply(SoftDelete(keys))
    BY <1>2 DEF DeleteSubject
  <2>2. keys \in SUBSET DOMAIN versions
    BY DEF Live, Rows
  <2>3. \A k \in keys : k[1] = c /\ k[2] = s /\ LiveReferrers(c, s, k[3]) = {}
    BY <2>1, SMT
  <2> HIDE DEF keys
  <2>4. Hides(c, s, keys)
    BY <2>1, <2>2, <2>3 DEF Hides
  <2> QED  BY <2>4
<1> QED  BY <1>1, <1>2

LEMMA DeleteVersionKind ==
    ASSUME IInv, NEW c \in Contexts, NEW s \in Subjects, NEW v \in 1..MaxVersion,
           NEW permanent \in BOOLEAN, DeleteSubjectVersion(c, s, v, permanent)
    PROVE  (\E K, also : Removes(K, also)) \/ (\E K : Hides(c, s, K))
<1> DEFINE k == <<c, s, v>>
<1>1. /\ v \in Rows(c, s) /\ (permanent <=> v \notin Live(c, s))
      /\ LiveReferrers(c, s, v) = {} /\ Allowed("modify", ModeInScope(c, s))
      /\ Apply(IF permanent THEN HardDelete({k}, {}) ELSE SoftDelete({k}))
  BY DEF DeleteSubjectVersion
<1>2. k \in DOMAIN versions /\ k[1] = c /\ k[2] = s /\ k[3] = v
  BY <1>1 DEF Rows
<1>3. permanent => versions[k].deleted
  BY <1>1 DEF Live
<1> HIDE DEF k
<1>4. CASE permanent
  <2>1. Removes({k}, {})
    BY <1>1, <1>2, <1>3, <1>4 DEF Removes, Closed, OneSubject
  <2> QED  BY <2>1
<1>5. CASE ~permanent
  <2>1. Hides(c, s, {k})
    BY <1>1, <1>2, <1>5 DEF Hides
  <2> QED  BY <2>1
<1> QED  BY <1>4, <1>5

LEMMA SetModeKind ==
    ASSUME IInv, NEW scope \in SetScopes, NEW m \in Modes, NEW force \in BOOLEAN,
           SetMode(scope, m, force)
    PROVE  Keeps \/ \E also : Removes(InScope(scope), also)
<1> DEFINE K == InScope(scope)
           also == {<<k[2], k[3]>> : k \in K}
<1>1. K \in SUBSET DOMAIN versions /\ Closed(K, also)
  BY DEF InScope, Closed
<1>2. \/ Apply(NoPlan)
      \/ /\ Apply(HardDelete(K, also))
         /\ \A k \in K : versions[k].deleted /\ LiveReferrers(k[1], k[2], k[3]) = {}
  BY DEF SetMode
<1>3. OwnScopes => OneSubject(K)
  <2> SUFFICES ASSUME OwnScopes, NEW j \in K, NEW k \in K PROVE j[1] = k[1] /\ j[2] = k[2]
    BY DEF OneSubject
  <2>1. scope[1] = "subject"
    BY DEF OwnScopes
  <2> QED  BY <2>1, SMT DEF InScope
<1> HIDE DEF K
<1>4. CASE Apply(NoPlan)
  BY <1>4, NoPlanKeeps
<1>5. CASE ~Apply(NoPlan)
  <2>1. Removes(K, also)
    BY <1>1, <1>2, <1>3, <1>5 DEF Removes
  <2> QED  BY <2>1 DEF K
<1> QED  BY <1>4, <1>5

\* Every step is of one of these kinds.
LEMMA Kinds ==
    ASSUME IInv, [Next]_vars
    PROVE  \/ \E c \in Contexts, s \in Subjects, d \in Drafts : RegisterSchema(c, s, d)
           \/ \E K, also : Removes(K, also)
           \/ \E c \in Contexts, s \in Subjects : \E K : Hides(c, s, K)
           \/ Keeps
<1>1. UNCHANGED tables => Keeps
  BY DEF tables, Keeps
<1>2. ASSUME NEW c \in Contexts, DeleteContext(c) PROVE Keeps
  BY <1>1, <1>2 DEF DeleteContext
<1>3. ASSUME NEW scope \in SetScopes,
             \/ DeleteMode(scope) \/ DeleteSubjectConfig(scope)
             \/ \E l \in Levels : UpdateCompatibility(scope, l)
      PROVE  Keeps
  BY <1>1, <1>3 DEF DeleteMode, DeleteSubjectConfig, UpdateCompatibility
<1>4. UNCHANGED vars => Keeps
  BY <1>1 DEF vars
<1> QED
  BY <1>2, <1>3, <1>4, DeleteSubjectKind, DeleteVersionKind, SetModeKind DEF Next

-----------------------------------------------------------------------------
(***************************************************************************)
(* What the kinds of steps do to the rows.                                 *)
(***************************************************************************)
\* No version and no content comes, and no version comes back to life.
Fewer ==
    /\ DOMAIN versions' \subseteq DOMAIN versions
    /\ \A k \in DOMAIN versions' : /\ versions'[k].id = versions[k].id
                                   /\ versions[k].deleted => versions'[k].deleted
    /\ DOMAIN bodies' \subseteq DOMAIN bodies /\ \A ci \in DOMAIN bodies' : bodies'[ci] = bodies[ci]
    /\ DOMAIN fingerprints' = DOMAIN fingerprints
    /\ \A cx \in DOMAIN fingerprints : fingerprints'[cx] = fingerprints[cx]

\* Version v of the subject came, live, with content x under id i; the versions
\* that went for it are soft-deleted ones of the id, or had its number.
Came(c, s, v, i, x) ==
    /\ <<c, s, v>> \in DOMAIN versions' /\ DOMAIN versions' \subseteq DOMAIN versions \cup {<<c, s, v>>}
    /\ versions'[<<c, s, v>>].id = i /\ ~versions'[<<c, s, v>>].deleted
    /\ \A k \in DOMAIN versions' : k # <<c, s, v>> => versions'[k] = versions[k]
    /\ \A k \in DOMAIN versions \ DOMAIN versions' :
        k[1] = c /\ k[2] = s /\ versions[k].deleted /\ versions[k].id = i
    /\ <<c, i>> \in DOMAIN bodies' /\ DOMAIN bodies' \subseteq DOMAIN bodies \cup {<<c, i>>}
    /\ bodies'[<<c, i>>] = x
    /\ \A ci \in DOMAIN bodies' : ci # <<c, i>> => bodies'[ci] = bodies[ci]
    /\ DOMAIN fingerprints' = DOMAIN fingerprints \cup {<<c, x>>} /\ fingerprints'[<<c, x>>] = i
    /\ \A cx \in DOMAIN fingerprints : cx # <<c, x>> => fingerprints'[cx] = fingerprints[cx]

\* What a removal leaves, row by row.
LEMMA RemovesRows ==
    ASSUME NEW K, NEW also, Removes(K, also)
    PROVE  /\ DOMAIN versions' = DOMAIN versions \ K
           /\ \A k \in DOMAIN versions' : versions'[k] = versions[k]
           /\ DOMAIN bodies' = DOMAIN bodies \ Freed(K, also)
           /\ \A ci \in DOMAIN bodies' : bodies'[ci] = bodies[ci]
           /\ Fewer
<1> DEFINE p == HardDelete(K, also)
<1>1. After(p)
  BY RowsAfter DEF Removes
<1>2. /\ p.drop = K /\ p.free = Freed(K, also)
      /\ DOMAIN p.put = {} /\ DOMAIN p.body = {} /\ DOMAIN p.index = {}
  BY HardDeleteFields
<1> HIDE DEF p
<1> QED  BY <1>1, <1>2 DEF After, Fewer

LEMMA SoftDeleteFields ==
    ASSUME NEW K
    PROVE  LET p == SoftDelete(K)
           IN /\ p.drop = {} /\ p.free = {} /\ p.ref = {} /\ p.unref = {}
              /\ DOMAIN p.put = K /\ DOMAIN p.body = {} /\ DOMAIN p.index = {} /\ DOMAIN p.next = {}
              /\ \A k \in K : p.put[k] = [versions[k] EXCEPT !.deleted = TRUE]
  BY DEF SoftDelete, NoPlan, Nothing

\* What a soft delete leaves, row by row.
LEMMA HidesRows ==
    ASSUME IInv, NEW c, NEW s, NEW K, Hides(c, s, K)
    PROVE  /\ DOMAIN versions' = DOMAIN versions
           /\ \A k \in DOMAIN versions \ K : versions'[k] = versions[k]
           /\ \A k \in K : versions'[k].deleted /\ versions'[k].id = versions[k].id
           /\ DOMAIN bodies' = DOMAIN bodies
           /\ refby' = refby
           /\ Fewer
<1> DEFINE p == SoftDelete(K)
<1>1. After(p)
  BY RowsAfter DEF Hides
<1>2. /\ p.drop = {} /\ p.free = {} /\ p.ref = {} /\ p.unref = {}
      /\ DOMAIN p.put = K /\ DOMAIN p.body = {} /\ DOMAIN p.index = {}
      /\ \A k \in K : p.put[k] = [versions[k] EXCEPT !.deleted = TRUE]
  BY SoftDeleteFields
<1>3. refby' = refby
  BY <1>2 DEF Hides, Apply, RefbyAfter
<1> HIDE DEF p
<1>4. K \in SUBSET DOMAIN versions
  BY DEF Hides
<1>5. ASSUME NEW k \in K PROVE versions'[k].deleted /\ versions'[k].id = versions[k].id
  <2>1. versions[k] \in [id : Ids, deleted : BOOLEAN]
    BY <1>4 DEF IInv, TypeOK
  <2>2. versions'[k] = [versions[k] EXCEPT !.deleted = TRUE]
    BY <1>1, <1>2 DEF After
  <2> HIDE DEF Ids
  <2> QED  BY <2>1, <2>2
<1>6. /\ DOMAIN versions' = DOMAIN versions /\ \A k \in DOMAIN versions \ K : versions'[k] = versions[k]
      /\ DOMAIN bodies' = DOMAIN bodies /\ \A ci \in DOMAIN bodies : bodies'[ci] = bodies[ci]
      /\ DOMAIN fingerprints' = DOMAIN fingerprints
      /\ \A cx \in DOMAIN fingerprints : fingerprints'[cx] = fingerprints[cx]
  BY <1>1, <1>2, <1>4 DEF After
<1>7. Fewer
  BY <1>5, <1>6 DEF Fewer
<1> QED  BY <1>3, <1>5, <1>6, <1>7

\* The rows of a registration: K goes because its number is taken, the stale
\* ones because they are soft-deleted versions of the same id.
Stale(c, s, version, id) ==
    {v \in Rows(c, s) : v < version /\ v \notin Live(c, s) /\ versions[<<c, s, v>>].id = id}
StaleKeys(c, s, version, id)  == {<<c, s, v>> : v \in Stale(c, s, version, id)}
StaleNames(c, s, version, id) == {<<s, v>> : v \in Stale(c, s, version, id)}
Taken(c, s, version) == {<<c, s, version>>} \cap DOMAIN versions

LEMMA RegisterPlanGoes ==
    ASSUME NEW c, NEW s, NEW v, NEW i, NEW x
    PROVE  /\ RegisterPlan(c, s, v, i, x).drop = Taken(c, s, v) \cup StaleKeys(c, s, v, i)
           /\ RegisterPlan(c, s, v, i, x).free
                = Freed(Taken(c, s, v), {}) \cup Freed(StaleKeys(c, s, v, i), StaleNames(c, s, v, i))
           /\ RegisterPlan(c, s, v, i, x).unref
                = HardDelete(Taken(c, s, v), {}).unref
                    \cup HardDelete(StaleKeys(c, s, v, i), StaleNames(c, s, v, i)).unref
  BY DEF RegisterPlan, HardDelete, Freed, NoPlan, Taken, Stale, StaleKeys, StaleNames

LEMMA RegisterPlanComes ==
    ASSUME NEW c, NEW s, NEW v, NEW i, NEW x
    PROVE  LET p == RegisterPlan(c, s, v, i, x)
           IN /\ DOMAIN p.put = {<<c, s, v>>}
              /\ p.put[<<c, s, v>>].id = i /\ ~p.put[<<c, s, v>>].deleted
              /\ DOMAIN p.body = {<<c, i>>} /\ p.body[<<c, i>>] = x
              /\ DOMAIN p.index = {<<c, x>>} /\ p.index[<<c, x>>] = i
              /\ p.ref = Edges(c, i, x)
<1> DEFINE p == RegisterPlan(c, s, v, i, x)
<1>1. /\ p.put = Only(<<c, s, v>>, [id |-> i, deleted |-> FALSE])
      /\ p.body = Only(<<c, i>>, x) /\ p.index = Only(<<c, x>>, i) /\ p.ref = Edges(c, i, x)
  BY DEF RegisterPlan
<1> HIDE DEF p
<1>2. /\ DOMAIN p.put = {<<c, s, v>>} /\ p.put[<<c, s, v>>] = [id |-> i, deleted |-> FALSE]
      /\ DOMAIN p.body = {<<c, i>>} /\ p.body[<<c, i>>] = x
      /\ DOMAIN p.index = {<<c, x>>} /\ p.index[<<c, x>>] = i
  BY <1>1 DEF Only
<1> QED  BY <1>1, <1>2, SMT DEF p

LEMMA StaleRows ==
    ASSUME NEW c, NEW s, NEW v, NEW i
    PROVE  \A k \in StaleKeys(c, s, v, i) :
               k \in DOMAIN versions /\ k[1] = c /\ k[2] = s /\ versions[k].deleted /\ versions[k].id = i
<1> TAKE k \in StaleKeys(c, s, v, i)
<1>1. PICK w \in Stale(c, s, v, i) : k = <<c, s, w>>
  BY DEF StaleKeys
<1>2. /\ <<c, s, w>> \in DOMAIN versions /\ versions[<<c, s, w>>].deleted
      /\ versions[<<c, s, w>>].id = i
  BY DEF Stale, Rows, Live
<1> QED  BY <1>1, <1>2

LEMMA RegisterRows ==
    ASSUME NEW c, NEW s, NEW v, NEW i, NEW x, Apply(RegisterPlan(c, s, v, i, x))
    PROVE  Came(c, s, v, i, x)
<1> DEFINE p == RegisterPlan(c, s, v, i, x)
           k == <<c, s, v>>
<1>1. After(p)
  BY RowsAfter
<1>2. /\ p.drop = Taken(c, s, v) \cup StaleKeys(c, s, v, i)
      /\ DOMAIN p.put = {k} /\ p.put[k].id = i /\ ~p.put[k].deleted
      /\ DOMAIN p.body = {<<c, i>>} /\ p.body[<<c, i>>] = x
      /\ DOMAIN p.index = {<<c, x>>} /\ p.index[<<c, x>>] = i
  BY RegisterPlanGoes, RegisterPlanComes, SMT
<1> HIDE DEF p
<1>3. \A j \in Taken(c, s, v) : j = k
  BY DEF Taken
<1> HIDE DEF k
<1>4. /\ k \in DOMAIN versions' /\ DOMAIN versions' \subseteq DOMAIN versions \cup {k}
      /\ versions'[k].id = i /\ ~versions'[k].deleted
      /\ \A j \in DOMAIN versions' : j # k => versions'[j] = versions[j]
  BY <1>1, <1>2 DEF After
<1>5. ASSUME NEW j \in DOMAIN versions \ DOMAIN versions'
      PROVE  j[1] = c /\ j[2] = s /\ versions[j].deleted /\ versions[j].id = i
  <2>1. j \in StaleKeys(c, s, v, i)
    BY <1>1, <1>2, <1>3 DEF After
  <2> QED  BY <2>1, StaleRows, SMT
<1>6. /\ <<c, i>> \in DOMAIN bodies' /\ DOMAIN bodies' \subseteq DOMAIN bodies \cup {<<c, i>>}
      /\ bodies'[<<c, i>>] = x
      /\ \A ci \in DOMAIN bodies' : ci # <<c, i>> => bodies'[ci] = bodies[ci]
  BY <1>1, <1>2 DEF After
<1>7. /\ DOMAIN fingerprints' = DOMAIN fingerprints \cup {<<c, x>>} /\ fingerprints'[<<c, x>>] = i
      /\ \A cx \in DOMAIN fingerprints : cx # <<c, x>> => fingerprints'[cx] = fingerprints[cx]
  BY <1>1, <1>2 DEF After
<1> QED  BY <1>4, <1>5, <1>6, <1>7 DEF Came, k

-----------------------------------------------------------------------------
\* A request stores content x as version v under id i.
Registers(c, s, d, v, i, x) ==
    /\ RegisterSchema(c, s, d)
    /\ v = VersionOf(c, s, d) /\ i = IdOf(c, s, d) /\ x = ContentOf(c, s, d)
    /\ Apply(RegisterPlan(c, s, v, i, x)) /\ Came(c, s, v, i, x)

LEMMA RegistersOnce ==
    ASSUME IInv, NEW c \in Contexts, NEW s \in Subjects, NEW d \in Drafts, RegisterSchema(c, s, d)
    PROVE  \E v \in 1..MaxVersion, i \in Ids, x \in Contents : Registers(c, s, d, v, i, x)
<1>1. /\ VersionOf(c, s, d) \in 1..MaxVersion /\ IdOf(c, s, d) \in Ids
      /\ ContentOf(c, s, d) \in Contents
      /\ Apply(RegisterPlan(c, s, VersionOf(c, s, d), IdOf(c, s, d), ContentOf(c, s, d)))
  BY Registration
<1>2. PICK v \in 1..MaxVersion, i \in Ids, x \in Contents :
          /\ v = VersionOf(c, s, d) /\ i = IdOf(c, s, d) /\ x = ContentOf(c, s, d)
          /\ Apply(RegisterPlan(c, s, v, i, x))
  BY <1>1
<1>3. Came(c, s, v, i, x)
  BY <1>2, RegisterRows
<1> QED  BY <1>2, <1>3 DEF Registers

\* Every step is a registration whose version came, or brings nothing.
LEMMA Steps ==
    ASSUME IInv, [Next]_vars
    PROVE  \/ \E c \in Contexts, s \in Subjects, d \in Drafts :
                 \E v \in 1..MaxVersion, i \in Ids, x \in Contents : Registers(c, s, d, v, i, x)
           \/ Fewer
<1>1. Keeps => Fewer
  BY DEF Keeps, Fewer
<1> QED  BY <1>1, Kinds, RegistersOnce, RemovesRows, HidesRows

\* A version that keeps its id keeps its content.
LEMMA EntityStays ==
    ASSUME IInv, [Next]_vars, NEW k \in DOMAIN versions, k \in DOMAIN versions',
           versions'[k].id = versions[k].id
    PROVE  Entity(k[1], k[2], k[3])' = Entity(k[1], k[2], k[3])
<1> DEFINE ci == <<k[1], versions[k].id>>
<1>1. IInv' /\ ContentKept
  BY Inductive
<1>2. k = <<k[1], k[2], k[3]>>
  BY KeyParts DEF IInv, TypeOK
<1>3. ci \in DOMAIN bodies /\ ci \in DOMAIN bodies'
  BY <1>1 DEF IInv, BodyPresent
<1>4. Used(ci[1], ci[2])
  BY UsedBy DEF IInv
<1>5. bodies'[ci] = bodies[ci]
  BY <1>1, <1>3, <1>4 DEF ContentKept
<1>6. Entity(k[1], k[2], k[3]) = bodies[ci]
  BY <1>2 DEF Entity
<1>7. Entity(k[1], k[2], k[3])' = bodies'[ci]
  BY <1>2 DEF Entity
<1> QED  BY <1>5, <1>6, <1>7

\* The version that came holds what was registered.
LEMMA EntityCame ==
    ASSUME NEW c, NEW s, NEW v, NEW i, NEW x, Came(c, s, v, i, x)
    PROVE  Entity(c, s, v)' = x
  BY DEF Entity, Came

\* An import that carries a number in its metadata names that version.
NumberedImports == \A d \in Drafts : d.id >= 0 /\ d.cv # 0 => d.version = d.cv

\* The number in the metadata is 0 or that of the new version.
LEMMA ContentNumber ==
    ASSUME NumberedImports, NEW c, NEW s, NEW d \in Drafts, RegisterSchema(c, s, d)
    PROVE  ContentOf(c, s, d).cv \in {0, VersionOf(c, s, d)}
<1> DEFINE import == ModeInScope(c, s) = "IMPORT"
           raw == Populate(c, s, d, import)
<1>1. ~import => d.version \in {0, -1, NewVersion(c, s)}
  BY DEF RegisterSchema
<1>2. d.version \in Int /\ d.cv \in Nat /\ NewVersion(c, s) \in Nat
  BY RegistryAssumption, NewVersionNat, SMT
<1>3. \/ \E t, r : raw = [text |-> t, refs |-> r, cv |-> 0]
      \/ ~import /\ \E t, r : raw = [text |-> t, refs |-> r, cv |-> NewVersion(c, s)]
      \/ import /\ \E t, r : raw = [text |-> t, refs |-> r, cv |-> d.cv]
  BY DEF Populate
<1>4. ContentOf(c, s, d) = [raw EXCEPT !.refs = {Concrete(c, r) : r \in raw.refs}]
  BY DEF ContentOf, Canonicalize
<1> HIDE DEF raw
<1>5. ContentOf(c, s, d).cv = raw.cv
  BY <1>3, <1>4
<1>6. raw.cv = 0 \/ (~import /\ raw.cv = NewVersion(c, s)) \/ (import /\ raw.cv = d.cv)
  BY <1>3, SMT
<1>7. import => d.id >= 0
  BY DEF RegisterSchema, Allowed
<1> HIDE DEF import
<1>8. ~import => VersionOf(c, s, d) = NewVersion(c, s)
  BY <1>1, <1>2, SMT DEF VersionOf
<1>9. import /\ d.cv # 0 => VersionOf(c, s, d) = d.cv
  BY <1>2, <1>7, SMT DEF VersionOf, NumberedImports
<1> QED  BY <1>5, <1>6, <1>8, <1>9

\* confluent:version in the metadata of a stored version is the version it is
\* stored as, however ids are shared, imported, deleted or registered again,
\* and whatever number a registration sends, as long as imports, whose metadata
\* is stored as it comes, carry the number of the version they name or none
\* (populate_from_previous, RegisterSchema::plan).
THEOREM NumbersTrackVersions ==
    ASSUME NumberedImports
    PROVE  Spec => []NumberTracksVersion
<1>1. Init => NumberTracksVersion
  BY DEF Init, NumberTracksVersion, Nothing
<1>2. ASSUME IInv, NumberTracksVersion, [Next]_vars PROVE NumberTracksVersion'
  <2>1. CASE Fewer
    BY <1>2, <2>1, EntityStays DEF Fewer, NumberTracksVersion
  <2>2. ASSUME NEW c \in Contexts, NEW s \in Subjects, NEW d \in Drafts,
               NEW v \in 1..MaxVersion, NEW i \in Ids, NEW x \in Contents,
               Registers(c, s, d, v, i, x)
        PROVE  NumberTracksVersion'
    <3>1. Came(c, s, v, i, x) /\ RegisterSchema(c, s, d) /\ v = VersionOf(c, s, d) /\ x = ContentOf(c, s, d)
      BY <2>2 DEF Registers
    <3>2. Entity(c, s, v)'.cv \in {0, v}
      BY <3>1, EntityCame, ContentNumber
    <3>3. SUFFICES ASSUME NEW k \in DOMAIN versions'
                   PROVE  Entity(k[1], k[2], k[3])'.cv \in {0, k[3]}
      BY DEF NumberTracksVersion
    <3>4. CASE k = <<c, s, v>>
      BY <3>2, <3>4
    <3>5. CASE k # <<c, s, v>>
      <4>1. k \in DOMAIN versions /\ versions'[k] = versions[k]
        BY <3>1, <3>5 DEF Came
      <4> QED  BY <1>2, <4>1, EntityStays DEF NumberTracksVersion
    <3> QED  BY <3>4, <3>5
  <2> QED  BY <1>2, <2>1, <2>2, Steps
<1> QED  BY <1>1, <1>2, Invariant, PTL DEF Spec

-----------------------------------------------------------------------------
\* The subject has the rows it had among the live ones.
LiveSame(c, s) ==
    \A v \in 1..MaxVersion :
        LET k == <<c, s, v>>
        IN /\ (k \in DOMAIN versions /\ ~versions[k].deleted)
                <=> (k \in DOMAIN versions' /\ ~versions'[k].deleted)
           /\ k \in DOMAIN versions /\ ~versions[k].deleted => versions'[k] = versions[k]

LEMMA LiveSameRows ==
    ASSUME NEW c, NEW s, LiveSame(c, s)
    PROVE  LiveRows(c, s)' = LiveRows(c, s)
<1>1. Live(c, s)' = Live(c, s)
  BY DEF Live, Rows, LiveSame
<1>2. \A v \in Live(c, s) : versions'[<<c, s, v>>] = versions[<<c, s, v>>]
  BY DEF Live, Rows, LiveSame
<1> QED  BY <1>1, <1>2 DEF LiveRows

\* No step adds, hides or removes a live version of a subject whose mode is
\* read-only, be the mode its own, its context's or the registry's; a purge on
\* entering IMPORT removes hidden versions only (modegate::check, SetMode).
THEOREM ReadonlyScopesAreFrozen == Spec => ReadonlyFreezes
<1>1. ASSUME IInv, [Next]_vars, NEW c \in Contexts, NEW s \in Subjects,
             ModeInScope(c, s) \in {"READONLY", "READONLY_OVERRIDE"}
      PROVE  LiveRows(c, s)' = LiveRows(c, s)
  <2>1. \A intent \in {"write", "import", "modify"} : ~Allowed(intent, ModeInScope(c, s))
    BY <1>1 DEF Allowed
  <2>2. ASSUME NEW c1 \in Contexts, NEW s1 \in Subjects, NEW d \in Drafts,
               NEW v1 \in 1..MaxVersion, NEW i \in Ids, NEW x \in Contents,
               Registers(c1, s1, d, v1, i, x)
        PROVE  LiveSame(c, s)
    <3>1. Allowed(IF d.id >= 0 THEN "import" ELSE "write", ModeInScope(c1, s1)) /\ Came(c1, s1, v1, i, x)
      BY <2>2 DEF Registers, RegisterSchema
    <3>2. c1 # c \/ s1 # s
      BY <2>1, <3>1
    <3>3. SUFFICES ASSUME NEW v \in 1..MaxVersion
                   PROVE  LET k == <<c, s, v>>
                          IN /\ k \in DOMAIN versions <=> k \in DOMAIN versions'
                             /\ k \in DOMAIN versions => versions'[k] = versions[k]
      BY DEF LiveSame
    <3> DEFINE k == <<c, s, v>>
    <3>4. k # <<c1, s1, v1>> /\ ~(k[1] = c1 /\ k[2] = s1)
      BY <3>2
    <3> HIDE DEF k
    <3>5. (k \in DOMAIN versions <=> k \in DOMAIN versions') /\ (k \in DOMAIN versions => versions'[k] = versions[k])
      BY <3>1, <3>4 DEF Came
    <3> QED  BY <3>5 DEF k
  <2>3. ASSUME NEW K, NEW also, Removes(K, also)
        PROVE  LiveSame(c, s)
    <3>1. \A k \in K : versions[k].deleted
      BY <2>3 DEF Removes
    <3>2. /\ DOMAIN versions' = DOMAIN versions \ K
          /\ \A k \in DOMAIN versions' : versions'[k] = versions[k]
      BY <2>3, RemovesRows
    <3> QED  BY <3>1, <3>2 DEF LiveSame
  <2>4. ASSUME NEW c1 \in Contexts, NEW s1 \in Subjects, NEW K, Hides(c1, s1, K)
        PROVE  LiveSame(c, s)
    <3>1. /\ DOMAIN versions' = DOMAIN versions
          /\ \A k \in DOMAIN versions \ K : versions'[k] = versions[k]
      BY <1>1, <2>4, HidesRows
    <3>2. Allowed("modify", ModeInScope(c1, s1)) /\ \A k \in K : k[1] = c1 /\ k[2] = s1
      BY <2>4 DEF Hides
    <3>3. c1 # c \/ s1 # s
      BY <2>1, <3>2
    <3>4. \A v \in 1..MaxVersion : <<c, s, v>> \notin K
      BY <3>2, <3>3
    <3> QED  BY <3>1, <3>4 DEF LiveSame
  <2>5. Keeps => LiveSame(c, s)
    BY DEF Keeps, LiveSame
  <2>6. LiveSame(c, s)
    BY <1>1, <2>2, <2>3, <2>4, <2>5, Kinds, RegistersOnce
  <2> QED  BY <2>6, LiveSameRows
<1>2. ASSUME IInv, [Next]_vars
      PROVE  [\A c \in Contexts, s \in Subjects :
                ModeInScope(c, s) \in {"READONLY", "READONLY_OVERRIDE"} =>
                    LiveRows(c, s)' = LiveRows(c, s)]_vars
  BY <1>1, <1>2
<1> QED  BY <1>2, Invariant, PTL DEF Spec, ReadonlyFreezes

-----------------------------------------------------------------------------
\* No request names an id: schemas are registered, never imported.
NoImports == \A d \in Drafts : d.id = -1

LEMMA NotImporting ==
    ASSUME NEW c, NEW s, NEW d \in Drafts, d.id = -1, RegisterSchema(c, s, d)
    PROVE  ModeInScope(c, s) = "READWRITE"
<1>1. Allowed(IF d.id >= 0 THEN "import" ELSE "write", ModeInScope(c, s))
  BY DEF RegisterSchema
<1>2. Allowed("write", ModeInScope(c, s))
  BY <1>1, SMT
<1> QED  BY <1>2 DEF Allowed

\* The next version is beyond every version there is.
LEMMA NewVersionBeyond ==
    ASSUME NEW c, NEW s, NEW v \in Rows(c, s)
    PROVE  v < NewVersion(c, s)
<1>1. Rows(c, s) \in SUBSET (1..MaxVersion) /\ MaxVersion \in Nat
  BY RegistryAssumption DEF Rows
<1>2. Max(Rows(c, s)) \in Rows(c, s) /\ Max(Rows(c, s)) >= v
  BY <1>1, MaxInSet
<1>3. NewVersion(c, s) = Max(Rows(c, s)) + 1
  BY DEF NewVersion
<1>4. v \in Int /\ Max(Rows(c, s)) \in Int
  BY <1>1, <1>2, SMT
<1> QED  BY <1>2, <1>3, <1>4, SMT

\* Outside imports a registration stores the next version.
LEMMA TakesNextVersion ==
    ASSUME NEW c, NEW s, NEW d \in Drafts, RegisterSchema(c, s, d),
           ModeInScope(c, s) # "IMPORT" \/ d.version <= 0
    PROVE  VersionOf(c, s, d) = NewVersion(c, s)
<1>1. d.version \in Int /\ NewVersion(c, s) \in Nat
  BY RegistryAssumption, NewVersionNat, SMT
<1>2. ModeInScope(c, s) # "IMPORT" => d.version \in {0, -1, NewVersion(c, s)}
  BY DEF RegisterSchema
<1> QED  BY <1>1, <1>2, SMT DEF VersionOf

\* A live version after the step that did not just come was live before it,
\* with the same content.
LEMMA LiveStays ==
    ASSUME IInv, [Next]_vars, NEW c, NEW s, NEW v \in Live(c, s)', <<c, s, v>> \in DOMAIN versions,
           versions'[<<c, s, v>>].id = versions[<<c, s, v>>].id,
           versions[<<c, s, v>>].deleted => versions'[<<c, s, v>>].deleted
    PROVE  v \in Live(c, s) /\ Entity(c, s, v)' = Entity(c, s, v)
<1>1. v \in 1..MaxVersion /\ <<c, s, v>> \in DOMAIN versions' /\ ~versions'[<<c, s, v>>].deleted
  BY DEF Live, Rows
<1>2. v \in Live(c, s)
  BY <1>1 DEF Live, Rows
<1> DEFINE k == <<c, s, v>>
<1>3. k[1] = c /\ k[2] = s /\ k[3] = v
  OBVIOUS
<1> HIDE DEF k
<1>4. Entity(k[1], k[2], k[3])' = Entity(k[1], k[2], k[3])
  BY <1>1, EntityStays DEF k
<1> QED  BY <1>2, <1>3, <1>4

\* The only level clients set is the configured one, and it is transitive.
OneLevel == Levels \subseteq {DefaultLevel} /\ Transitive(DefaultLevel)
LevelsSet == \A x \in DOMAIN configs : configs[x] = DefaultLevel

LEMMA LevelsStay ==
    ASSUME OneLevel, LevelsSet, [Next]_vars
    PROVE  LevelsSet'
<1> DEFINE Shrinks == \E L : configs' = Without(configs, L)
<1>1. Shrinks => LevelsSet'
  BY DEF LevelsSet, Without
<1>2. configs' = configs => LevelsSet'
  BY DEF LevelsSet
<1>3. ASSUME NEW scope \in SetScopes, NEW l \in Levels, configs' = Put(configs, Only(scope, l))
      PROVE  LevelsSet'
  BY <1>3 DEF LevelsSet, Put, Only, OneLevel
<1>4. ASSUME NEW c \in Contexts, NEW s \in Subjects
      PROVE  /\ \A d \in Drafts : RegisterSchema(c, s, d) => configs' = configs
             /\ \A permanent \in BOOLEAN : DeleteSubject(c, s, permanent) => configs' = configs \/ Shrinks
             /\ \A v \in 1..MaxVersion, permanent \in BOOLEAN :
                    DeleteSubjectVersion(c, s, v, permanent) => configs' = configs \/ Shrinks
  BY DEF RegisterSchema, DeleteSubject, DeleteSubjectVersion, ForgetSettings, settings
<1>5. ASSUME NEW scope \in SetScopes
      PROVE  /\ \A m \in Modes, force \in BOOLEAN : SetMode(scope, m, force) => configs' = configs
             /\ DeleteMode(scope) => configs' = configs
             /\ DeleteSubjectConfig(scope) => Shrinks
             /\ \A l \in Levels : UpdateCompatibility(scope, l) => LevelsSet'
  BY <1>3 DEF SetMode, DeleteMode, DeleteSubjectConfig, UpdateCompatibility
<1>6. \A c \in Contexts : DeleteContext(c) => Shrinks
  BY DEF DeleteContext
<1>7. UNCHANGED vars => configs' = configs
  BY DEF vars, settings
<1> HIDE DEF Shrinks
<1>8. CASE Next
  BY <1>1, <1>2, <1>4, <1>5, <1>6, <1>8 DEF Next
<1> QED  BY <1>2, <1>7, <1>8

\* Under that level the check of a registration covers every live version.
LEMMA ChecksAll ==
    ASSUME OneLevel, LevelsSet, NEW c, NEW s, NEW d \in Drafts, RegisterSchema(c, s, d),
           ModeInScope(c, s) # "IMPORT", NEW v \in Live(c, s)
    PROVE  Follows(DefaultLevel, ContentOf(c, s, d).text, Entity(c, s, v).text)
<1>1. Compatible(c, s, ContentOf(c, s, d).text)
  BY DEF RegisterSchema, ContentOf
<1>2. ConfigInScope(c, s) = DefaultLevel
  BY DEF ConfigInScope, Look, LevelsSet
<1>3. DefaultLevel # "NONE" /\ Transitive(DefaultLevel)
  BY DEF OneLevel, Transitive
<1> QED  BY <1>1, <1>2, <1>3 DEF Compatible

\* With one transitive level and no imports every live version follows every
\* older live one, whatever was deleted or registered again in between
\* (check_compatibility, get_next_version).
THEOREM AlwaysTransitivelyCompatible ==
    ASSUME NoImports, OneLevel
    PROVE  Spec => []TransitivelyCompatible
<1> DEFINE Inv == LevelsSet /\ TransitivelyCompatible
<1>1. Init => Inv
  BY DEF Init, LevelsSet, TransitivelyCompatible, Live, Rows, Nothing
<1>2. ASSUME IInv, Inv, [Next]_vars PROVE TransitivelyCompatible'
  <2>1. SUFFICES ASSUME NEW c \in Contexts, NEW s \in Subjects, NEW v \in Live(c, s)', NEW w \in Live(c, s)',
                        v < w
                 PROVE  Follows(DefaultLevel, Entity(c, s, w).text, Entity(c, s, v).text)'
    BY DEF TransitivelyCompatible
  <2>2. ASSUME v \in Live(c, s), Entity(c, s, v)' = Entity(c, s, v),
               w \in Live(c, s), Entity(c, s, w)' = Entity(c, s, w)
        PROVE  Follows(DefaultLevel, Entity(c, s, w).text, Entity(c, s, v).text)'
    <3>1. Follows(DefaultLevel, Entity(c, s, w).text, Entity(c, s, v).text)
      BY <1>2, <2>1, <2>2 DEF TransitivelyCompatible
    <3> QED  BY <2>2, <3>1 DEF Follows
  <2>3. v \in 1..MaxVersion /\ w \in 1..MaxVersion /\ MaxVersion \in Nat
    BY RegistryAssumption DEF Live, Rows
  <2>4. CASE Fewer
    <3>1. <<c, s, v>> \in DOMAIN versions' /\ <<c, s, w>> \in DOMAIN versions'
      BY DEF Live, Rows
    <3> QED  BY <1>2, <2>2, <2>4, <3>1, LiveStays DEF Fewer
  <2>5. ASSUME NEW c1 \in Contexts, NEW s1 \in Subjects, NEW d \in Drafts,
               NEW v1 \in 1..MaxVersion, NEW i \in Ids, NEW x \in Contents,
               Registers(c1, s1, d, v1, i, x)
        PROVE  Follows(DefaultLevel, Entity(c, s, w).text, Entity(c, s, v).text)'
    <3>1. Came(c1, s1, v1, i, x) /\ RegisterSchema(c1, s1, d) /\ x = ContentOf(c1, s1, d)
      BY <2>5 DEF Registers
    <3>2. ModeInScope(c1, s1) # "IMPORT" /\ v1 = NewVersion(c1, s1)
      BY <2>5, NotImporting, TakesNextVersion DEF NoImports, Registers
    <3>3. ASSUME NEW u \in Live(c, s)', <<c, s, u>> # <<c1, s1, v1>>
          PROVE  u \in Live(c, s) /\ Entity(c, s, u)' = Entity(c, s, u)
      <4>1. <<c, s, u>> \in DOMAIN versions'
        BY DEF Live, Rows
      <4>2. <<c, s, u>> \in DOMAIN versions /\ versions'[<<c, s, u>>] = versions[<<c, s, u>>]
        BY <3>1, <3>3, <4>1 DEF Came
      <4> QED  BY <1>2, <4>2, LiveStays
    <3>4. CASE <<c, s, v>> # <<c1, s1, v1>> /\ <<c, s, w>> # <<c1, s1, v1>>
      BY <2>2, <3>3, <3>4
    <3>5. CASE <<c, s, w>> = <<c1, s1, v1>>
      <4>1. c = c1 /\ s = s1 /\ w = v1 /\ <<c, s, v>> # <<c1, s1, v1>>
        BY <2>1, <2>3, <3>5, SMT
      <4>2. v \in Live(c, s) /\ Entity(c, s, v)' = Entity(c, s, v)
        BY <3>3, <4>1
      <4>3. Entity(c, s, w)' = x
        BY <3>1, <4>1, EntityCame
      <4>4. Follows(DefaultLevel, x.text, Entity(c, s, v).text)
        BY <1>2, <3>1, <3>2, <4>1, <4>2, ChecksAll
      <4> QED  BY <4>2, <4>3, <4>4 DEF Follows
    <3>6. CASE <<c, s, v>> = <<c1, s1, v1>> /\ <<c, s, w>> # <<c1, s1, v1>>
      <4>1. c = c1 /\ s = s1 /\ v = v1
        BY <3>6
      <4>2. w \in Rows(c, s)
        BY <3>3, <3>6 DEF Live
      <4>3. w < v
        BY <3>2, <4>1, <4>2, NewVersionBeyond
      <4> QED  BY <2>1, <2>3, <4>3, SMT
    <3> QED  BY <3>4, <3>5, <3>6
  <2> QED  BY <1>2, <2>4, <2>5, Steps
<1>3. ASSUME IInv, Inv, [Next]_vars PROVE Inv'
  BY <1>2, <1>3, LevelsStay
<1>4. Inv => TransitivelyCompatible
  OBVIOUS
<1> HIDE DEF Inv
<1> QED  BY <1>1, <1>3, <1>4, Invariant, PTL DEF Spec

-----------------------------------------------------------------------------
\* A request for the latest version (-1) is not an import.
NoLatestImports == \A d \in Drafts : d.id >= 0 => d.version # -1

ConcreteRefs(c, d) == {Concrete(c, r) : r \in d.refs}

\* A request for a schema stores its text and its references resolved, with
\* the number it carries, or as a registration with that of the new version.
LEMMA StoresRequest ==
    ASSUME NoLatestImports, NEW c, NEW s, NEW d \in Drafts, d.text # Empty, d.version \in {0, -1},
           d.cv # 0 => d.id >= 0, RegisterSchema(c, s, d)
    PROVE  \E n :
               /\ ContentOf(c, s, d) = [text |-> d.text, refs |-> ConcreteRefs(c, d), cv |-> n]
               /\ \/ n = d.cv /\ d.version = 0
                  \/ n = VersionOf(c, s, d) /\ d.cv = 0 /\ ~(d.id >= 0)
<1> DEFINE import == ModeInScope(c, s) = "IMPORT"
           raw == Populate(c, s, d, import)
<1>1. Allowed(IF d.id >= 0 THEN "import" ELSE "write", ModeInScope(c, s))
  BY DEF RegisterSchema
<1>2. d.id >= 0 <=> import
  BY <1>1 DEF Allowed
<1>3. VersionOf(c, s, d) = NewVersion(c, s)
  BY SMT DEF VersionOf
<1>4. d.id >= 0 => d.version = 0
  BY DEF NoLatestImports
<1>5. \E n :
          /\ raw = [text |-> d.text, refs |-> d.refs, cv |-> n]
          /\ import => n = d.cv
          /\ ~import => n = NewVersion(c, s) \/ (n = 0 /\ d.version = 0 /\ d.cv = 0)
  BY DEF Populate
<1> HIDE DEF raw, import
<1>6. PICK n :
          /\ raw = [text |-> d.text, refs |-> d.refs, cv |-> n]
          /\ import => n = d.cv
          /\ ~import => n = NewVersion(c, s) \/ (n = 0 /\ d.version = 0 /\ d.cv = 0)
  BY <1>5
<1>7. Canonicalize(c, raw) = [text |-> d.text, refs |-> ConcreteRefs(c, d), cv |-> n]
  BY <1>6, SMT DEF Canonicalize, ConcreteRefs
<1>8. ContentOf(c, s, d) = Canonicalize(c, raw)
  BY DEF ContentOf, raw, import
<1>9. \/ n = d.cv /\ d.version = 0
      \/ n = VersionOf(c, s, d) /\ d.cv = 0 /\ ~(d.id >= 0)
  BY <1>2, <1>3, <1>4, <1>6
<1> QED  BY <1>7, <1>8, <1>9

\* The version that came is the newest of its subject.
LEMMA CameNewest ==
    ASSUME IInv, NEW c, NEW s, NEW v \in 1..MaxVersion, NEW i, NEW x, Came(c, s, v, i, x),
           v = NewVersion(c, s)
    PROVE  /\ v \in Live(c, s)' /\ v \in Rows(c, s)'
           /\ \A w \in Rows(c, s)' : w <= v
<1>1. v \in Live(c, s)' /\ v \in Rows(c, s)'
  BY DEF Live, Rows, Came
<1>2. ASSUME NEW w \in Rows(c, s)' PROVE w <= v
  <2>1. w \in 1..MaxVersion /\ <<c, s, w>> \in DOMAIN versions' /\ MaxVersion \in Nat
    BY RegistryAssumption DEF Rows
  <2>2. CASE w = v
    BY <2>1, <2>2, SMT
  <2>3. CASE w # v
    <3>1. <<c, s, w>> \in DOMAIN versions
      BY <2>1, <2>3, SMT DEF Came
    <3>2. w \in Rows(c, s)
      BY <2>1, <3>1 DEF Rows
    <3>3. w < v
      BY <3>2, NewVersionBeyond
    <3> QED  BY <2>1, <3>3, SMT
  <2> QED  BY <2>2, <2>3
<1> QED  BY <1>1, <1>2

LEMMA MaxIs ==
    ASSUME NEW N \in Nat, NEW S \in SUBSET (1..N), NEW m \in S, \A y \in S : y <= m
    PROVE  Max(S) = m
<1> DEFINE z == Max(S)
<1>1. z \in S /\ z >= m
  BY MaxInSet
<1> HIDE DEF z
<1>2. z \in Int /\ m \in Int
  BY <1>1, SMT
<1>3. z <= m
  BY <1>1
<1>4. z = m
  BY <1>1, <1>2, <1>3, SMT
<1> QED  BY <1>4 DEF z

\* The newest version with the id that came is the one that came.
LEMMA CameHash ==
    ASSUME IInv, IInv', NEW c, NEW s, NEW v \in 1..MaxVersion, NEW i \in Ids, NEW x, Came(c, s, v, i, x),
           v = NewVersion(c, s)
    PROVE  i \in HashLookup(c, x)' /\ HashLive(c, s, i)'
<1> DEFINE k == <<c, s, v>>
<1>1. k \in DOMAIN versions' /\ versions'[k].id = i
  BY DEF Came
<1>2. /\ usages' = {<<j[1], versions'[j].id, j[2], j[3]>> : j \in DOMAIN versions'}
      /\ \A j \in DOMAIN versions' : j = <<j[1], j[2], j[3]>>
  BY KeyParts DEF IInv, UsagesExact, TypeOK
<1>3. <<c, i, s, v>> \in usages'
  BY <1>1, <1>2, SMT
<1>4. Used(c, i)'
  <2>1. \E u \in usages' : u[1] = c /\ u[2] = i
    BY <1>3
  <2> QED  BY <2>1 DEF Used
<1>5. <<c, x>> \in DOMAIN fingerprints' /\ fingerprints'[<<c, x>>] = i /\ i \in 0..MaxId
  BY DEF Came, Ids
<1>6. i \in HashLookup(c, x)'
  BY <1>4, <1>5 DEF HashLookup
<1> DEFINE W == {w \in 1..MaxVersion : <<c, i, s, w>> \in usages'}
<1>7. ASSUME NEW w \in W PROVE w <= v
  <2>1. PICK j \in DOMAIN versions' : <<c, i, s, w>> = <<j[1], versions'[j].id, j[2], j[3]>>
    BY <1>2
  <2>2. j = <<c, s, w>>
    BY <1>2, <2>1
  <2>3. w \in Rows(c, s)'
    BY <2>2 DEF Rows
  <2> QED  BY <2>3, CameNewest
<1>8. v \in W /\ W \in SUBSET (1..MaxVersion) /\ MaxVersion \in Nat
  BY <1>3, RegistryAssumption
<1>9. VersionsWithId(c, s, i)' = W
  BY DEF VersionsWithId
<1> HIDE DEF W
<1>10. Max(W) = v
  BY <1>7, <1>8, MaxIs
<1>11. v \in Live(c, s)'
  BY CameNewest
<1>12. HashLive(c, s, i)'
  BY <1>8, <1>9, <1>10, <1>11 DEF HashLive
<1> QED  BY <1>6, <1>12

\* The request as lookup_under_subject sees it, and the two ways it is found.
Asked(c, d) == Canonicalize(c, [text |-> d.text, refs |-> d.refs, cv |-> d.cv])

Finds(c, s, d) ==
    /\ \A i \in Ids : d.version # -1 /\ i \in HashLookup(c, Asked(c, d)) /\ HashLive(c, s, i)
            => \E e \in LookupUnderSubject(c, s, d) : e.id = i
    /\ \A v \in Live(c, s) : v = Max(Live(c, s)) /\ CanLookup(Asked(c, d), Entity(c, s, v), v)
            => LookupUnderSubject(c, s, d) # {}

AllFind == \A c \in Contexts, s \in Subjects, d \in Drafts : d.text # Empty => Finds(c, s, d)

LEMMA Finding == AllFind
<1> SUFFICES ASSUME NEW c \in Contexts, NEW s \in Subjects, NEW d \in Drafts, d.text # Empty
             PROVE  Finds(c, s, d)
  BY DEF AllFind
<1> DEFINE x == Asked(c, d)
           hit == {i \in HashLookup(c, x) : d.version # -1 /\ HashLive(c, s, i)}
           found == {v \in Live(c, s) : /\ d.version = -1 => v = Max(Live(c, s))
                                        /\ CanLookup(x, Entity(c, s, v), v)}
           byHash == {[version |-> Max(VersionsWithId(c, s, i)), id |-> i, content |-> x] : i \in hit}
           byContent == {[version |-> v, id |-> versions[<<c, s, v>>].id, content |-> Entity(c, s, v)] :
                            v \in {w \in found : w = Max(found)}}
<1>1. LookupUnderSubject(c, s, d) = IF hit # {} THEN byHash ELSE byContent
  BY DEF LookupUnderSubject, Asked
<1> HIDE DEF x
<1>2. ASSUME NEW i \in Ids, d.version # -1, i \in HashLookup(c, x), HashLive(c, s, i)
      PROVE  \E e \in LookupUnderSubject(c, s, d) : e.id = i
  <2> DEFINE e == [version |-> Max(VersionsWithId(c, s, i)), id |-> i, content |-> x]
  <2>1. i \in hit
    BY <1>2
  <2>2. e \in byHash /\ e.id = i
    BY <2>1
  <2> HIDE DEF hit, byHash, byContent, e
  <2> QED  BY <1>1, <2>1, <2>2
<1>3. ASSUME NEW v \in Live(c, s), v = Max(Live(c, s)), CanLookup(x, Entity(c, s, v), v)
      PROVE  LookupUnderSubject(c, s, d) # {}
  <2>1. v \in found /\ found \in SUBSET (1..MaxVersion) /\ MaxVersion \in Nat
    BY <1>3, RegistryAssumption DEF Live, Rows
  <2>2. Max(found) \in found
    <3> HIDE DEF found
    <3> QED  BY <2>1, MaxInSet
  <2>3. byContent # {}
    <3> HIDE DEF found
    <3> QED  BY <2>2
  <2>4. hit # {} => byHash # {}
    <3> HIDE DEF hit
    <3> QED  OBVIOUS
  <2> HIDE DEF hit, byHash, byContent
  <2> QED  BY <1>1, <2>3, <2>4
<1> QED  BY <1>2, <1>3 DEF x, Finds

LEMMA FindsItself ==
    ASSUME IInv, IInv', NoLatestImports, NEW c \in Contexts, NEW s \in Subjects, NEW d \in Drafts,
           d.text # Empty, d.version \in {0, -1}, d.cv # 0 => d.id >= 0,
           ConcreteRefs(c, d)' = ConcreteRefs(c, d),
           NEW v \in 1..MaxVersion, NEW i \in Ids, NEW x \in Contents, Registers(c, s, d, v, i, x)
    PROVE  FastPath(c, s, d)' # {}
<1> DEFINE R == ConcreteRefs(c, d)
<1>0. Finds(c, s, d)'
  <2>1. AllFind'
    BY Finding, PTL
  <2> QED  BY <2>1 DEF AllFind
<1>1. /\ RegisterSchema(c, s, d) /\ Came(c, s, v, i, x)
      /\ v = VersionOf(c, s, d) /\ i = IdOf(c, s, d) /\ x = ContentOf(c, s, d)
  BY DEF Registers
<1>2. v = NewVersion(c, s)
  BY <1>1, SMT DEF VersionOf
<1>3. PICK n : /\ x = [text |-> d.text, refs |-> R, cv |-> n]
               /\ \/ n = d.cv /\ d.version = 0
                  \/ n = v /\ d.cv = 0 /\ ~(d.id >= 0)
  BY <1>1, StoresRequest
<1>4. d.id < 0 \/ d.id = i
  <2>1. d.id \in Int
    BY RegistryAssumption, SMT
  <2>2. d.id >= 0 => ChooseId(c, d, x) = d.id
    BY <2>1, SMT DEF ChooseId
  <2> QED  BY <1>1, <2>1, <2>2, SMT DEF IdOf
<1>5. Asked(c, d)' = [text |-> d.text, refs |-> R, cv |-> d.cv]
  <2>1. PICK q : q = [text |-> d.text, refs |-> d.refs, cv |-> d.cv]
    OBVIOUS
  <2>2. q.refs = d.refs /\ Asked(c, d) = Canonicalize(c, q) /\ Asked(c, d)' = Canonicalize(c, q)'
    BY <2>1 DEF Asked
  <2>3. Canonicalize(c, q)' = [q EXCEPT !.refs = ConcreteRefs(c, d)']
    BY <2>2 DEF Canonicalize, ConcreteRefs
  <2> QED  BY <2>1, <2>2, <2>3
<1>6. ASSUME NEW e \in LookupUnderSubject(c, s, d)', d.id < 0 \/ d.id = e.id
      PROVE  FastPath(c, s, d)' # {}
  BY <1>6 DEF FastPath
<1>7. CASE n = d.cv /\ d.version = 0
  <2>1. d.version = 0 /\ Asked(c, d)' = x
    BY <1>3, <1>5, <1>7
  <2>2. i \in HashLookup(c, Asked(c, d))' /\ HashLive(c, s, i)'
    <3>1. i \in HashLookup(c, x)' /\ HashLive(c, s, i)'
      BY <1>1, <1>2, CameHash
    <3> QED  BY <2>1, <3>1 DEF HashLookup
  <2>3. \E e \in LookupUnderSubject(c, s, d)' : e.id = i
    BY <1>0, <2>1, <2>2, SMT DEF Finds
  <2> QED  BY <1>4, <1>6, <2>3
<1>8. CASE n = v /\ d.cv = 0 /\ ~(d.id >= 0)
  <2>1. d.id < 0
    BY <1>8, RegistryAssumption, SMT
  <2>2. v \in Live(c, s)' /\ \A w \in Live(c, s)' : w <= v
    BY <1>1, <1>2, CameNewest DEF Live
  <2>3. Live(c, s)' \in SUBSET (1..MaxVersion) /\ MaxVersion \in Nat
    BY RegistryAssumption DEF Live, Rows
  <2>4. Max(Live(c, s)') = v
    BY <2>2, <2>3, MaxIs
  <2>5. CanLookup(Asked(c, d), Entity(c, s, v), v)'
    <3>1. Entity(c, s, v)' = x
      BY <1>1, EntityCame
    <3> QED  BY <1>3, <1>5, <1>8, <3>1, SMT DEF CanLookup
  <2>6. LookupUnderSubject(c, s, d)' # {}
    BY <1>0, <2>2, <2>4, <2>5 DEF Finds
  <2> QED  BY <1>6, <2>1, <2>6
<1> QED  BY <1>3, <1>7, <1>8

\* A schema that was just registered, or imported under an id, is answered by
\* the lock-free path, provided its references still mean the same; only an
\* import that asks for the latest version is not (lookup_under_subject).
THEOREM RegistrationIsIdempotent ==
    ASSUME NoLatestImports
    PROVE  Spec => Idempotent
<1>1. ASSUME IInv, [Next]_vars, NEW c \in Contexts, NEW s \in Subjects, NEW d \in Drafts,
             d.version \in {0, -1}, d.text # Empty, d.cv # 0 => d.id >= 0, RegisterSchema(c, s, d),
             Canonicalize(c, d)' = Canonicalize(c, d)
      PROVE  FastPath(c, s, d)' # {}
  <2>1. ConcreteRefs(c, d)' = ConcreteRefs(c, d)
    <3> DEFINE before == ConcreteRefs(c, d)
               after == ConcreteRefs(c, d)'
    <3>1. Canonicalize(c, d) = [d EXCEPT !.refs = before] /\ Canonicalize(c, d)' = [d EXCEPT !.refs = after]
      BY DEF Canonicalize, ConcreteRefs
    <3>2. "refs" \in DOMAIN d
      BY DraftShape, SMT
    <3> HIDE DEF before, after
    <3>3. [d EXCEPT !.refs = before].refs = before /\ [d EXCEPT !.refs = after].refs = after
      BY <3>2
    <3>4. before = after
      BY <1>1, <3>1, <3>3
    <3> QED  BY <3>4 DEF before, after
  <2>2. PICK v \in 1..MaxVersion, i \in Ids, x \in Contents : Registers(c, s, d, v, i, x)
    BY <1>1, RegistersOnce
  <2>3. IInv'
    BY <1>1, Inductive
  <2> QED  BY <1>1, <2>1, <2>2, <2>3, FindsItself
<1>2. ASSUME IInv, [Next]_vars
      PROVE  [\A c \in Contexts, s \in Subjects : Live(c, s)' \ Live(c, s) # {} =>
                \A d \in Drafts : /\ d.version \in {0, -1} /\ d.text # Empty
                                  /\ d.cv # 0 => d.id >= 0
                                  /\ RegisterSchema(c, s, d)
                                  /\ Canonicalize(c, d)' = Canonicalize(c, d)
                    => FastPath(c, s, d)' # {}]_vars
  BY <1>1, <1>2
<1> QED  BY <1>2, Invariant, PTL DEF Spec, Idempotent
=============================================================================
