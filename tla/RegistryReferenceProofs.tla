----------------------- MODULE RegistryReferenceProofs -----------------------
(***************************************************************************)
(* What TLAPS proves of Registry about what belongs together across rows:  *)
(* the hash index and the content, content and the versions that hold it,  *)
(* references and the index of referrers, and what that index protects.    *)
(* Each theorem names the requests it needs: without them the code itself  *)
(* lets the property fail.                                                 *)
(***************************************************************************)
EXTENDS RegistryProofs

\* A leaf that names no prover is proved by Zenon.
USE Zenon

\* An id in use is held by a version, whose content is there.
LEMMA UsedBody ==
    ASSUME IInv, NEW c, NEW i, Used(c, i)
    PROVE  <<c, i>> \in DOMAIN bodies
<1>1. PICK k \in DOMAIN versions : k[1] = c /\ versions[k].id = i
  BY UsedBy, SMT DEF IInv
<1> QED  BY <1>1 DEF IInv, BodyPresent

HoldersKnown ==
    \A c, i : Used(c, i) <=> \E k \in DOMAIN versions : k[1] = c /\ versions[k].id = i

LEMMA HoldersAreKnown == IInv => HoldersKnown
  BY UsedBy DEF IInv, HoldersKnown

\* The same of the state after a step.
LEMMA UsedByAfter ==
    ASSUME IInv', NEW c, NEW i
    PROVE  Used(c, i)' <=> \E k \in DOMAIN versions' : k[1] = c /\ versions'[k].id = i
<1>1. (IInv => HoldersKnown)'
  BY HoldersAreKnown, PTL
<1> QED  BY <1>1, SMT DEF HoldersKnown

-----------------------------------------------------------------------------
\* The content of an id in use after the step that was not just registered is
\* what it was, and the id was in use.
LEMMA HeldBefore ==
    ASSUME IInv, IInv', ContentKept, NEW k \in DOMAIN versions', k \in DOMAIN versions,
           versions'[k].id = versions[k].id
    PROVE  LET ci == <<k[1], versions[k].id>>
           IN Used(k[1], versions[k].id) /\ ci \in DOMAIN bodies /\ ci \in DOMAIN bodies' /\ bodies'[ci] = bodies[ci]
<1>1. Used(k[1], versions[k].id)
  BY UsedBy DEF IInv
<1> DEFINE ci == <<k[1], versions[k].id>>
<1>2. ci \in DOMAIN bodies /\ ci \in DOMAIN bodies'
  BY DEF IInv, BodyPresent
<1>3. ci[1] = k[1] /\ ci[2] = versions[k].id
  OBVIOUS
<1> HIDE DEF ci
<1>4. bodies'[ci] = bodies[ci]
  BY <1>1, <1>2, <1>3 DEF ContentKept
<1> QED  BY <1>1, <1>2, <1>4 DEF ci

\* An id that a registration takes from the counter was never indexed.
LEMMA TakesFreshOrUsed ==
    ASSUME IInv, NoImports, NEW c \in Contexts, NEW s \in Subjects, NEW d \in Drafts, ~Used(c, IdOf(c, s, d))
    PROVE  IdOf(c, s, d) = next[c]
<1> DEFINE x == ContentOf(c, s, d)
           hit == {i \in HashLookup(c, x) : d.id < 0 \/ d.id = i}
<1>1. \A i \in hit : Used(c, i) /\ i \in 0..MaxId
  BY DEF HashLookup
<1>2. ChooseId(c, d, x) = IF hit # {} THEN CHOOSE i \in hit : TRUE ELSE -1
  BY SMT DEF ChooseId, NoImports
<1> HIDE DEF hit
<1>3. CASE hit # {}
  <2>1. ChooseId(c, d, x) \in hit
    BY <1>2, <1>3
  <2>2. ChooseId(c, d, x) >= 0
    BY <1>1, <2>1, RegistryAssumption, SMT
  <2>3. IdOf(c, s, d) = ChooseId(c, d, x)
    BY <2>2 DEF IdOf
  <2> QED  BY <1>1, <2>1, <2>3
<1>4. CASE hit = {}
  BY <1>2, <1>4, SMT DEF IdOf
<1> QED  BY <1>3, <1>4

\* hash_lookup answers with an id that holds the indexed content, although
\* entries are never removed: with no imports an id is never used again for
\* other content (HashLookup, ChooseId, Advance).
THEOREM HashIndexIsSound ==
    ASSUME NoImports
    PROVE  Spec => []HashSound
<1>1. Init => HashSound
  BY DEF Init, HashSound, Nothing
<1>2. ASSUME IInv, HashSound, [Next]_vars PROVE HashSound'
  <2>1. IInv' /\ ContentKept
    BY <1>2, Inductive
  <2>0. SUFFICES ASSUME NEW cx \in DOMAIN fingerprints', Used(cx[1], fingerprints[cx])'
                 PROVE  bodies'[<<cx[1], fingerprints'[cx]>>] = cx[2]
    BY DEF HashSound
  <2>2. PICK j : j = fingerprints'[cx] /\ Used(cx[1], j)'
    BY <2>0 DEF Used
  <2>3. PICK k \in DOMAIN versions' : k[1] = cx[1] /\ versions'[k].id = j
    BY <2>1, <2>2, UsedByAfter, SMT
  <2>4. ASSUME cx \in DOMAIN fingerprints, fingerprints[cx] = j, k \in DOMAIN versions,
               versions'[k].id = versions[k].id
        PROVE  bodies'[<<cx[1], j>>] = cx[2]
    <3>1. /\ Used(k[1], versions[k].id)
          /\ bodies'[<<k[1], versions[k].id>>] = bodies[<<k[1], versions[k].id>>]
      BY <1>2, <2>1, <2>4, HeldBefore
    <3>2. k[1] = cx[1] /\ versions[k].id = fingerprints[cx]
      BY <2>3, <2>4
    <3>3. bodies[<<cx[1], fingerprints[cx]>>] = cx[2]
      BY <1>2, <2>4, <3>1, <3>2 DEF HashSound
    <3> QED  BY <2>4, <3>1, <3>2, <3>3
  <2>5. CASE Fewer
    BY <2>2, <2>4, <2>5 DEF Fewer
  <2>6. ASSUME NEW c \in Contexts, NEW s \in Subjects, NEW d \in Drafts,
               NEW v \in 1..MaxVersion, NEW i \in Ids, NEW x \in Contents,
               Registers(c, s, d, v, i, x)
        PROVE  bodies'[<<cx[1], j>>] = cx[2]
    <3>1. Came(c, s, v, i, x) /\ RegisterSchema(c, s, d) /\ i = IdOf(c, s, d) /\ x = ContentOf(c, s, d)
      BY <2>6 DEF Registers
    <3>2. CASE cx = <<c, x>>
      BY <2>2, <3>1, <3>2 DEF Came
    <3>3. CASE cx # <<c, x>> /\ k # <<c, s, v>>
      BY <2>2, <2>4, <3>1, <3>3 DEF Came
    <3>4. CASE cx # <<c, x>> /\ k = <<c, s, v>>
      <4>1. cx \in DOMAIN fingerprints /\ fingerprints[cx] = j /\ cx[1] = c /\ j = i
        BY <2>2, <2>3, <3>1, <3>4 DEF Came
      <4>2. Used(c, i)
        <5> SUFFICES ASSUME ~Used(c, i) PROVE FALSE
          OBVIOUS
        <5>1. i = next[c]
          BY <1>2, <3>1, TakesFreshOrUsed
        <5>2. fingerprints[cx] < next[cx[1]]
          BY <1>2, <4>1 DEF IInv, NextFresh
        <5>3. next[c] \in Int
          BY <1>2, RegistryAssumption, SMT DEF IInv, TypeOK
        <5> QED  BY <4>1, <5>1, <5>2, <5>3, SMT
      <4>3. bodies[<<c, i>>] = cx[2]
        BY <1>2, <4>1, <4>2 DEF HashSound
      <4>4. <<c, i>> \in DOMAIN bodies
        BY <1>2, <4>2, UsedBody
      <4>5. <<c, i>> \in DOMAIN bodies' /\ bodies'[<<c, i>>] = bodies[<<c, i>>]
        BY <2>1, <3>1, <4>2, <4>4 DEF Came, ContentKept
      <4> QED  BY <4>1, <4>3, <4>5
    <3> QED  BY <3>2, <3>3, <3>4
  <2> QED  BY <1>2, <2>2, <2>5, <2>6, Steps
<1> QED  BY <1>1, <1>2, Invariant, PTL DEF Spec

-----------------------------------------------------------------------------
\* When every holder of an id goes, and all are of one subject, its content is
\* freed.
LEMMA LastHolderFrees ==
    ASSUME IInv, NEW K \in SUBSET DOMAIN versions, NEW also, OneSubject(K),
           \A j, k \in K : j # k => <<k[2], k[3]>> \in also,
           NEW k \in K, \A j \in DOMAIN versions : j[1] = k[1] /\ versions[j].id = versions[k].id => j \in K
    PROVE  <<k[1], versions[k].id>> \in Freed(K, also)
<1>1. ~StillUsed(k, also)
  <2> SUFFICES ASSUME NEW u \in usages, u[1] = k[1], u[2] = versions[k].id,
                      ~(u[3] = k[2] /\ (u[4] = k[3] \/ <<u[3], u[4]>> \in also))
               PROVE  FALSE
    BY DEF StillUsed
  <2>1. PICK j \in DOMAIN versions : u = <<j[1], versions[j].id, j[2], j[3]>>
    BY DEF IInv, UsagesExact
  <2>2. u[1] = j[1] /\ u[2] = versions[j].id /\ u[3] = j[2] /\ u[4] = j[3]
    BY <2>1
  <2>3. j \in K
    BY <2>2
  <2>4. j[2] = k[2] /\ (j # k => <<j[2], j[3]>> \in also)
    BY <2>3 DEF OneSubject
  <2> QED  BY <2>2, <2>4
<1>2. <<k[1], versions[k].id>> \in DOMAIN bodies
  BY DEF IInv, BodyPresent
<1> QED  BY <1>1, <1>2 DEF Freed

\* What a registration frees: what the version it overwrites held, and the
\* soft-deleted ones of its id.
LEMMA RegisterFrees ==
    ASSUME NEW c, NEW s, NEW v, NEW i, NEW x, Apply(RegisterPlan(c, s, v, i, x))
    PROVE  DOMAIN bodies' = (DOMAIN bodies \ (Freed(Taken(c, s, v), {})
                                \cup Freed(StaleKeys(c, s, v, i), StaleNames(c, s, v, i)))) \cup {<<c, i>>}
<1> DEFINE p == RegisterPlan(c, s, v, i, x)
<1>1. After(p)
  BY RowsAfter
<1>2. p.free = Freed(Taken(c, s, v), {}) \cup Freed(StaleKeys(c, s, v, i), StaleNames(c, s, v, i))
  BY RegisterPlanGoes, SMT
<1>3. DOMAIN p.body = {<<c, i>>}
  BY DEF RegisterPlan, Only
<1> HIDE DEF p
<1> QED  BY <1>1, <1>2, <1>3 DEF After

\* Content whose versions are all gone is freed with the last of them, when
\* modes are set for subjects only: a purge of a whole context counts a schema
\* that two of its subjects share as still used (hard_delete_writes, SetMode).
THEOREM GarbageIsFreed ==
    ASSUME OwnScopes
    PROVE  Spec => []NoGarbage
<1>1. Init => NoGarbage
  BY DEF Init, NoGarbage, Nothing
<1>2. ASSUME IInv, NoGarbage, [Next]_vars PROVE NoGarbage'
  <2>1. IInv'
    BY <1>2, Inductive
  <2>2. SUFFICES ASSUME NEW ci \in DOMAIN bodies' PROVE Used(ci[1], ci[2])'
    BY DEF NoGarbage
  <2>3. ASSUME NEW k \in DOMAIN versions', k[1] = ci[1], versions'[k].id = ci[2]
        PROVE  Used(ci[1], ci[2])'
    BY <2>1, <2>3, UsedByAfter
  <2>4. ASSUME ci \in DOMAIN bodies PROVE \E k \in DOMAIN versions : k[1] = ci[1] /\ versions[k].id = ci[2]
    BY <1>2, <2>4, UsedBy, SMT DEF NoGarbage, IInv
  <2>5. ASSUME NEW K, NEW also, Removes(K, also)
        PROVE  Used(ci[1], ci[2])'
    <3>1. /\ DOMAIN versions' = DOMAIN versions \ K
          /\ \A k \in DOMAIN versions' : versions'[k] = versions[k]
          /\ ci \in DOMAIN bodies /\ ci \notin Freed(K, also)
      <4>1. /\ DOMAIN versions' = DOMAIN versions \ K
            /\ \A k \in DOMAIN versions' : versions'[k] = versions[k]
            /\ DOMAIN bodies' = DOMAIN bodies \ Freed(K, also)
        BY <2>5, RemovesRows
      <4> QED  BY <4>1
    <3>2. PICK k \in DOMAIN versions : k[1] = ci[1] /\ versions[k].id = ci[2]
      BY <2>4, <3>1
    <3>3. ci = <<ci[1], ci[2]>>
      BY <1>2, <3>1, SMT DEF IInv, TypeOK
    <3>4. CASE \E j \in DOMAIN versions \ K : j[1] = ci[1] /\ versions[j].id = ci[2]
      BY <2>3, <3>1, <3>4
    <3>5. CASE \A j \in DOMAIN versions : j[1] = ci[1] /\ versions[j].id = ci[2] => j \in K
      <4>1. <<k[1], versions[k].id>> \in Freed(K, also)
        BY <1>2, <2>5, <3>2, <3>5, LastHolderFrees DEF Removes
      <4> QED  BY <3>1, <3>2, <3>3, <4>1
    <3> QED  BY <3>4, <3>5
  <2>6. ASSUME DOMAIN versions' = DOMAIN versions, DOMAIN bodies' = DOMAIN bodies,
               \A k \in DOMAIN versions : versions'[k].id = versions[k].id
        PROVE  Used(ci[1], ci[2])'
    BY <2>3, <2>4, <2>6
  <2>7. ASSUME NEW c \in Contexts, NEW s \in Subjects, NEW K, Hides(c, s, K)
        PROVE  Used(ci[1], ci[2])'
    <3>1. DOMAIN versions' = DOMAIN versions /\ DOMAIN bodies' = DOMAIN bodies /\ Fewer
      BY <1>2, <2>7, HidesRows
    <3> QED  BY <2>6, <3>1 DEF Fewer
  <2>8. Keeps => Used(ci[1], ci[2])'
    BY <2>6 DEF Keeps
  <2>9. ASSUME NEW c \in Contexts, NEW s \in Subjects, NEW d \in Drafts,
               NEW v \in 1..MaxVersion, NEW i \in Ids, NEW x \in Contents,
               Registers(c, s, d, v, i, x)
        PROVE  Used(ci[1], ci[2])'
    <3> DEFINE k0 == <<c, s, v>>
    <3>1. Came(c, s, v, i, x) /\ Apply(RegisterPlan(c, s, v, i, x))
      BY <2>9 DEF Registers
    <3>2. CASE ci = <<c, i>>
      <4>1. k0 \in DOMAIN versions' /\ k0[1] = c /\ versions'[k0].id = i
        BY <3>1 DEF Came
      <4> QED  BY <2>3, <3>2, <4>1
    <3>3. CASE ci # <<c, i>>
      <4>1. ci \in DOMAIN bodies /\ ci \notin Freed(Taken(c, s, v), {})
        <5>1. DOMAIN bodies' = (DOMAIN bodies \ (Freed(Taken(c, s, v), {})
                                  \cup Freed(StaleKeys(c, s, v, i), StaleNames(c, s, v, i)))) \cup {<<c, i>>}
          BY <3>1, RegisterFrees
        <5> QED  BY <3>3, <5>1
      <4>2. PICK k \in DOMAIN versions : k[1] = ci[1] /\ versions[k].id = ci[2]
        BY <2>4, <4>1
      <4>3. ci = <<ci[1], ci[2]>>
        BY <1>2, <4>1, SMT DEF IInv, TypeOK
      <4>4. ASSUME NEW j \in DOMAIN versions, j[1] = ci[1], versions[j].id = ci[2], j # k0
            PROVE  Used(ci[1], ci[2])'
        <5>1. j \in DOMAIN versions'
          BY <3>1, <3>3, <4>3, <4>4 DEF Came
        <5>2. versions'[j] = versions[j]
          BY <3>1, <4>4, <5>1 DEF Came
        <5> QED  BY <2>3, <4>4, <5>1, <5>2
      <4>5. CASE \A j \in DOMAIN versions : j[1] = ci[1] /\ versions[j].id = ci[2] => j = k0
        <5>1. k = k0 /\ Taken(c, s, v) = {k0}
          BY <4>2, <4>5 DEF Taken
        <5> HIDE DEF k0
        <5>2. <<k0[1], versions[k0].id>> \in Freed({k0}, {})
          BY <1>2, <4>2, <4>5, <5>1, LastHolderFrees DEF OneSubject
        <5> QED  BY <4>1, <4>2, <4>3, <5>1, <5>2
      <4> QED  BY <4>4, <4>5
    <3> QED  BY <3>2, <3>3
  <2> QED  BY <1>2, <2>5, <2>7, <2>8, <2>9, Kinds, RegistersOnce
<1> QED  BY <1>1, <1>2, Invariant, PTL DEF Spec

-----------------------------------------------------------------------------
\* Requests refer within their context.
LocalRefs == \A d \in Drafts : \A r \in d.refs : \A c \in Contexts : RefTarget(c, r)[1] = c
StoredLocal == \A ci \in DOMAIN bodies : \A r \in bodies[ci].refs : RefTarget(ci[1], r)[1] = ci[1]

\* The references a registration stores: those of the request, or those of the
\* latest version when the request has no schema, resolved.
Given(c, s, d) == IF d.text = Empty THEN Entity(c, s, Max(Live(c, s))).refs ELSE d.refs

LEMMA ContentRefs ==
    ASSUME NEW c, NEW s, NEW d \in Drafts, RegisterSchema(c, s, d)
    PROVE  /\ ContentOf(c, s, d).refs = {Concrete(c, r) : r \in Given(c, s, d)}
           /\ Resolves(c, Given(c, s, d))
           /\ d.text = Empty => Live(c, s) # {}
<1> DEFINE import == ModeInScope(c, s) = "IMPORT"
           raw == Populate(c, s, d, import)
<1>1. Resolves(c, raw.refs) /\ (d.text = Empty => ~import /\ Live(c, s) # {})
  BY DEF RegisterSchema
<1>2. \E t, n : raw = [text |-> t, refs |-> Given(c, s, d), cv |-> n]
  BY <1>1 DEF Populate, Given
<1>3. ContentOf(c, s, d) = [raw EXCEPT !.refs = {Concrete(c, r) : r \in raw.refs}]
  BY DEF ContentOf, Canonicalize
<1> HIDE DEF raw
<1>4. raw.refs = Given(c, s, d) /\ "refs" \in DOMAIN raw
  BY <1>2, SMT
<1>5. ContentOf(c, s, d).refs = {Concrete(c, r) : r \in raw.refs}
  BY <1>3, <1>4
<1> QED  BY <1>1, <1>4, <1>5

\* A resolved reference names the context it named.
LEMMA ConcreteContext ==
    ASSUME NEW c, NEW r
    PROVE  RefTarget(c, Concrete(c, r))[1] = RefTarget(c, r)[1]
<1> DEFINE e == Concrete(c, r)
<1>1. e = r \/ \E v : e = <<r[1], r[2], v>>
  BY DEF Concrete
<1>2. e[1] = r[1]
  BY <1>1, SMT
<1> HIDE DEF e
<1> QED  BY <1>2 DEF RefTarget, e

\* The content of a live version, and what the invariant says of it.
LEMMA LatestBody ==
    ASSUME IInv, NEW c \in Contexts, NEW s \in Subjects, Live(c, s) # {}
    PROVE  LET k == <<c, s, Max(Live(c, s))>>
           IN /\ k \in DOMAIN versions /\ ~versions[k].deleted
              /\ <<c, versions[k].id>> \in DOMAIN bodies
              /\ Entity(c, s, Max(Live(c, s))) = bodies[<<c, versions[k].id>>]
<1> DEFINE k == <<c, s, Max(Live(c, s))>>
<1>1. Live(c, s) \in SUBSET (1..MaxVersion) /\ MaxVersion \in Nat
  BY RegistryAssumption DEF Live, Rows
<1>2. Max(Live(c, s)) \in Live(c, s)
  BY <1>1, MaxInSet
<1>3. k \in DOMAIN versions /\ ~versions[k].deleted
  BY <1>2 DEF Live, Rows
<1>4. k[1] = c
  OBVIOUS
<1>5. <<c, versions[k].id>> \in DOMAIN bodies
  BY <1>3, <1>4 DEF IInv, BodyPresent
<1> QED  BY <1>3, <1>5 DEF Entity

LEMMA LocalStays ==
    ASSUME LocalRefs, IInv, StoredLocal, [Next]_vars
    PROVE  StoredLocal'
<1>1. CASE Fewer
  BY <1>1, SMT DEF Fewer, StoredLocal
<1>2. ASSUME NEW c \in Contexts, NEW s \in Subjects, NEW d \in Drafts,
             NEW v \in 1..MaxVersion, NEW i \in Ids, NEW x \in Contents,
             Registers(c, s, d, v, i, x)
      PROVE  StoredLocal'
  <2>1. Came(c, s, v, i, x) /\ RegisterSchema(c, s, d) /\ x = ContentOf(c, s, d)
    BY <1>2 DEF Registers
  <2>2. ASSUME NEW r \in Given(c, s, d) PROVE RefTarget(c, r)[1] = c
    <3>1. CASE d.text # Empty
      BY <2>2, <3>1 DEF Given, LocalRefs
    <3>2. CASE d.text = Empty
      <4>1. Live(c, s) # {}
        BY <2>1, <3>2, ContentRefs
      <4> DEFINE ci == <<c, versions[<<c, s, Max(Live(c, s))>>].id>>
      <4>2. ci \in DOMAIN bodies /\ Entity(c, s, Max(Live(c, s))) = bodies[ci] /\ ci[1] = c
        BY <4>1, LatestBody
      <4> HIDE DEF ci
      <4>3. r \in bodies[ci].refs
        BY <2>2, <3>2, <4>2 DEF Given
      <4> QED  BY <4>2, <4>3 DEF StoredLocal
    <3> QED  BY <3>1, <3>2
  <2>3. ASSUME NEW e \in x.refs PROVE RefTarget(c, e)[1] = c
    <3>1. PICK r \in Given(c, s, d) : e = Concrete(c, r)
      BY <2>1, <2>3, ContentRefs, SMT
    <3> QED  BY <2>2, <3>1, ConcreteContext
  <2>4. SUFFICES ASSUME NEW ci \in DOMAIN bodies', NEW r \in bodies'[ci].refs
                 PROVE  RefTarget(ci[1], r)[1] = ci[1]
    BY DEF StoredLocal, RefTarget
  <2>5. CASE ci = <<c, i>>
    BY <2>1, <2>3, <2>5 DEF Came
  <2>6. CASE ci # <<c, i>>
    BY <2>1, <2>6, SMT DEF Came, StoredLocal
  <2> QED  BY <2>5, <2>6
<1> QED  BY <1>1, <1>2, Steps

-----------------------------------------------------------------------------
\* The two directions of RefbyExact.
EdgesOf(k) == Edges(k[1], versions[k].id, Entity(k[1], k[2], k[3]))
RefbyHas  == \A k \in DOMAIN versions : EdgesOf(k) \subseteq refby
RefbyOnly == \A edge \in refby : \E ci \in DOMAIN bodies :
                 Used(ci[1], ci[2]) /\ edge \in Edges(ci[1], ci[2], bodies[ci])

LEMMA Unref ==
    ASSUME NEW K, NEW also
    PROVE  HardDelete(K, also).unref = UNION {Edges(ci[1], ci[2], bodies[ci]) : ci \in Freed(K, also)}
  BY DEF HardDelete, Freed, NoPlan

\* An edge leads from one id of one context, when references are local.
LEMMA EdgeSource ==
    ASSUME NEW c, NEW i, NEW x, NEW edge \in Edges(c, i, x), \A r \in x.refs : RefTarget(c, r)[1] = c
    PROVE  edge[1][1] = c /\ edge[2] = i
<1>1. PICK r \in x.refs : edge = <<RefTarget(c, r), i>>
  BY DEF Edges
<1> QED  BY <1>1

LEMMA EntityBody ==
    ASSUME IInv, NEW k \in DOMAIN versions
    PROVE  /\ <<k[1], versions[k].id>> \in DOMAIN bodies
           /\ Entity(k[1], k[2], k[3]) = bodies[<<k[1], versions[k].id>>]
<1>1. k = <<k[1], k[2], k[3]>>
  BY KeyParts DEF IInv, TypeOK
<1> QED  BY <1>1 DEF IInv, BodyPresent, Entity

\* A removal takes no edge of a version that stays.
LEMMA EdgesSurvive ==
    ASSUME IInv, StoredLocal, NEW K \in SUBSET DOMAIN versions, NEW also, Closed(K, also),
           NEW k \in DOMAIN versions, k \notin K, NEW edge \in EdgesOf(k)
    PROVE  edge \notin HardDelete(K, also).unref
<1> SUFFICES ASSUME edge \in HardDelete(K, also).unref PROVE FALSE
  OBVIOUS
<1>1. PICK ci \in Freed(K, also) : edge \in Edges(ci[1], ci[2], bodies[ci])
  BY Unref, SMT
<1>2. ci \in DOMAIN bodies
  BY DEF Freed
<1>3. edge[1][1] = ci[1] /\ edge[2] = ci[2]
  BY <1>1, <1>2, EdgeSource, SMT DEF StoredLocal
<1> DEFINE ki == <<k[1], versions[k].id>>
<1>4. ki \in DOMAIN bodies /\ edge \in Edges(k[1], versions[k].id, bodies[ki]) /\ ki[1] = k[1]
  BY EntityBody DEF EdgesOf
<1> HIDE DEF ki
<1>5. edge[1][1] = k[1] /\ edge[2] = versions[k].id
  BY <1>4, EdgeSource, SMT DEF StoredLocal
<1>6. ci = <<ci[1], ci[2]>>
  BY <1>2, SMT DEF IInv, TypeOK
<1>7. <<k[1], versions[k].id>> \in Freed(K, also)
  BY <1>1, <1>3, <1>5, <1>6
<1> QED  BY <1>7, FreedHolders

\* A version that keeps its id keeps its edges.
LEMMA EdgesStay ==
    ASSUME IInv, [Next]_vars, NEW k \in DOMAIN versions, k \in DOMAIN versions',
           versions'[k].id = versions[k].id
    PROVE  EdgesOf(k)' = EdgesOf(k)
<1>1. Entity(k[1], k[2], k[3])' = Entity(k[1], k[2], k[3])
  BY EntityStays
<1> QED  BY <1>1 DEF EdgesOf, Edges, RefTarget

\* What a registration does to the index of referrers.
LEMMA RegisterRefby ==
    ASSUME NEW c, NEW s, NEW v, NEW i, NEW x, Apply(RegisterPlan(c, s, v, i, x))
    PROVE  refby' = (refby \ (HardDelete(Taken(c, s, v), {}).unref
                         \cup HardDelete(StaleKeys(c, s, v, i), StaleNames(c, s, v, i)).unref))
                       \cup Edges(c, i, x)
<1>1. RegisterPlan(c, s, v, i, x).ref = Edges(c, i, x)
  BY DEF RegisterPlan
<1> QED  BY <1>1, RegisterPlanGoes, SMT DEF Apply, RefbyAfter

LEMMA StaleClosed ==
    ASSUME IInv, NEW c, NEW s, NEW v, NEW i
    PROVE  /\ Taken(c, s, v) \in SUBSET DOMAIN versions /\ Closed(Taken(c, s, v), {})
           /\ StaleKeys(c, s, v, i) \in SUBSET DOMAIN versions
           /\ Closed(StaleKeys(c, s, v, i), StaleNames(c, s, v, i))
<1>1. Taken(c, s, v) \in SUBSET DOMAIN versions /\ Closed(Taken(c, s, v), {})
  BY DEF Taken, Closed
<1>2. StaleKeys(c, s, v, i) \in SUBSET DOMAIN versions
  BY StaleRows
<1>3. ASSUME NEW j \in StaleKeys(c, s, v, i), NEW e \in DOMAIN versions,
             e[1] = j[1], e[2] = j[2], <<e[2], e[3]>> \in StaleNames(c, s, v, i)
      PROVE  e \in StaleKeys(c, s, v, i)
  <2>1. j[1] = c /\ j[2] = s
    BY StaleRows, SMT
  <2>2. PICK w \in Stale(c, s, v, i) : <<e[2], e[3]>> = <<s, w>>
    BY <1>3 DEF StaleNames
  <2>3. e = <<c, s, w>>
    BY <1>3, <2>1, <2>2, KeyParts DEF IInv, TypeOK
  <2> QED  BY <2>3 DEF StaleKeys
<1>4. Closed(StaleKeys(c, s, v, i), StaleNames(c, s, v, i))
  BY <1>3 DEF Closed
<1> QED  BY <1>1, <1>2, <1>4

LEMMA RemovesRefby ==
    ASSUME NEW K, NEW also, Removes(K, also)
    PROVE  refby' = refby \ HardDelete(K, also).unref
<1>1. HardDelete(K, also).ref = {}
  BY HardDeleteFields
<1> QED  BY <1>1 DEF Removes, Apply, RefbyAfter

\* Every reference of a stored version stays in the index.
LEMMA RefbyHasStays ==
    ASSUME IInv, StoredLocal, RefbyHas, [Next]_vars
    PROVE  RefbyHas'
<1>1. ASSUME NEW k \in DOMAIN versions, k \in DOMAIN versions', versions'[k].id = versions[k].id,
             NEW edge \in EdgesOf(k)'
      PROVE  edge \in EdgesOf(k) /\ edge \in refby
  BY <1>1, EdgesStay DEF RefbyHas
<1>2. SUFFICES ASSUME NEW k \in DOMAIN versions', NEW edge \in EdgesOf(k)' PROVE edge \in refby'
  BY DEF RefbyHas
<1>3. ASSUME NEW K, NEW also, Removes(K, also) PROVE edge \in refby'
  <2>1. /\ DOMAIN versions' = DOMAIN versions \ K
        /\ \A j \in DOMAIN versions' : versions'[j] = versions[j]
    BY <1>3, RemovesRows
  <2>2. edge \in EdgesOf(k) /\ edge \in refby
    BY <1>1, <2>1
  <2>3. edge \notin HardDelete(K, also).unref
    BY <1>3, <2>1, <2>2, EdgesSurvive DEF Removes
  <2> QED  BY <1>3, <2>2, <2>3, RemovesRefby
<1>4. ASSUME Fewer, refby' = refby PROVE edge \in refby'
  BY <1>1, <1>4 DEF Fewer
<1>5. ASSUME NEW c \in Contexts, NEW s \in Subjects, NEW K, Hides(c, s, K) PROVE edge \in refby'
  BY <1>4, <1>5, HidesRows
<1>6. Keeps => edge \in refby'
  BY <1>4 DEF Keeps, Fewer
<1>7. ASSUME NEW c \in Contexts, NEW s \in Subjects, NEW d \in Drafts,
             NEW v \in 1..MaxVersion, NEW i \in Ids, NEW x \in Contents,
             Registers(c, s, d, v, i, x)
      PROVE  edge \in refby'
  <2> DEFINE k0 == <<c, s, v>>
             over == HardDelete(Taken(c, s, v), {}).unref
             gone == HardDelete(StaleKeys(c, s, v, i), StaleNames(c, s, v, i)).unref
  <2>1. Came(c, s, v, i, x) /\ Apply(RegisterPlan(c, s, v, i, x))
    BY <1>7 DEF Registers
  <2>2. refby' = (refby \ (over \cup gone)) \cup Edges(c, i, x)
    BY <2>1, RegisterRefby
  <2>3. CASE k = k0
    <3>0. Entity(c, s, v)' = x
      BY <2>1, EntityCame
    <3>1. Entity(c, s, v)' = x /\ versions'[k].id = i
      BY <2>1, <2>3, <3>0 DEF Came
    <3>2. k[1] = c /\ k[2] = s /\ k[3] = v
      BY <2>3
    <3>3. EdgesOf(k)' = Edges(c, i, x)
      BY <3>1, <3>2 DEF EdgesOf, Edges, RefTarget
    <3> QED  BY <2>2, <3>3
  <2>4. CASE k # k0
    <3>1. k \in DOMAIN versions /\ versions'[k] = versions[k]
      BY <2>1, <2>4 DEF Came
    <3>2. edge \in EdgesOf(k) /\ edge \in refby
      BY <1>1, <3>1
    <3>3. k \notin Taken(c, s, v)
      BY <2>4 DEF Taken
    <3>4. k \notin StaleKeys(c, s, v, i)
      <4>1. After(RegisterPlan(c, s, v, i, x))
        BY <2>1, RowsAfter
      <4>2. DOMAIN RegisterPlan(c, s, v, i, x).put = {k0}
        BY DEF RegisterPlan, Only
      <4> QED  BY <2>4, <4>1, <4>2, RegisterPlanGoes, SMT DEF After
    <3>5. edge \notin over
      BY <3>1, <3>2, <3>3, StaleClosed, EdgesSurvive
    <3>6. edge \notin gone
      BY <3>1, <3>2, <3>4, StaleClosed, EdgesSurvive
    <3> HIDE DEF over, gone
    <3> QED  BY <2>2, <3>2, <3>5, <3>6
  <2> QED  BY <2>3, <2>4
<1> QED  BY <1>3, <1>5, <1>6, <1>7, Kinds, RegistersOnce

\* No edge outlives the schema it belongs to.
LEMMA RefbyOnlyStays ==
    ASSUME IInv, NoGarbage', RefbyOnly, [Next]_vars
    PROVE  RefbyOnly'
<1>1. IInv' /\ ContentKept
  BY Inductive
<1>2. SUFFICES ASSUME NEW edge \in refby'
               PROVE  \E ci \in DOMAIN bodies' : edge \in Edges(ci[1], ci[2], bodies'[ci])
  BY DEF RefbyOnly, NoGarbage, Edges, RefTarget
<1>3. ASSUME edge \in refby
      PROVE  \E ci \in DOMAIN bodies : Used(ci[1], ci[2]) /\ edge \in Edges(ci[1], ci[2], bodies[ci])
  BY <1>3 DEF RefbyOnly
<1>4. ASSUME NEW ci \in DOMAIN bodies, ci \in DOMAIN bodies', Used(ci[1], ci[2]),
             edge \in Edges(ci[1], ci[2], bodies[ci])
      PROVE  \E e \in DOMAIN bodies' : edge \in Edges(e[1], e[2], bodies'[e])
  BY <1>1, <1>4 DEF ContentKept
<1>5. ASSUME NEW K, NEW also, Removes(K, also)
      PROVE  \E ci \in DOMAIN bodies' : edge \in Edges(ci[1], ci[2], bodies'[ci])
  <2>1. edge \in refby /\ edge \notin HardDelete(K, also).unref
    BY <1>5, RemovesRefby
  <2>2. PICK ci \in DOMAIN bodies : Used(ci[1], ci[2]) /\ edge \in Edges(ci[1], ci[2], bodies[ci])
    BY <1>3, <2>1
  <2>3. ci \notin Freed(K, also)
    BY <2>1, <2>2, Unref, SMT
  <2>4. DOMAIN bodies' = DOMAIN bodies \ Freed(K, also)
    BY <1>5, RemovesRows
  <2> QED  BY <1>4, <2>2, <2>3, <2>4
<1>6. ASSUME refby' = refby, DOMAIN bodies' = DOMAIN bodies
      PROVE  \E ci \in DOMAIN bodies' : edge \in Edges(ci[1], ci[2], bodies'[ci])
  BY <1>3, <1>4, <1>6
<1>7. ASSUME NEW c \in Contexts, NEW s \in Subjects, NEW K, Hides(c, s, K)
      PROVE  \E ci \in DOMAIN bodies' : edge \in Edges(ci[1], ci[2], bodies'[ci])
  BY <1>6, <1>7, HidesRows
<1>8. Keeps => \E ci \in DOMAIN bodies' : edge \in Edges(ci[1], ci[2], bodies'[ci])
  BY <1>6 DEF Keeps
<1>9. ASSUME NEW c \in Contexts, NEW s \in Subjects, NEW d \in Drafts,
             NEW v \in 1..MaxVersion, NEW i \in Ids, NEW x \in Contents,
             Registers(c, s, d, v, i, x)
      PROVE  \E ci \in DOMAIN bodies' : edge \in Edges(ci[1], ci[2], bodies'[ci])
  <2> DEFINE over == HardDelete(Taken(c, s, v), {}).unref
             gone == HardDelete(StaleKeys(c, s, v, i), StaleNames(c, s, v, i)).unref
             F == Freed(Taken(c, s, v), {})
             G == Freed(StaleKeys(c, s, v, i), StaleNames(c, s, v, i))
  <2>1. Came(c, s, v, i, x) /\ Apply(RegisterPlan(c, s, v, i, x))
    BY <1>9 DEF Registers
  <2>2. refby' = (refby \ (over \cup gone)) \cup Edges(c, i, x)
    BY <2>1, RegisterRefby
  <2>3. DOMAIN bodies' = (DOMAIN bodies \ (F \cup G)) \cup {<<c, i>>}
    BY <2>1, RegisterFrees
  <2>4. CASE edge \in Edges(c, i, x)
    BY <2>1, <2>4 DEF Came
  <2>5. CASE edge \notin Edges(c, i, x)
    <3>1. edge \in refby /\ edge \notin over /\ edge \notin gone
      BY <2>2, <2>5
    <3>2. PICK ci \in DOMAIN bodies : Used(ci[1], ci[2]) /\ edge \in Edges(ci[1], ci[2], bodies[ci])
      BY <1>3, <3>1
    <3>3. ci \notin F
      BY <3>1, <3>2, Unref, SMT
    <3>4. ci \notin G
      BY <3>1, <3>2, Unref, SMT
    <3> HIDE DEF F, G
    <3> QED  BY <1>4, <2>3, <3>2, <3>3, <3>4
  <2> QED  BY <2>4, <2>5
<1> QED  BY <1>5, <1>7, <1>8, <1>9, Kinds, RegistersOnce

\* With references within contexts and modes set for subjects, the reverse
\* index holds the references of the stored versions and nothing else, however
\* versions share ids (PutRefby, DeleteRefby).
THEOREM RefbyIsExact ==
    ASSUME LocalRefs, OwnScopes
    PROVE  Spec => []RefbyExact
<1> DEFINE Inv == StoredLocal /\ RefbyHas /\ RefbyOnly
<1>1. Init => Inv
  BY DEF Init, StoredLocal, RefbyHas, RefbyOnly, Nothing
<1>2. ASSUME IInv, NoGarbage', Inv, [Next]_vars PROVE Inv'
  BY <1>2, LocalStays, RefbyHasStays, RefbyOnlyStays
<1>3. Inv => RefbyExact
  BY DEF RefbyExact, RefbyHas, RefbyOnly, EdgesOf
<1>4. Spec => []NoGarbage
  BY GarbageIsFreed
<1> HIDE DEF Inv
<1> QED  BY <1>1, <1>2, <1>3, <1>4, Invariant, PTL DEF Spec

-----------------------------------------------------------------------------
\* A version that a live one references has a live referrer, so that no delete
\* takes it.
LEMMA HasReferrer ==
    ASSUME IInv, StoredLocal, RefbyHas, NEW k \in DOMAIN versions, ~versions[k].deleted,
           NEW r \in Entity(k[1], k[2], k[3]).refs, NEW t, t = RefTarget(k[1], r)
    PROVE  LiveReferrers(t[1], t[2], t[3]) # {}
<1> DEFINE i == versions[k].id
           u == <<k[1], i, k[2], k[3]>>
           f == <<t, i>>
<1>1. f \in EdgesOf(k)
  BY DEF EdgesOf, Edges
<1>2. f \in refby
  BY <1>1 DEF RefbyHas
<1>3. t = <<t[1], t[2], t[3]>>
  BY DEF RefTarget
<1>4. t[1] = k[1]
  <2> DEFINE ci == <<k[1], i>>
  <2>1. ci \in DOMAIN bodies /\ r \in bodies[ci].refs /\ ci[1] = k[1]
    BY EntityBody
  <2> HIDE DEF ci
  <2> QED  BY <2>1 DEF StoredLocal
<1>5. u \in usages
  BY DEF IInv, UsagesExact
<1>6. k[3] \in Live(k[1], k[2])
  <2>1. k = <<k[1], k[2], k[3]>> /\ k[3] \in 1..MaxVersion
    BY KeyParts DEF IInv, TypeOK
  <2> QED  BY <2>1 DEF Live, Rows
<1>7. u[1] = t[1] /\ u[2] = f[2] /\ u[4] \in Live(t[1], u[3]) /\ f[1] = <<t[1], t[2], t[3]>>
  BY <1>3, <1>4, <1>6
<1> HIDE DEF u, f
<1>8. f[2] \in LiveReferrers(t[1], t[2], t[3])
  BY <1>2, <1>5, <1>7 DEF LiveReferrers
<1> QED  BY <1>8

\* With references within contexts no delete, soft or permanent, of a subject
\* or a version hides or removes a version that a live schema references
\* (find_referrers in delete_subject and delete_version).
THEOREM DeletesAreRefused ==
    ASSUME LocalRefs
    PROVE  Spec => DeletesRespectReferences
<1> DEFINE Inv == StoredLocal /\ RefbyHas
<1>1. Init => Inv
  BY DEF Init, StoredLocal, RefbyHas, Nothing
<1>2. ASSUME IInv, Inv, [Next]_vars PROVE Inv'
  BY <1>2, LocalStays, RefbyHasStays
<1>3. ASSUME IInv, Inv, NEW k \in DOMAIN versions, Referenced(k),
             NEW permanent \in BOOLEAN, Delete(k[1], k[2], permanent)
      PROVE  k \in DOMAIN versions' /\ versions'[k] = versions[k]
  <2>1. k \in Keys /\ k[1] \in Contexts /\ k[2] \in Subjects
    BY <1>3, KeyParts DEF IInv, TypeOK
  <2>2. LiveReferrers(k[1], k[2], k[3]) # {}
    BY <1>3, HasReferrer DEF Referenced
  <2>3. (\E K, also : Removes(K, also)) \/ (\E K : Hides(k[1], k[2], K))
    BY <1>3, <2>1, DeleteSubjectKind, DeleteVersionKind DEF Delete
  <2>4. ASSUME NEW K, NEW also, Removes(K, also)
        PROVE  k \in DOMAIN versions' /\ versions'[k] = versions[k]
    <3>1. k \notin K
      BY <2>2, <2>4 DEF Removes
    <3>2. /\ DOMAIN versions' = DOMAIN versions \ K
          /\ \A j \in DOMAIN versions' : versions'[j] = versions[j]
      BY <2>4, RemovesRows
    <3> QED  BY <3>1, <3>2
  <2>5. ASSUME NEW K, Hides(k[1], k[2], K)
        PROVE  k \in DOMAIN versions' /\ versions'[k] = versions[k]
    <3>1. k \notin K
      BY <2>2, <2>5 DEF Hides
    <3> QED  BY <1>3, <2>5, <3>1, HidesRows
  <2> QED  BY <2>3, <2>4, <2>5
<1>4. ASSUME IInv, Inv
      PROVE  [\A k \in DOMAIN versions :
                Referenced(k) /\ (k \in DOMAIN versions' => versions'[k] # versions[k]) =>
                    ~ \E permanent \in BOOLEAN : Delete(k[1], k[2], permanent)]_vars
  BY <1>3, <1>4
<1> HIDE DEF Inv
<1> QED  BY <1>1, <1>2, <1>4, Invariant, PTL DEF Spec, DeletesRespectReferences

-----------------------------------------------------------------------------
\* Requests refer to the newest version of a subject, never to a number.
LatestOnly == \A d \in Drafts : \A r \in d.refs : r[3] = -1

LiveKey(t) == t \in DOMAIN versions /\ ~versions[t].deleted
LiveTargets == \A k \in DOMAIN versions : ~versions[k].deleted =>
                   \A r \in Entity(k[1], k[2], k[3]).refs : LiveKey(RefTarget(k[1], r))

\* What a registration refers to is live when it is planned.
LEMMA RegistersLive ==
    ASSUME LatestOnly, IInv, LiveTargets, NEW c \in Contexts, NEW s \in Subjects, NEW d \in Drafts,
           RegisterSchema(c, s, d), NEW e \in ContentOf(c, s, d).refs
    PROVE  LiveKey(RefTarget(c, e))
<1>1. PICK r \in Given(c, s, d) : e = Concrete(c, r)
  BY ContentRefs, SMT
<1>2. RefTarget(c, e) \in DOMAIN versions
  BY <1>1, ContentRefs, SMT DEF Resolves
<1>3. CASE d.text = Empty
  <2> DEFINE v == Max(Live(c, s))
             k == <<c, s, v>>
  <2>1. Live(c, s) # {}
    BY <1>3, ContentRefs
  <2>2. k \in DOMAIN versions /\ ~versions[k].deleted /\ k[1] = c /\ k[2] = s /\ k[3] = v
    BY <2>1, LatestBody
  <2>3. r \in Entity(c, s, v).refs
    BY <1>1, <1>3 DEF Given
  <2>4. Entity(c, s, v) \in Contents
    BY <2>1, LatestEntity
  <2>5. r[3] # -1
    <3>1. r \in (Contexts \cup {Here}) \X Subjects \X (1..MaxVersion)
      BY <2>3, <2>4 DEF Contents
    <3> QED  BY <3>1, SMT
  <2>6. e = r
    BY <1>1, <2>5 DEF Concrete
  <2> HIDE DEF k, v
  <2> QED  BY <2>2, <2>3, <2>6 DEF LiveTargets
<1>4. CASE d.text # Empty
  <2> DEFINE t == RefTarget(c, r)
  <2>1. r \in d.refs /\ r[3] = -1
    BY <1>1, <1>4 DEF Given, LatestOnly
  <2>2. r \in (Contexts \cup {Here}) \X Subjects \X (Nat \cup {-1})
    BY <2>1, RegistryAssumption
  <2>3. t[1] \in Contexts /\ t[2] \in Subjects /\ t[2] = r[2]
    BY <2>2 DEF RefTarget
  <2>4. Live(t[1], t[2]) # {}
    <3> SUFFICES ASSUME Live(t[1], t[2]) = {} PROVE FALSE
      OBVIOUS
    <3>1. e = r
      BY <1>1 DEF Concrete
    <3>2. RefTarget(c, r)[3] \in 1..MaxVersion
      BY <1>2, <3>1, KeyParts DEF IInv, TypeOK
    <3> QED  BY <2>1, <3>2, SMT DEF RefTarget
  <2>5. e = <<r[1], r[2], Max(Live(t[1], t[2]))>>
    BY <1>1, <2>1, <2>4 DEF Concrete
  <2>6. RefTarget(c, e) = <<t[1], t[2], Max(Live(t[1], t[2]))>>
    BY <2>5 DEF RefTarget
  <2> HIDE DEF t
  <2>7. LiveKey(<<t[1], t[2], Max(Live(t[1], t[2]))>>)
    BY <2>3, <2>4, LatestBody DEF LiveKey
  <2> QED  BY <2>6, <2>7
<1> QED  BY <1>3, <1>4

LEMMA LiveTargetsStay ==
    ASSUME LatestOnly, IInv, StoredLocal, RefbyHas, LiveTargets, [Next]_vars
    PROVE  LiveTargets'
<1>1. SUFFICES ASSUME NEW k \in DOMAIN versions', ~versions'[k].deleted,
                      NEW r \in Entity(k[1], k[2], k[3])'.refs, NEW t, t = RefTarget(k[1], r)
               PROVE  LiveKey(t)'
  BY DEF LiveTargets, LiveKey, RefTarget
<1>2. ASSUME k \in DOMAIN versions, versions'[k].id = versions[k].id, ~versions[k].deleted
      PROVE  r \in Entity(k[1], k[2], k[3]).refs /\ LiveKey(t) /\ LiveReferrers(t[1], t[2], t[3]) # {}
  <2>1. r \in Entity(k[1], k[2], k[3]).refs
    BY <1>1, <1>2, EntityStays
  <2>2. LiveKey(t)
    BY <1>1, <1>2, <2>1 DEF LiveTargets
  <2> QED  BY <1>1, <1>2, <2>1, <2>2, HasReferrer
<1>3. ASSUME NEW K, NEW also, Removes(K, also) PROVE LiveKey(t)'
  <2>1. /\ DOMAIN versions' = DOMAIN versions \ K
        /\ \A j \in DOMAIN versions' : versions'[j] = versions[j]
    BY <1>3, RemovesRows
  <2>2. LiveKey(t) /\ t \notin K
    BY <1>1, <1>2, <1>3, <2>1 DEF Removes
  <2> QED  BY <2>1, <2>2 DEF LiveKey
<1>4. ASSUME NEW c \in Contexts, NEW s \in Subjects, NEW K, Hides(c, s, K) PROVE LiveKey(t)'
  <2>1. /\ DOMAIN versions' = DOMAIN versions
        /\ \A j \in DOMAIN versions \ K : versions'[j] = versions[j]
        /\ \A j \in K : versions'[j].deleted
    BY <1>4, HidesRows
  <2>2. LiveKey(t) /\ LiveReferrers(t[1], t[2], t[3]) # {}
    BY <1>1, <1>2, <2>1
  <2>3. t \notin K
    BY <1>4, <2>2 DEF Hides
  <2> QED  BY <2>1, <2>2, <2>3 DEF LiveKey
<1>5. ASSUME Keeps PROVE LiveKey(t)'
  <2>1. LiveKey(t)
    BY <1>1, <1>2, <1>5 DEF Keeps
  <2> QED  BY <1>5, <2>1 DEF Keeps, LiveKey
<1>6. ASSUME NEW c \in Contexts, NEW s \in Subjects, NEW d \in Drafts,
             NEW v \in 1..MaxVersion, NEW i \in Ids, NEW x \in Contents,
             Registers(c, s, d, v, i, x)
      PROVE  LiveKey(t)'
  <2>1. Came(c, s, v, i, x) /\ RegisterSchema(c, s, d) /\ x = ContentOf(c, s, d)
    BY <1>6 DEF Registers
  <2>2. LiveKey(t)
    <3>1. CASE k = <<c, s, v>>
      <4>1. Entity(c, s, v)' = x
        BY <2>1, EntityCame
      <4>2. k[1] = c /\ r \in x.refs
        BY <1>1, <3>1, <4>1
      <4> QED  BY <1>1, <2>1, <4>2, RegistersLive
    <3>2. CASE k # <<c, s, v>>
      <4>1. k \in DOMAIN versions /\ versions'[k] = versions[k]
        BY <2>1, <3>2 DEF Came
      <4> QED  BY <1>1, <1>2, <4>1
    <3> QED  BY <3>1, <3>2
  <2>3. CASE t = <<c, s, v>>
    BY <2>1, <2>3 DEF Came, LiveKey
  <2>4. CASE t # <<c, s, v>>
    BY <2>1, <2>2, <2>4 DEF Came, LiveKey
  <2> QED  BY <2>3, <2>4
<1> QED  BY <1>3, <1>4, <1>5, <1>6, Kinds, RegistersOnce

\* What a live version references exists, and is live itself, as long as
\* requests refer to the newest version within their context: the registration
\* resolves to a live version, and every verb that hides or removes versions
\* asks the index of referrers first.
THEOREM NothingDangles ==
    ASSUME LocalRefs, LatestOnly
    PROVE  Spec => []NoDangling
<1> DEFINE Inv == StoredLocal /\ RefbyHas /\ LiveTargets
<1>1. Init => Inv
  BY DEF Init, StoredLocal, RefbyHas, LiveTargets, Nothing
<1>2. ASSUME IInv, Inv, [Next]_vars PROVE Inv'
  BY <1>2, LocalStays, RefbyHasStays, LiveTargetsStay
<1>3. Inv => NoDangling
  BY DEF NoDangling, LiveTargets, LiveKey
<1> HIDE DEF Inv
<1> QED  BY <1>1, <1>2, <1>3, Invariant, PTL DEF Spec

-----------------------------------------------------------------------------
\* Requests name no version and carry no number, and a text comes always with
\* or always without references.
Unnumbered  == \A d \in Drafts : d.version = 0 /\ d.cv = 0
SettledRefs == \A d, e \in Drafts : d.text = e.text => (d.refs = {} <=> e.refs = {})

Settled(x) == x.cv = 0 /\ \A d \in Drafts : d.text = x.text => (x.refs = {} <=> d.refs = {})
StoredSettled == \A ci \in DOMAIN bodies : Settled(bodies[ci])

LEMMA CanonicalSettled ==
    ASSUME NEW c, NEW t, NEW refs
    PROVE  LET x == [text |-> t, refs |-> refs, cv |-> 0]
           IN /\ Canonicalize(c, x).text = t /\ Canonicalize(c, x).cv = 0
              /\ Canonicalize(c, x).refs = {Concrete(c, r) : r \in refs}
  BY DEF Canonicalize

LEMMA LatestSettled ==
    ASSUME IInv, StoredSettled, NEW c \in Contexts, NEW s \in Subjects, Live(c, s) # {}
    PROVE  Settled(Entity(c, s, Max(Live(c, s))))
<1>1. PICK ci \in DOMAIN bodies : Entity(c, s, Max(Live(c, s))) = bodies[ci]
  BY LatestBody
<1> QED  BY <1>1 DEF StoredSettled

LEMMA PopulateSettled ==
    ASSUME Unnumbered, IInv, StoredSettled, NEW c \in Contexts, NEW s \in Subjects, NEW d \in Drafts,
           NEW import \in BOOLEAN
    PROVE  Populate(c, s, d, import) =
               LET repeat == ~import /\ d.text = Empty
                   old == Entity(c, s, Max(Live(c, s)))
               IN [text |-> IF repeat THEN old.text ELSE d.text,
                   refs |-> IF repeat THEN old.refs ELSE d.refs, cv |-> 0]
<1>1. Live(c, s) # {} => Entity(c, s, Max(Live(c, s))).cv = 0
  BY LatestSettled DEF Settled
<1>2. d.version = 0 /\ d.cv = 0
  BY DEF Unnumbered
<1> QED  BY <1>1, <1>2 DEF Populate

LEMMA ContentSettled ==
    ASSUME Unnumbered, SettledRefs, IInv, StoredSettled,
           NEW c \in Contexts, NEW s \in Subjects, NEW d \in Drafts, RegisterSchema(c, s, d)
    PROVE  Settled(ContentOf(c, s, d))
<1> DEFINE import == ModeInScope(c, s) = "IMPORT"
           old == Entity(c, s, Max(Live(c, s)))
           repeat == ~import /\ d.text = Empty
           text == IF repeat THEN old.text ELSE d.text
           refs == IF repeat THEN old.refs ELSE d.refs
<1>1. d.text = Empty => ~import /\ Live(c, s) # {}
  BY DEF RegisterSchema
<1>2. Populate(c, s, d, import) = [text |-> text, refs |-> refs, cv |-> 0]
  BY PopulateSettled
<1>3. \A e \in Drafts : e.text = text => (refs = {} <=> e.refs = {})
  BY <1>1, LatestSettled DEF Settled, SettledRefs
<1> HIDE DEF text, refs, import
<1> DEFINE raw == [text |-> text, refs |-> refs, cv |-> 0]
<1>4. ContentOf(c, s, d) = Canonicalize(c, raw)
  BY <1>2 DEF ContentOf, import
<1>5. /\ Canonicalize(c, raw).text = text /\ Canonicalize(c, raw).cv = 0
      /\ Canonicalize(c, raw).refs = {Concrete(c, r) : r \in refs}
  BY CanonicalSettled, SMT
<1> HIDE DEF raw
<1>6. Canonicalize(c, raw).refs = {} <=> refs = {}
  BY <1>5
<1> QED  BY <1>3, <1>4, <1>5, <1>6 DEF Settled

LEMMA SettledStays ==
    ASSUME Unnumbered, SettledRefs, IInv, StoredSettled, [Next]_vars
    PROVE  StoredSettled'
<1>1. CASE Fewer
  BY <1>1, SMT DEF Fewer, StoredSettled, Settled
<1>2. ASSUME NEW c \in Contexts, NEW s \in Subjects, NEW d \in Drafts,
             NEW v \in 1..MaxVersion, NEW i \in Ids, NEW x \in Contents,
             Registers(c, s, d, v, i, x)
      PROVE  StoredSettled'
  <2>1. Came(c, s, v, i, x) /\ RegisterSchema(c, s, d) /\ x = ContentOf(c, s, d)
    BY <1>2 DEF Registers
  <2>2. Settled(x)
    BY <2>1, ContentSettled
  <2>3. \A ci \in DOMAIN bodies' : Settled(bodies'[ci])
    BY <2>1, <2>2, SMT DEF Came, StoredSettled
  <2> QED  BY <2>3 DEF StoredSettled, Settled
<1> QED  BY <1>1, <1>2, Steps

\* The plan, which runs under the lock, answers every request that the lookup
\* without the lock would answer, whatever was written between the two
\* (register_fast_path, plan), when requests carry no version or number and a
\* text comes always with or always without references: then only the hash
\* index answers.
THEOREM PlanAgreesWithFastPath ==
    ASSUME Unnumbered, SettledRefs
    PROVE  Spec => []PlanAgrees
<1>1. Init => StoredSettled
  BY DEF Init, StoredSettled, Nothing
<1>2. ASSUME IInv, StoredSettled, [Next]_vars PROVE StoredSettled'
  BY <1>2, SettledStays
<1>3. ASSUME IInv, StoredSettled PROVE PlanAgrees
  <2> SUFFICES ASSUME NEW c \in Contexts, NEW s \in Subjects, NEW d \in Drafts,
                      d.version = 0, NEW e \in FastPath(c, s, d)
               PROVE  Registered(c, s, d, ContentOf(c, s, d))
    BY DEF PlanAgrees, ContentOf
  <2>0. d.cv = 0
    BY DEF Unnumbered
  <2> DEFINE x == Canonicalize(c, [text |-> d.text, refs |-> d.refs, cv |-> 0])
             hit == {i \in HashLookup(c, x) : d.version # -1 /\ HashLive(c, s, i)}
             found == {v \in Live(c, s) : /\ d.version = -1 => v = Max(Live(c, s))
                                          /\ CanLookup(x, Entity(c, s, v), v)}
  <2>1. d.text # Empty
    BY DEF FastPath, LookupUnderSubject
  <2>2. ContentOf(c, s, d) = x
    BY <1>3, <2>1, PopulateSettled DEF ContentOf
  <2>3. found = {}
    <3> SUFFICES ASSUME NEW v \in Live(c, s), CanLookup(x, Entity(c, s, v), v) PROVE FALSE
      OBVIOUS
    <3> DEFINE k == <<c, s, v>>
               y == Entity(c, s, v)
    <3>1. k \in DOMAIN versions /\ k[1] = c /\ k[2] = s /\ k[3] = v
      BY DEF Live, Rows
    <3> HIDE DEF k
    <3>2. PICK ci \in DOMAIN bodies : y = bodies[ci]
      BY <1>3, <3>1, EntityBody
    <3>3. Settled(y)
      BY <1>3, <3>2 DEF StoredSettled
    <3>4. x.text = d.text /\ x.cv = 0 /\ x.refs = {Concrete(c, r) : r \in d.refs}
      BY CanonicalSettled, SMT
    <3> HIDE DEF x, y
    <3>5. x.refs = {} <=> d.refs = {}
      BY <3>4
    <3> QED  BY <3>3, <3>4, <3>5 DEF CanLookup, Settled, y
  <2>4. e \in LookupUnderSubject(c, s, d) /\ (d.id < 0 \/ d.id = e.id)
    BY DEF FastPath
  <2>5. e \in IF hit # {}
              THEN {[version |-> Max(VersionsWithId(c, s, i)), id |-> i, content |-> x] : i \in hit}
              ELSE {[version |-> v, id |-> versions[<<c, s, v>>].id, content |-> Entity(c, s, v)] :
                       v \in {w \in found : w = Max(found)}}
    BY <2>0, <2>1, <2>4 DEF LookupUnderSubject
  <2> HIDE DEF x, found
  <2>6. hit # {}
    <3>1. {[version |-> v, id |-> versions[<<c, s, v>>].id, content |-> Entity(c, s, v)] :
              v \in {w \in found : w = Max(found)}} = {}
      BY <2>3
    <3> QED  BY <2>5, <3>1
  <2>7. e \in {[version |-> Max(VersionsWithId(c, s, i)), id |-> i, content |-> x] : i \in hit}
    BY <2>5, <2>6
  <2> HIDE DEF hit
  <2>8. PICK i \in hit : e.id = i
    BY <2>7, SMT
  <2>9. i \in HashLookup(c, x) /\ (d.id < 0 \/ d.id = i) /\ HashLive(c, s, i)
    BY <2>4, <2>8 DEF hit
  <2> QED  BY <2>2, <2>9 DEF Registered
<1> QED  BY <1>1, <1>2, <1>3, Invariant, PTL DEF Spec
=============================================================================
