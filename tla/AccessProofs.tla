---------------------------- MODULE AccessProofs ----------------------------
(***************************************************************************)
(* What TLAPS proves of Access, for any users, requests, slots and sizes   *)
(* of the cache: who is challenged for credentials, what a listing shows,  *)
(* and that no login is left out of the queue for a slot.                  *)
(***************************************************************************)
EXTENDS Access, SequenceTheorems, FiniteSetTheorems, TLAPS

\* A leaf that names no prover is proved by Zenon.
USE Zenon

\* Only credentials that are right are remembered.
VerifiedGood == \A k \in verified : \E u \in DOMAIN Users : k = <<u, Users[u].password>>

Shape == DOMAIN request = Procs /\ DOMAIN stage = Procs /\ DOMAIN answer = Procs

IInv == Shape /\ VerifiedGood /\ ChallengedRightly

LEMMA RememberedIsGood ==
    ASSUME VerifiedGood, NEW r, CacheKey(r.user, r.password) \in verified
    PROVE  Good(r)
<1>1. PICK u \in DOMAIN Users : <<r.user, r.password>> = <<u, Users[u].password>>
  BY DEF CacheKey, VerifiedGood
<1>2. r.user = u /\ r.password = Users[u].password
  BY <1>1
<1> QED  BY <1>2 DEF Good, Known

\* Routing and rewriting leave the credentials alone.
LEMMA ServedCredentials ==
    ASSUME NEW asked
    PROVE  Good(Served(asked)) <=> Good(asked)
<1>1. Served(asked).user = asked.user /\ Served(asked).password = asked.password
  BY DEF Served
<1> HIDE DEF Served
<1> QED  BY <1>1 DEF Good, Known

LEMMA DecisionIsNoChallenge ==
    ASSUME NEW r
    PROVE  Decision(r) \in {200, 403}
BY SMT DEF Decision

LEMMA ChallengeStep ==
    ASSUME IInv, [Next]_vars
    PROVE  IInv'
<1> USE DEF IInv
<1>1. ASSUME NEW p \in Procs, NEW asked \in Requests[p], Arrive(p, asked)
      PROVE  IInv'
  <2> DEFINE refused == RouteOf(asked.host) = 0 \/ Prematch(asked.method, asked.path, asked.query).refused
             served == IF refused THEN asked ELSE Served(asked)
  <2>1. /\ stage[p] = "idle"
        /\ request' = [request EXCEPT ![p] = served]
        /\ IF refused THEN Answer(p, IF RouteOf(asked.host) = 0 THEN 421 ELSE 400)
           ELSE IF asked.user = NoCredentials THEN Answer(p, 401)
           ELSE IF Known(asked) /\ CacheKey(asked.user, asked.password) \in verified THEN Answer(p, Decision(served))
           ELSE /\ stage' = [stage EXCEPT ![p] = "waiting"]
                /\ queue' = Append(queue, p)
                /\ UNCHANGED answer
        /\ UNCHANGED verified
    BY <1>1 DEF Arrive
  <2>2. ~refused => (Good(served) <=> Good(asked))
    BY ServedCredentials
  <2> HIDE DEF refused, served
  <2>3. Decision(served) \in {200, 403}
    BY DecisionIsNoChallenge
  <2>4. asked.user = NoCredentials => ~Good(asked)
    BY AccessAssumption DEF Good, Known
  <2>5. CacheKey(asked.user, asked.password) \in verified => Good(asked)
    BY RememberedIsGood
  <2>6. Shape' /\ VerifiedGood'
    <3>1. verified' = verified /\ DOMAIN request' = DOMAIN request
      BY <2>1
    <3>2. DOMAIN stage' = DOMAIN stage /\ DOMAIN answer' = DOMAIN answer
      BY <2>1 DEF Answer
    <3> QED  BY <3>1, <3>2 DEF Shape, VerifiedGood
  <2>7. \A o \in Procs \ {p} : /\ request'[o] = request[o]
                               /\ stage'[o] = stage[o]
                               /\ answer'[o] = answer[o]
    BY <2>1, SMT DEF Answer, Shape
  <2>8. request'[p] = served
    BY <2>1 DEF Shape
  <2>9. p \in InHand' => (answer'[p] = 401 <=> ~Good(served))
    BY <2>1, <2>2, <2>3, <2>4, <2>5, SMT DEF Answer, Shape, InHand
  <2> QED  BY <2>6, <2>7, <2>8, <2>9, SMT DEF ChallengedRightly, InHand
<1>2. ASSUME NEW p \in Procs, Acquire(p)
      PROVE  IInv'
  BY <1>2, SMT DEF Acquire, Shape, VerifiedGood, ChallengedRightly, InHand
<1>3. ASSUME NEW p \in Procs, Verify(p)
      PROVE  IInv'
  <2> DEFINE r == request[p]
             key == CacheKey(r.user, r.password)
  <2>1. /\ answer' = [answer EXCEPT ![p] = IF Good(r) THEN Decision(r) ELSE 401]
        /\ stage' = [stage EXCEPT ![p] = "answered"]
        /\ verified' = IF ~Good(r) THEN verified
                       ELSE (IF Cardinality(verified) > CacheLimit THEN {} ELSE verified) \cup {key}
        /\ UNCHANGED request
    BY <1>3 DEF Verify, Answer
  <2>3. Decision(r) \in {200, 403}
    BY DecisionIsNoChallenge, SMT
  <2>4. Good(r) => \E u \in DOMAIN Users : key = <<u, Users[u].password>>
    BY DEF Good, Known, CacheKey
  <2>5. Shape'
    BY <2>1 DEF Shape
  <2>6. VerifiedGood'
    <3> HIDE DEF key, r
    <3> QED  BY <2>1, <2>4 DEF VerifiedGood
  <2>7. \A o \in Procs \ {p} : request'[o] = request[o] /\ stage'[o] = stage[o] /\ answer'[o] = answer[o]
    BY <2>1 DEF Shape
  <2>8. request'[p] = r /\ (answer'[p] = 401 <=> ~Good(r))
    BY <2>1, <2>3, SMT DEF Shape
  <2> QED  BY <2>5, <2>6, <2>7, <2>8, SMT DEF ChallengedRightly, InHand
<1>6. ASSUME NEW p \in Procs, LookAgain(p)
      PROVE  IInv'
  <2> DEFINE r == request[p]
  <2>1. CASE /\ CacheKey(r.user, r.password) \in verified
             /\ Answer(p, Decision(r)) /\ UNCHANGED <<request, verified>>
    <3>0. Good(r)
      BY <2>1, RememberedIsGood
    <3>1. Good(r) /\ Decision(r) \in {200, 403}
      BY <3>0, DecisionIsNoChallenge, SMT
    <3>2. /\ answer' = [answer EXCEPT ![p] = Decision(r)]
          /\ stage' = [stage EXCEPT ![p] = "answered"]
          /\ request' = request /\ verified' = verified
      BY <2>1 DEF Answer
    <3>3. Shape' /\ VerifiedGood'
      BY <3>2 DEF Shape, VerifiedGood
    <3>4. \A o \in Procs \ {p} : stage'[o] = stage[o] /\ answer'[o] = answer[o]
      BY <3>2 DEF Shape
    <3>5. answer'[p] = Decision(r)
      BY <3>2 DEF Shape
    <3> HIDE DEF r
    <3>6. answer'[p] # 401
      BY <3>1, <3>5, SMT
    <3> QED  BY <3>1, <3>2, <3>3, <3>4, <3>6, SMT DEF ChallengedRightly, InHand, r
  <2>2. CASE stage' = [stage EXCEPT ![p] = "hashing"] /\ UNCHANGED <<queue, answer, request, verified>>
    BY <2>2, SMT DEF Shape, VerifiedGood, ChallengedRightly, InHand
  <2> QED  BY <1>6, <2>1, <2>2 DEF LookAgain
<1>4. ASSUME NEW p \in Procs, Leave(p)
      PROVE  IInv'
  BY <1>4, SMT DEF Leave, Shape, VerifiedGood, ChallengedRightly, InHand
<1>5. CASE UNCHANGED vars
  BY <1>5, SMT DEF vars, Shape, VerifiedGood, ChallengedRightly, InHand
<1> QED  BY <1>1, <1>2, <1>3, <1>4, <1>5, <1>6 DEF Next

\* Good credentials are never challenged and wrong ones always are, for any users and
\* requests, any number of them at a time and any limit of the cache: what a request
\* finds in the cache was put there for the very same credentials (auth.rs).
THEOREM OnlyWrongCredentialsAreChallenged == Spec => []ChallengedRightly
<1>1. Init => IInv
  BY SMT DEF Init, IInv, Shape, VerifiedGood, ChallengedRightly, InHand
<1>2. IInv /\ [Next]_vars => IInv'
  BY ChallengeStep
<1>3. IInv => ChallengedRightly
  BY DEF IInv
<1> QED  BY <1>1, <1>2, <1>3, PTL DEF Spec

-----------------------------------------------------------------------------
(* Listings and paths. *)
\* The strings; the provers do not know of a literal that it is one.
Symbols == STRING \cup {":", ".", "*"}

\* A name as it is written: no colon in its context, and a subject that does not begin
\* with a context of its own.
Spelled(q) ==
    /\ q = [context |-> q.context, subject |-> q.subject]
    /\ q.context \in Seq(Symbols) /\ q.subject \in Seq(Symbols)
    /\ q.context = Wildcard \/ (q.context # <<>> /\ q.context[1] = "." /\ ~Contains(q.context, ":"))
    /\ ~IsQualified(q.subject)

LEMMA TwoPrefix ==
    ASSUME NEW S, NEW a \in S, NEW b \in S, NEW t \in Seq(S)
    PROVE  IsPrefix(<<a, b>>, t) <=> Len(t) >= 2 /\ t[1] = a /\ t[2] = b
<1> DEFINE s == <<a, b>>
<1>1. s \in Seq(S)
  BY SMT
<1>2. Len(s) = 2 /\ s[1] = a /\ s[2] = b
  OBVIOUS
<1> HIDE DEF s
<1>3. SubSeq(s, 1, 2) = s
  BY <1>1, <1>2, SubSeqFull
<1>4. ASSUME Len(t) >= 2
      PROVE  SubSeq(t, 1, 2) = s <=> t[1] = a /\ t[2] = b
  <2> DEFINE u == SubSeq(t, 1, 2)
  <2>1. u \in Seq(S) /\ Len(u) = 2 /\ u[1] = t[1] /\ u[2] = t[2]
    BY <1>4, SMT
  <2> HIDE DEF u
  <2>2. ASSUME u[1] = s[1], u[2] = s[2]
        PROVE  u = s
    <3>1. \A i \in 1..Len(u) : u[i] = s[i]
      BY <2>1, <2>2, SMT
    <3> QED  BY <1>1, <1>2, <2>1, <3>1, SeqEqual
  <2> QED  BY <1>2, <2>1, <2>2 DEF u
<1>5. IsPrefix(s, t) <=> Len(t) >= 2 /\ SubSeq(t, 1, 2) = s
  BY <1>2, <1>3 DEF IsPrefix
<1> QED  BY <1>4, <1>5 DEF s

LEMMA ThreePrefix ==
    ASSUME NEW S, NEW a \in S, NEW b \in S, NEW c \in S, NEW t \in Seq(S)
    PROVE  IsPrefix(<<a, b, c>>, t) <=> Len(t) >= 3 /\ t[1] = a /\ t[2] = b /\ t[3] = c
<1> DEFINE s == <<a, b, c>>
<1>1. s \in Seq(S)
  BY SMT
<1>2. Len(s) = 3 /\ s[1] = a /\ s[2] = b /\ s[3] = c
  OBVIOUS
<1> HIDE DEF s
<1>3. SubSeq(s, 1, 3) = s
  BY <1>1, <1>2, SubSeqFull
<1>4. ASSUME Len(t) >= 3
      PROVE  SubSeq(t, 1, 3) = s <=> t[1] = a /\ t[2] = b /\ t[3] = c
  <2> DEFINE u == SubSeq(t, 1, 3)
  <2>1. u \in Seq(S) /\ Len(u) = 3 /\ u[1] = t[1] /\ u[2] = t[2] /\ u[3] = t[3]
    BY <1>4, SMT
  <2> HIDE DEF u
  <2>2. ASSUME u[1] = s[1], u[2] = s[2], u[3] = s[3]
        PROVE  u = s
    <3>1. \A i \in 1..Len(u) : u[i] = s[i]
      BY <2>1, <2>2, SMT
    <3> QED  BY <1>1, <1>2, <2>1, <3>1, SeqEqual
  <2> QED  BY <1>2, <2>1, <2>2 DEF u
<1>5. IsPrefix(s, t) <=> Len(t) >= 3 /\ SubSeq(t, 1, 3) = s
  BY <1>2, <1>3 DEF IsPrefix
<1> QED  BY <1>4, <1>5 DEF s

LEMMA Wrapped ==
    ASSUME NEW S, NEW x \in S, NEW c \in Seq(S), NEW s \in Seq(S), NEW raw, raw = <<x>> \o c \o <<x>> \o s
    PROVE  /\ raw \in Seq(S) /\ Len(raw) = 2 + Len(c) + Len(s) /\ raw[1] = x
           /\ \A i \in 1..Len(c) : raw[i + 1] = c[i]
           /\ raw[Len(c) + 2] = x
           /\ \A i \in 1..Len(s) : raw[Len(c) + 2 + i] = s[i]
<1> DEFINE m == <<x>>
           h == m \o c
           k == h \o m
<1>1. m \in Seq(S)
  BY SMT
<1>2. Len(m) = 1 /\ m[1] = x
  OBVIOUS
<1> HIDE DEF m
<1>3. /\ h \in Seq(S) /\ Len(h) = 1 + Len(c)
      /\ \A i \in 1..(1 + Len(c)) : h[i] = IF i <= 1 THEN m[i] ELSE c[i - 1]
  <2>1. /\ h \in Seq(S) /\ Len(h) = Len(m) + Len(c)
        /\ \A i \in 1..(Len(m) + Len(c)) : h[i] = IF i <= Len(m) THEN m[i] ELSE c[i - Len(m)]
    BY <1>1, ConcatProperties
  <2> QED  BY <1>2, <2>1
<1>4. Len(c) \in Nat /\ Len(s) \in Nat
  BY SMT
<1> HIDE DEF h
<1>5. /\ k \in Seq(S) /\ Len(k) = 2 + Len(c)
      /\ \A i \in 1..(2 + Len(c)) : k[i] = IF i <= 1 + Len(c) THEN h[i] ELSE m[i - (1 + Len(c))]
  <2>1. /\ k \in Seq(S) /\ Len(k) = Len(h) + Len(m)
        /\ \A i \in 1..(Len(h) + Len(m)) : k[i] = IF i <= Len(h) THEN h[i] ELSE m[i - Len(h)]
    BY <1>1, <1>3, ConcatProperties
  <2> QED  BY <1>2, <1>3, <1>4, <2>1, SMT
<1>6. raw = k \o s
  BY DEF k, h, m
<1> HIDE DEF k
<1>7. /\ raw \in Seq(S) /\ Len(raw) = 2 + Len(c) + Len(s)
      /\ \A i \in 1..(2 + Len(c) + Len(s)) : raw[i] = IF i <= 2 + Len(c) THEN k[i] ELSE s[i - (2 + Len(c))]
  <2>1. /\ raw \in Seq(S) /\ Len(raw) = Len(k) + Len(s)
        /\ \A i \in 1..(Len(k) + Len(s)) : raw[i] = IF i <= Len(k) THEN k[i] ELSE s[i - Len(k)]
    BY <1>5, <1>6, ConcatProperties, SMT
  <2> QED  BY <1>4, <1>5, <2>1
<1>8. raw[1] = x
  BY <1>2, <1>3, <1>4, <1>5, <1>7, SMT
<1>9. ASSUME NEW i \in 1..Len(c)
      PROVE  raw[i + 1] = c[i]
  <2>1. raw[i + 1] = k[i + 1] /\ k[i + 1] = h[i + 1] /\ h[i + 1] = c[(i + 1) - 1]
    BY <1>3, <1>4, <1>5, <1>7, SMT
  <2> QED  BY <2>1, <1>4, SMT
<1>10. raw[Len(c) + 2] = x
  <2>1. raw[Len(c) + 2] = k[Len(c) + 2] /\ k[Len(c) + 2] = m[(Len(c) + 2) - (1 + Len(c))]
    BY <1>4, <1>5, <1>7, SMT
  <2> QED  BY <2>1, <1>2, <1>4, SMT
<1>11. ASSUME NEW i \in 1..Len(s)
       PROVE  raw[Len(c) + 2 + i] = s[i]
  <2>1. raw[Len(c) + 2 + i] = s[(Len(c) + 2 + i) - (2 + Len(c))]
    BY <1>4, <1>7, SMT
  <2> QED  BY <2>1, <1>4, SMT
<1> QED  BY <1>7, <1>8, <1>9, <1>10, <1>11

\* A name reads back as what it was written from.
LEMMA ReadsBack ==
    ASSUME NEW q, Spelled(q)
    PROVE  ParseName(Qualify(q)) = q
<1> DEFINE c == q.context
           s == q.subject
<1>1. /\ q = [context |-> c, subject |-> s]
      /\ c \in Seq(Symbols) /\ s \in Seq(Symbols)
      /\ c = Wildcard \/ (c # <<>> /\ c[1] = "." /\ ~Contains(c, ":"))
      /\ ~IsPrefix(<<":", ".">>, s) /\ ~IsPrefix(<<":", "*", ":">>, s)
  BY DEF Spelled, IsQualified
<1>2. CASE c = Default
  BY <1>1, <1>2 DEF Qualify, ParseName
<1>3. ASSUME c # Default
      PROVE  ParseName(Qualify(q)) = q
  <2> DEFINE raw == <<":">> \o c \o <<":">> \o s
  <2>1. Qualify(q) = raw
    BY <1>3 DEF Qualify
  <2> HIDE DEF c, s
  <2>2. /\ ":" \in Symbols /\ "." \in Symbols /\ "*" \in Symbols
        /\ ":" # "." /\ "." # "*" /\ ":" # "*"
    <3>1. ":" \in Symbols /\ "." \in Symbols /\ "*" \in Symbols
      BY DEF Symbols
    <3>2. ":" # "." /\ "." # "*" /\ ":" # "*"
      OBVIOUS
    <3> QED  BY <3>1, <3>2
  <2>3. /\ raw \in Seq(Symbols) /\ Len(raw) = 2 + Len(c) + Len(s) /\ raw[1] = ":"
        /\ \A i \in 1..Len(c) : raw[i + 1] = c[i]
        /\ raw[Len(c) + 2] = ":"
        /\ \A i \in 1..Len(s) : raw[Len(c) + 2 + i] = s[i]
    BY <1>1, <2>2, Wrapped, SMT
  <2> HIDE DEF raw
  <2>4. Len(c) \in Nat /\ Len(s) \in Nat
    BY <1>1, SMT
  <2>5. From(raw, Len(c) + 3) = s
    <3>1. \A i \in (Len(c) + 3)..Len(raw) : raw[i] \in Symbols
      BY <2>3, <2>4, SMT
    <3> DEFINE f == SubSeq(raw, Len(c) + 3, Len(raw))
    <3>2. /\ f \in Seq(Symbols) /\ Len(f) = Len(s)
          /\ \A i \in 1..Len(s) : f[i] = raw[(Len(c) + 3) + i - 1]
      BY <2>3, <2>4, <3>1, SubSeqProperties, SMT
    <3> HIDE DEF f
    <3>3. ASSUME NEW i \in 1..Len(s)
          PROVE  f[i] = s[i]
      <4>1. (Len(c) + 3) + i - 1 = Len(c) + 2 + i
        BY <2>4, SMT
      <4> QED  BY <2>3, <3>2, <4>1
    <3> QED  BY <1>1, <3>2, <3>3, SeqEqual DEF From, f
  <2>6. CASE c = Wildcard
    <3>1. Len(c) = 1 /\ c[1] = "*"
      BY <2>6 DEF Wildcard
    <3>2. raw[2] = "*" /\ raw[3] = ":" /\ Len(raw) >= 3
      BY <2>3, <2>4, <3>1, SMT
    <3>3. ~IsPrefix(<<":", ".">>, raw)
      BY <2>2, <2>3, <3>2, TwoPrefix, SMT
    <3>4. IsPrefix(<<":", "*", ":">>, raw)
      BY <2>2, <2>3, <3>2, ThreePrefix
    <3>5. ParseName(raw) = [context |-> Wildcard, subject |-> From(raw, 4)]
      BY <3>3, <3>4 DEF ParseName
    <3> QED  BY <1>1, <2>1, <2>5, <2>6, <3>1, <3>5, SMT
  <2>7. CASE c # <<>> /\ c[1] = "." /\ ~Contains(c, ":")
    <3>1. Len(c) >= 1 /\ \A i \in 1..Len(c) : c[i] # ":"
      BY <1>1, <2>7, SMT DEF Contains
    <3>2. raw[2] = "." /\ Len(raw) >= 2
      BY <2>3, <2>4, <2>7, <3>1, SMT
    <3>3. IsPrefix(<<":", ".">>, raw)
      BY <2>2, <2>3, <3>2, TwoPrefix
    <3> DEFINE rest == From(raw, 3)
               I == {i \in 1..Len(rest) : rest[i] = ":"}
               colon == SelectInSeq(rest, LAMBDA x : x = ":")
    <3>4. /\ rest \in Seq(Symbols) /\ Len(rest) = Len(raw) - 2
          /\ \A i \in 1..(Len(raw) - 2) : rest[i] = raw[i + 2]
      <4>1. \A i \in 3..Len(raw) : raw[i] \in Symbols
        BY <2>3, SMT
      <4> DEFINE f == SubSeq(raw, 3, Len(raw))
      <4>2. /\ f \in Seq(Symbols) /\ Len(f) = Len(raw) - 2
            /\ \A i \in 1..(Len(raw) - 2) : f[i] = raw[3 + i - 1]
        BY <2>3, <3>2, <4>1, SubSeqProperties, SMT
      <4> HIDE DEF f
      <4>3. rest = f
        BY DEF From, f
      <4> QED  BY <2>3, <2>4, <4>2, <4>3, SMT
    <3>5. colon = IF I # {} THEN Min(I) ELSE 0
      BY DEF SelectInSeq
    <3> HIDE DEF rest
    <3>6. Len(c) \in I
      BY <2>3, <2>4, <3>1, <3>4, SMT
    <3>7. \A i \in I : i >= Len(c)
      <4> SUFFICES ASSUME NEW i \in 1..(Len(c) - 1)
                   PROVE  rest[i] # ":"
        BY <2>4, <3>4, SMT
      <4>1. rest[i] = raw[i + 2] /\ raw[(i + 1) + 1] = c[i + 1]
        BY <2>3, <2>4, <3>4, SMT
      <4> QED  BY <2>4, <3>1, <4>1, SMT
    <3>8. Min(I) = Len(c)
      <4>1. \A i \in I : i \in Int
        BY <2>3, SMT
      <4> QED  BY <3>6, <3>7, <4>1, SMT DEF Min
    <3>9. colon = Len(c)
      BY <3>5, <3>6, <3>8
    <3> HIDE DEF I, colon
    <3>10. Default \o SubSeq(rest, 1, Len(c) - 1) = c
      <4> DEFINE f == SubSeq(rest, 1, Len(c) - 1)
                 d == Default
                 g == d \o f
      <4>1. \A i \in 1..(Len(c) - 1) : rest[i] \in Symbols
        BY <2>3, <2>4, <3>4, SMT
      <4>2. /\ f \in Seq(Symbols) /\ Len(f) = Len(c) - 1
            /\ \A i \in 1..(Len(c) - 1) : f[i] = rest[1 + i - 1]
        <5>1. /\ f \in Seq(Symbols)
              /\ Len(f) = IF 1 <= Len(c) - 1 THEN (Len(c) - 1) - 1 + 1 ELSE 0
              /\ \A i \in 1..((Len(c) - 1) - 1 + 1) : f[i] = rest[1 + i - 1]
          BY <2>4, <4>1, SubSeqProperties, SMT
        <5> HIDE DEF f
        <5>2. (Len(c) - 1) - 1 + 1 = Len(c) - 1
          BY <2>4, SMT
        <5>3. Len(f) = Len(c) - 1
          <6>1. CASE 1 <= Len(c) - 1
            BY <2>4, <5>1, <5>2, <6>1
          <6>2. CASE Len(c) = 1
            BY <5>1, <6>2, SMT
          <6>3. Len(c) >= 1 /\ Len(c) \in Nat
            BY <2>4, <3>1
          <6>4. 1 <= Len(c) - 1 \/ Len(c) = 1
            BY <6>3, SMT
          <6> QED  BY <6>1, <6>2, <6>4
        <5>4. ASSUME NEW i \in 1..(Len(c) - 1)
              PROVE  f[i] = rest[1 + i - 1]
          <6>1. i \in 1..((Len(c) - 1) - 1 + 1)
            BY <2>4, SMT
          <6> QED  BY <5>1, <6>1
        <5> QED  BY <5>1, <5>3, <5>4
      <4>3. d \in Seq(Symbols) /\ Len(d) = 1 /\ d[1] = "."
        BY <2>2, SMT DEF Default
      <4> HIDE DEF f, d
      <4>4. /\ g \in Seq(Symbols) /\ Len(g) = Len(d) + Len(f)
            /\ \A i \in 1..(Len(d) + Len(f)) : g[i] = IF i <= Len(d) THEN d[i] ELSE f[i - Len(d)]
        BY <4>2, <4>3, ConcatProperties
      <4>5. ASSUME NEW i \in 1..Len(c)
            PROVE  g[i] = c[i]
        <5>1. CASE i = 1
          BY <2>4, <2>7, <4>2, <4>3, <4>4, <5>1, SMT
        <5>2. CASE i # 1
          <6>1. g[i] = f[i - 1] /\ f[i - 1] = rest[i - 1] /\ rest[i - 1] = raw[i + 1]
            BY <2>3, <2>4, <3>4, <4>2, <4>3, <4>4, <5>2, SMT
          <6> QED  BY <2>3, <6>1
        <5> QED  BY <5>1, <5>2
      <4>6. Len(g) = Len(c)
        BY <2>4, <4>2, <4>3, <4>4, SMT
      <4>7. g = c
        <5> HIDE DEF g
        <5> QED  BY <1>1, <4>4, <4>5, <4>6, SeqEqual
      <4> QED  BY <4>7 DEF f, d
    <3>11. From(rest, Len(c) + 1) = s
      <4> DEFINE f == SubSeq(rest, Len(c) + 1, Len(rest))
      <4>1. \A i \in (Len(c) + 1)..Len(rest) : rest[i] \in Symbols
        BY <2>4, <3>4, SMT
      <4>2. /\ f \in Seq(Symbols) /\ Len(f) = Len(s)
            /\ \A i \in 1..Len(s) : f[i] = rest[(Len(c) + 1) + i - 1]
        BY <2>3, <2>4, <3>1, <3>4, <4>1, SubSeqProperties, SMT
      <4> HIDE DEF f
      <4>3. ASSUME NEW i \in 1..Len(s)
            PROVE  f[i] = s[i]
        <5>1. (Len(c) + 1) + i - 1 = Len(c) + i /\ (Len(c) + i) + 2 = Len(c) + 2 + i
          BY <2>4, SMT
        <5>2. rest[Len(c) + i] = raw[(Len(c) + i) + 2]
          BY <2>3, <2>4, <3>4, SMT
        <5> QED  BY <2>3, <4>2, <5>1, <5>2
      <4> QED  BY <1>1, <4>2, <4>3, SeqEqual DEF From, f
    <3>12. colon # 0
      BY <3>1, <3>9, SMT
    <3>13. ParseName(raw) = [context |-> Default \o SubSeq(rest, 1, colon - 1), subject |-> From(rest, colon + 1)]
      BY <3>3, <3>12 DEF ParseName, rest, colon
    <3> QED  BY <1>1, <2>1, <3>9, <3>10, <3>11, <3>13
  <2> QED  BY <1>1, <2>6, <2>7
<1> QED  BY <1>2, <1>3

\* What a path of a subject is about.
LEMMA SubjectPaths ==
    ASSUME NEW q, Spelled(q), NEW path \in PathsOf(q)
    PROVE  TargetOf(path) = Target("subject", q)
<1> DEFINE n == Qualify(q)
<1>1. ParseName(n) = q
  BY ReadsBack
<1> HIDE DEF n
<1>2. CASE path = <<Word("subjects"), n>>
  BY <1>1, <1>2, SMT DEF TargetOf, Word
<1>3. CASE path = <<Word("subjects"), n, Word("versions")>>
  BY <1>1, <1>3, SMT DEF TargetOf, Word
<1>4. CASE path = <<Word("admin"), Word("api"), Word("subjects"), n>>
  <2>1. /\ DOMAIN path = 1..4 /\ Len(path) = 4 /\ path[1] = <<"admin">> /\ path[2] = <<"api">>
        /\ path[3] = <<"subjects">> /\ path[4] = n
    BY <1>4, SMT DEF Word
  <2>2. IsPrefix(Append(<<Word("admin"), Word("api")>>, Word("subjects")), path)
    BY <1>4, SMT DEF IsPrefix, Word
  <2> QED  BY <1>1, <2>1, <2>2, SMT DEF TargetOf, Word
<1> QED  BY <1>2, <1>3, <1>4 DEF PathsOf, n

\* What a listing shows and what the paths allow, for one name and one principal.
LEMMA Agreement ==
    ASSUME NEW q, Spelled(q), NEW c
    PROVE  /\ HasAnyRole(c) =>
                (CanSeeSubject(c, q) <=> Authorized(c, "GET", <<Word("subjects"), Qualify(q), Word("versions")>>))
           /\ CanSeeSubject(c, q) => CanSeeContext(c, q.context)
           /\ IsAdminOf(c, q) =>
                \A path \in PathsOf(q) : \A m \in {"GET", "POST", "PUT", "DELETE"} : Authorized(c, m, path)
<1>1. CanSeeSubject(c, q) => CanSeeContext(c, q.context)
  BY DEF CanSeeSubject, CanSeeContext, Matches, TouchesContext
<1>2. \A path \in PathsOf(q) : \A m : Authorized(c, m, path) <=>
          Allows(RolesForSubject(c, q), m, path, Target("subject", q))
  <2> TAKE path \in PathsOf(q)
  <2> TAKE m
  <2>1. TargetOf(path) = Target("subject", q)
    BY SubjectPaths
  <2>2. Target("subject", q).kind = "subject" /\ Target("subject", q).q = q
    BY DEF Target
  <2> QED  BY <2>1, <2>2 DEF Authorized
<1>3. IsAdminOf(c, q) => "admin" \in RolesForSubject(c, q)
  BY DEF IsAdminOf, RolesForSubject
<1>4. IsAdminOf(c, q) => \A path \in PathsOf(q) : \A m \in {"GET", "POST", "PUT", "DELETE"} : Authorized(c, m, path)
  BY <1>2, <1>3 DEF Allows
<1>5. ASSUME HasAnyRole(c)
      PROVE  CanSeeSubject(c, q) <=> RolesForSubject(c, q) # {}
  BY <1>5 DEF HasAnyRole, CanSeeSubject, SeesEverything, RolesForSubject
<1> DEFINE versions == <<Word("subjects"), Qualify(q), Word("versions")>>
<1>6. versions \in PathsOf(q)
  BY DEF PathsOf
<1>7. ~IsWholeProcess(versions) /\ ~RevealsCredentials(versions)
  BY DEF IsWholeProcess, IsAdminUi, RevealsCredentials, Word
<1> HIDE DEF versions
<1>8. Allows(RolesForSubject(c, q), "GET", versions, Target("subject", q)) <=> RolesForSubject(c, q) # {}
  BY <1>7 DEF Allows, Reads
<1> QED  BY <1>1, <1>2, <1>4, <1>5, <1>6, <1>8 DEF versions

SubjectsSpelled == \A q \in Subjects : Spelled(q)

\* Whatever users, roles, bindings and patterns are configured: the listings show a
\* caller with a role exactly the subjects whose paths they may read, and the contexts
\* of these, and the admin page offers nothing that is then refused (authz.rs).  The
\* names are ones that read back as they are written: a subject of the default context
\* that begins like a context does (:.:.x:) is listed under another name.
THEOREM ListingsShowWhatPathsAllow == Spec => [](SubjectsSpelled => ListingsAgree)
<1>1. SubjectsSpelled => ListingsAgree
  BY Agreement DEF SubjectsSpelled, ListingsAgree
<1> QED  BY <1>1, PTL

-----------------------------------------------------------------------------
(***************************************************************************)
(* The queue for a slot, and the limits.                                   *)
(***************************************************************************)
\* Whoever waits stands in the queue, once; nobody else does.
Queued ==
    /\ \A p \in Procs : stage[p] = "waiting" <=> \E i \in 1..Len(queue) : queue[i] = p
    /\ \A i, j \in 1..Len(queue) : queue[i] = queue[j] => i = j

\* No more verifications run than there are slots, and the cache is emptied in time.
WithinLimits == Cardinality(Verifying) <= Slots /\ Cardinality(verified) <= CacheLimit + 1

Stages == {"idle", "waiting", "verifying", "hashing", "answered"}

WaitTypes ==
    /\ stage \in [Procs -> Stages]
    /\ queue \in Seq(Procs) /\ IsFiniteSet(verified)

WaitInv == WaitTypes /\ Queued /\ WithinLimits

LEMMA VerifyingFinite == IsFiniteSet(Verifying) /\ Cardinality(Verifying) \in Nat
<1>1. IsFiniteSet(Verifying)
  BY LimitsAssumption, FS_Subset DEF Verifying
<1> QED  BY <1>1, FS_CardinalityType

\* A step of p that joins no queue and takes no slot it does not have.
LEMMA StageKeeps ==
    ASSUME WaitInv, NEW p \in Procs, NEW to \in {"idle", "hashing", "answered"}, stage[p] # "waiting",
           to = "hashing" => stage[p] = "verifying",
           stage' = [stage EXCEPT ![p] = to], UNCHANGED queue
    PROVE  /\ stage' \in [Procs -> Stages] /\ Queued'
           /\ Cardinality(Verifying') <= Slots
<1>1. stage' \in [Procs -> Stages]
  BY SMT DEF WaitInv, WaitTypes, Stages
<1>2. \A q \in Procs : stage'[q] = "waiting" <=> stage[q] = "waiting"
  BY SMT DEF WaitInv, WaitTypes
<1>3. Queued'
  BY <1>2 DEF WaitInv, Queued
<1>4. Verifying' \subseteq Verifying
  BY SMT DEF WaitInv, WaitTypes, Verifying
<1>5. Cardinality(Verifying') <= Cardinality(Verifying) /\ Cardinality(Verifying') \in Nat
  BY <1>4, VerifyingFinite, FS_Subset, FS_CardinalityType
<1>6. Cardinality(Verifying') <= Slots
  BY <1>5, VerifyingFinite, LimitsAssumption, SMT DEF WaitInv, WithinLimits
<1> QED  BY <1>1, <1>3, <1>6

LEMMA ArriveWaits ==
    ASSUME WaitInv, NEW p \in Procs, NEW asked \in Requests[p], Arrive(p, asked)
    PROVE  WaitInv'
<1>1. stage[p] = "idle" /\ verified' = verified
  BY DEF Arrive
<1>2. \/ \E status : Answer(p, status)
      \/ stage' = [stage EXCEPT ![p] = "waiting"] /\ queue' = Append(queue, p)
  <2> DEFINE refused == RouteOf(asked.host) = 0 \/ Prematch(asked.method, asked.path, asked.query).refused
             served == IF refused THEN asked ELSE Served(asked)
  <2>1. IF refused THEN Answer(p, IF RouteOf(asked.host) = 0 THEN 421 ELSE 400)
        ELSE IF asked.user = NoCredentials THEN Answer(p, 401)
        ELSE IF Known(asked) /\ CacheKey(asked.user, asked.password) \in verified THEN Answer(p, Decision(served))
        ELSE /\ stage' = [stage EXCEPT ![p] = "waiting"]
             /\ queue' = Append(queue, p)
             /\ UNCHANGED answer
    BY DEF Arrive
  <2> HIDE DEF refused, served
  <2>2. CASE refused
    BY <2>1, <2>2
  <2>3. CASE ~refused /\ asked.user = NoCredentials
    BY <2>1, <2>3
  <2>4. CASE ~refused /\ asked.user # NoCredentials
    BY <2>1, <2>4
  <2> QED  BY <2>2, <2>3, <2>4
<1>3. CASE \E status : Answer(p, status)
  <2>1. stage' = [stage EXCEPT ![p] = "answered"] /\ UNCHANGED queue
    BY <1>3 DEF Answer
  <2> QED  BY <1>1, <2>1, StageKeeps DEF WaitInv, WaitTypes, WithinLimits
<1>4. CASE stage' = [stage EXCEPT ![p] = "waiting"] /\ queue' = Append(queue, p)
  <2>0. queue \in Seq(Procs) /\ Len(queue) \in Nat
    BY SMT DEF WaitInv, WaitTypes
  <2>1. /\ queue' \in Seq(Procs) /\ Len(queue') = Len(queue) + 1 /\ queue'[Len(queue) + 1] = p
        /\ \A i \in 1..Len(queue) : queue'[i] = queue[i]
    BY <1>4, <2>0, SMT
  <2>2. stage' \in [Procs -> Stages]
    BY <1>4, SMT DEF WaitInv, WaitTypes, Stages
  <2>3. \A q \in Procs : stage'[q] = IF q = p THEN "waiting" ELSE stage[q]
    BY <1>4, SMT DEF WaitInv, WaitTypes
  <2>4. \A i \in 1..Len(queue) : queue[i] # p
    BY <1>1 DEF WaitInv, Queued
  <2>5. \A q \in Procs : stage'[q] = "waiting" <=> \E i \in 1..Len(queue') : queue'[i] = q
    BY <2>0, <2>1, <2>3, SMT DEF WaitInv, Queued
  <2>6. \A i, j \in 1..Len(queue') : queue'[i] = queue'[j] => i = j
    BY <2>0, <2>1, <2>4, SMT DEF WaitInv, Queued
  <2>7. Verifying' = Verifying
    BY <1>1, <2>3, SMT DEF Verifying
  <2> QED  BY <1>1, <2>1, <2>2, <2>5, <2>6, <2>7 DEF WaitInv, WaitTypes, Queued, WithinLimits
<1> QED  BY <1>2, <1>3, <1>4

LEMMA AcquireWaits ==
    ASSUME WaitInv, NEW p \in Procs, Acquire(p)
    PROVE  WaitInv'
<1>0. queue \in Seq(Procs) /\ Len(queue) \in Nat /\ Len(queue) > 0
  BY SMT DEF WaitInv, WaitTypes, Acquire
<1>1. /\ queue' \in Seq(Procs) /\ Len(queue') = Len(queue) - 1 /\ queue[1] = p
      /\ \A i \in 1..Len(queue') : queue'[i] = queue[i + 1]
  BY <1>0, SMT DEF Acquire
<1>2. stage' \in [Procs -> Stages]
  BY SMT DEF Acquire, WaitInv, WaitTypes, Stages
<1>3. \A q \in Procs : stage'[q] = IF q = p THEN "verifying" ELSE stage[q]
  BY SMT DEF Acquire, WaitInv, WaitTypes
<1>4. stage[p] = "waiting"
  BY <1>0, <1>1, SMT DEF WaitInv, Queued
<1>5. ASSUME NEW q \in Procs
      PROVE  stage'[q] = "waiting" <=> \E i \in 1..Len(queue') : queue'[i] = q
  <2>1. CASE q = p
    <3>1. \A i \in 1..Len(queue') : queue'[i] # p
      BY <1>0, <1>1, SMT DEF WaitInv, Queued
    <3> QED  BY <1>3, <2>1, <3>1, SMT
  <2>2. CASE q # p
    <3>1. ASSUME NEW i \in 1..Len(queue), queue[i] = q
          PROVE  i - 1 \in 1..Len(queue') /\ queue'[i - 1] = q
      BY <1>0, <1>1, <2>2, <3>1, SMT
    <3>2. ASSUME NEW i \in 1..Len(queue'), queue'[i] = q
          PROVE  i + 1 \in 1..Len(queue) /\ queue[i + 1] = q
      BY <1>0, <1>1, <3>2, SMT
    <3>3. stage'[q] = "waiting" <=> \E i \in 1..Len(queue) : queue[i] = q
      BY <1>3, <2>2 DEF WaitInv, Queued
    <3> QED  BY <3>1, <3>2, <3>3
  <2> QED  BY <2>1, <2>2
<1>6. \A i, j \in 1..Len(queue') : queue'[i] = queue'[j] => i = j
  BY <1>0, <1>1, SMT DEF WaitInv, Queued
<1>7. Verifying' = Verifying \cup {p} /\ p \notin Verifying
  BY <1>3, <1>4, SMT DEF Verifying
<1>8. Cardinality(Verifying') = Cardinality(Verifying) + 1
  BY <1>7, VerifyingFinite, FS_AddElement
<1>9. Cardinality(Verifying') <= Slots
  BY <1>8, VerifyingFinite, LimitsAssumption, SMT DEF Acquire
<1> QED  BY <1>1, <1>2, <1>5, <1>6, <1>9 DEF Acquire, WaitInv, WaitTypes, Queued, WithinLimits

LEMMA VerifyWaits ==
    ASSUME WaitInv, NEW p \in Procs, Verify(p)
    PROVE  WaitInv'
<1>1. stage[p] = "hashing" /\ stage' = [stage EXCEPT ![p] = "answered"] /\ UNCHANGED queue
  BY DEF Verify, Answer
<1>2. /\ stage' \in [Procs -> Stages] /\ Queued'
      /\ Cardinality(Verifying') <= Slots
  BY <1>1, StageKeeps
<1>3. IsFiniteSet(verified) /\ Cardinality(verified) \in Nat /\ Cardinality(verified) <= CacheLimit + 1
  BY FS_CardinalityType DEF WaitInv, WaitTypes, WithinLimits
<1>4. PICK key : \/ verified' = verified
                 \/ key \notin verified /\ ~(Cardinality(verified) > CacheLimit) /\ verified' = verified \cup {key}
                 \/ verified' = {} \cup {key}
  <2> DEFINE r == request[p]
             key == CacheKey(r.user, r.password)
  <2>1. verified' = IF ~Good(r) THEN verified
                    ELSE (IF Cardinality(verified) > CacheLimit THEN {} ELSE verified) \cup {key}
    BY DEF Verify
  <2> HIDE DEF r, key
  <2>2. key \in verified => verified \cup {key} = verified
    OBVIOUS
  <2> QED  BY <2>1, <2>2
<1>5. IsFiniteSet(verified') /\ Cardinality(verified') <= CacheLimit + 1
  <2>1. CASE verified' = verified
    BY <1>3, <2>1
  <2>2. CASE key \notin verified /\ ~(Cardinality(verified) > CacheLimit) /\ verified' = verified \cup {key}
    <3>1. IsFiniteSet(verified') /\ Cardinality(verified') = Cardinality(verified) + 1
      BY <1>3, <2>2, FS_AddElement
    <3> QED  BY <1>3, <2>2, <3>1, LimitsAssumption, SMT
  <2>3. CASE verified' = {} \cup {key}
    <3>1. IsFiniteSet(verified') /\ Cardinality(verified') = 1
      <4>1. verified' = {key}
        BY <2>3
      <4> QED  BY <4>1, FS_Singleton
    <3> QED  BY <3>1, LimitsAssumption, SMT
  <2> QED  BY <1>4, <2>1, <2>2, <2>3
<1> QED  BY <1>1, <1>2, <1>5 DEF WaitInv, WaitTypes, WithinLimits

LEMMA LookWaits ==
    ASSUME WaitInv, NEW p \in Procs, LookAgain(p)
    PROVE  WaitInv'
<1>1. /\ stage[p] = "verifying" /\ UNCHANGED <<queue, verified>>
      /\ \/ stage' = [stage EXCEPT ![p] = "answered"]
         \/ stage' = [stage EXCEPT ![p] = "hashing"]
  BY DEF LookAgain, Answer
<1>2. CASE stage' = [stage EXCEPT ![p] = "answered"]
  BY <1>1, <1>2, StageKeeps DEF WaitInv, WaitTypes, WithinLimits
<1>3. CASE stage' = [stage EXCEPT ![p] = "hashing"]
  BY <1>1, <1>3, StageKeeps DEF WaitInv, WaitTypes, WithinLimits
<1> QED  BY <1>1, <1>2, <1>3

LEMMA WaitStep == WaitInv /\ [Next]_vars => WaitInv'
<1> SUFFICES ASSUME WaitInv, [Next]_vars PROVE WaitInv'
  OBVIOUS
<1>1. ASSUME NEW p \in Procs, Leave(p) PROVE WaitInv'
  <2>1. stage[p] = "answered" /\ stage' = [stage EXCEPT ![p] = "idle"] /\ UNCHANGED <<queue, verified>>
    BY <1>1 DEF Leave
  <2> QED  BY <2>1, StageKeeps DEF WaitInv, WaitTypes, WithinLimits
<1>2. CASE UNCHANGED vars
  BY <1>2 DEF vars, WaitInv, WaitTypes, Queued, WithinLimits, Verifying
<1> QED  BY <1>1, <1>2, ArriveWaits, AcquireWaits, LookWaits, VerifyWaits DEF Next

LEMMA WaitInit == Init => WaitInv
<1> SUFFICES ASSUME Init PROVE WaitInv
  OBVIOUS
<1>1. Verifying = {} /\ verified = {}
  BY SMT DEF Init, Verifying
<1>2. Cardinality(Verifying) = 0 /\ Cardinality(verified) = 0 /\ IsFiniteSet(verified)
  BY <1>1, FS_EmptySet
<1>3. stage \in [Procs -> Stages] /\ queue \in Seq(Procs) /\ Queued
  BY SMT DEF Init, Queued, Stages
<1>4. WithinLimits
  BY <1>2, LimitsAssumption, SMT DEF WithinLimits
<1> QED  BY <1>2, <1>3, <1>4 DEF WaitInv, WaitTypes

\* Whoever waits for one of bcrypt_slots keeps one place in the queue until the
\* slot is theirs: no wakeup is lost, and nobody stands before others twice.
THEOREM NoLoginIsForgotten == Spec => []Queued
<1>1. WaitInv => Queued
  BY DEF WaitInv
<1> QED  BY <1>1, WaitInit, WaitStep, PTL DEF Spec

\* However many logins come at once, at most Slots of them are verified at a time, and
\* the cache of verified credentials holds at most one more than its limit.
THEOREM LoginsStayWithinLimits == Spec => []WithinLimits
<1>1. WaitInv => WithinLimits
  BY DEF WaitInv
<1> QED  BY <1>1, WaitInit, WaitStep, PTL DEF Spec
=============================================================================
