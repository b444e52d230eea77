------------------------------- MODULE Access -------------------------------
(***************************************************************************)
(* A request from its arrival to the handler: the container it is routed   *)
(* to (containers.rs), the rewriting of its path (api/rewrite.rs), the     *)
(* verification of its credentials behind a cache and a limit on           *)
(* concurrency (auth.rs), and whether the caller may do it (authz.rs).     *)
(*                                                                         *)
(* A name is a sequence of words and of the marks ":", "." and "*"; a path *)
(* is a sequence of names.  Paths have no empty segments, as clean_path    *)
(* leaves them, and are not percent-encoded.  Methods are "GET" (for HEAD  *)
(* and OPTIONS too), "POST", "PUT" and "DELETE".                           *)
(***************************************************************************)
EXTENDS Naturals, FiniteSets, FiniteSetsExt, Sequences, SequencesExt

CONSTANTS
    Procs,        \* the requests served at a time
    Requests,     \* for each of them, the requests it may be
    Users,        \* the configured users: [password, principal]
    Routes,       \* the hosts of each container, in order: [host, container]
    Aliases,      \* the alias that a subject's configuration names
    Slots,        \* BCRYPT_CONCURRENCY
    CacheLimit    \* how many verified credentials are kept

\* A request without an Authorization header is the one of no user.
NoCredentials == "none"

ASSUME AccessAssumption == NoCredentials \notin DOMAIN Users
ASSUME LimitsAssumption == IsFiniteSet(Procs) /\ Slots \in Nat /\ CacheLimit \in Nat

VARIABLES
    request,      \* what each is serving, its path rewritten
    stage,        \* "idle", "waiting", "verifying", "hashing" or "answered"
    queue,        \* who waits for a slot, in order
    verified,     \* the credentials found good
    answer        \* the status given

vars == <<request, stage, queue, verified, answer>>

-----------------------------------------------------------------------------
(* Names with contexts (context.rs). *)
Default == <<".">>
Wildcard == <<"*">>
Word(w) == <<w>>
From(s, i) == SubSeq(s, i, Len(s))

ParseName(raw) ==
    LET rest == From(raw, 3)
        colon == SelectInSeq(rest, LAMBDA x : x = ":")
    IN IF IsPrefix(<<":", ".">>, raw)
       THEN IF colon # 0
            THEN [context |-> Default \o SubSeq(rest, 1, colon - 1), subject |-> From(rest, colon + 1)]
            ELSE [context |-> Tail(raw), subject |-> <<>>]
       ELSE IF IsPrefix(<<":", "*", ":">>, raw) THEN [context |-> Wildcard, subject |-> From(raw, 4)]
       ELSE [context |-> Default, subject |-> raw]

Qualify(q) == IF q.context = Default THEN q.subject ELSE <<":">> \o q.context \o <<":">> \o q.subject

Dotted(c) == IF IsPrefix(Default, c) THEN c ELSE Default \o c

-----------------------------------------------------------------------------
(* Rewriting: /contexts/{context}/... and aliases. *)
IsQualified(s) == IsPrefix(<<":", ".">>, s) \/ IsPrefix(<<":", "*", ":">>, s)

\* normalize_context: what stands before a name of the context.
Stripped(c) ==
    LET left == IF IsPrefix(<<":">>, c) THEN Tail(c) ELSE c
    IN IF IsSuffix(<<":">>, left) THEN Front(left) ELSE left
Refused(c) == Contains(Stripped(c), ":")
PrefixOf(c) == IF Dotted(Stripped(c)) = Default THEN <<>> ELSE <<":">> \o Dotted(Stripped(c)) \o <<":">>

Within(c, s) == IF IsQualified(s) THEN s ELSE PrefixOf(c) \o s

\* context_filter_path: the segments in turn, the context being the one last named.
FilterSegment(acc, seg) ==
    LET rooted == acc.out = <<>> /\ seg \in {Word("config"), Word("mode")}
    IN IF acc.naming THEN [acc EXCEPT !.context = seg, !.naming = FALSE]
       ELSE IF seg = Word("contexts") THEN [acc EXCEPT !.naming = TRUE]
       ELSE [acc EXCEPT !.out = Append(@, IF acc.subject THEN Within(acc.context, seg) ELSE seg),
                        !.subject = seg = Word("subjects") \/ rooted,
                        !.setting = @ \/ rooted]

ContextFilter(path) ==
    LET end == FoldLeft(FilterSegment, [out |-> <<>>, context |-> Default, naming |-> FALSE,
                                        subject |-> FALSE, setting |-> FALSE], path)
        own == PrefixOf(end.context)
    IN [path |-> IF end.setting /\ end.subject THEN end.out \o (IF own = <<>> THEN <<>> ELSE <<own>>)
                 ELSE IF end.naming THEN Append(end.out, Word("contexts")) ELSE end.out,
        context |-> end.context]

\* context_filter_query: a schema by its id, and the listings, are asked of the context.
FilterQuery(path, context, query) ==
    IF Len(path) >= 2 /\ path[1] = Word("schemas") /\ path[2] = Word("ids")
    THEN [query EXCEPT !.subject = Within(context, @)]
    ELSE IF path \in {<<Word("schemas")>>, <<Word("subjects")>>}
    THEN [query EXCEPT !.prefixes = LET given == IF @ = <<>> THEN <<<<>>>> ELSE @
                                    IN [i \in DOMAIN given |-> Within(context, given[i])]]
    ELSE query

\* Mutant: an alias is in the default context unless it says otherwise.
AliasedPlain(raw) ==
    IF raw = <<>> \/ ParseName(raw) \notin DOMAIN Aliases THEN raw ELSE Qualify(ParseName(Aliases[ParseName(raw)]))

\* The alias of a subject is in the subject's context unless it says otherwise.
Aliased(raw) ==
    LET q == ParseName(raw)
        a == ParseName(Aliases[q])
    IN IF raw = <<>> \/ q \notin DOMAIN Aliases THEN raw
       ELSE Qualify(IF a.context = Default /\ q.context # Default
                    THEN [context |-> q.context, subject |-> Aliases[q]] ELSE a)

AliasFilter(path) ==
    [i \in DOMAIN path |-> IF i > 1 /\ path[i - 1] = Word("subjects") THEN Aliased(path[i]) ELSE path[i]]

\* prematch: the path and the parameters that are routed and authorised.
Prematch(method, path, query) ==
    LET filters == Len(path) > 1 /\ path[1] = Word("contexts") /\ ~(method = "DELETE" /\ Len(path) = 2)
        filtered == ContextFilter(path)
        inContext == IF filters
                     THEN [path |-> filtered.path, query |-> FilterQuery(filtered.path, filtered.context, query)]
                     ELSE [path |-> path, query |-> query]
        out == AliasFilter(inContext.path)
    IN [refused |-> filters /\ Refused(filtered.context), path |-> out,
        query |-> IF Len(out) >= 2 /\ out[1] = Word("schemas") /\ out[2] = Word("ids")
                  THEN [inContext.query EXCEPT !.subject = Aliased(@)] ELSE inContext.query]

-----------------------------------------------------------------------------
(* Patterns: a context and a subject, both with wildcards. *)
\* The parts between wildcards, none empty.
PartsOf(glob) ==
    LET step(acc, x) == IF x = "*" THEN Append(acc, <<>>) ELSE [acc EXCEPT ![Len(acc)] = Append(@, x)]
    IN SelectSeq(FoldLeft(step, <<<<>>>>, glob), LAMBDA p : p # <<>>)

\* Where the part first occurs in what is left, 0 if nowhere.
FindIn(s, part) ==
    SelectInSeq([i \in 1..(Len(s) + 1) |-> IsPrefix(part, From(s, i))], LAMBDA found : found)

\* Mutant: nothing need follow the last part.
GlobMatchesAhead(glob, s) ==
    LET step(acc, part) ==
          LET at == IF acc.first /\ Head(glob) # "*" THEN (IF IsPrefix(part, s) THEN 1 ELSE 0) ELSE FindIn(acc.rest, part)
          IN [ok |-> acc.ok /\ at # 0, first |-> FALSE, rest |-> From(acc.rest, at + Len(part))]
    IN IF glob = Wildcard THEN TRUE
       ELSE IF ~Contains(glob, "*") THEN glob = s
       ELSE FoldLeft(step, [ok |-> TRUE, first |-> TRUE, rest |-> s], PartsOf(glob)).ok

GlobMatches(glob, s) ==
    LET step(acc, part) ==
          LET at == IF acc.first /\ Head(glob) # "*" THEN (IF IsPrefix(part, s) THEN 1 ELSE 0) ELSE FindIn(acc.rest, part)
          IN [ok |-> acc.ok /\ at # 0, first |-> FALSE, rest |-> From(acc.rest, at + Len(part))]
        end == FoldLeft(step, [ok |-> TRUE, first |-> TRUE, rest |-> s], PartsOf(glob))
    IN IF glob = Wildcard THEN TRUE
       ELSE IF ~Contains(glob, "*") THEN glob = s
       ELSE end.ok /\ (Last(glob) = "*" \/ end.rest = <<>>)

\* A pattern of a binding: [context, subject].
Matches(pattern, q) == GlobMatches(pattern.context, q.context) /\ GlobMatches(pattern.subject, q.subject)
CoversContext(pattern, c) == GlobMatches(pattern.context, c) /\ pattern.subject = Wildcard
TouchesContext(pattern, c) == GlobMatches(pattern.context, c)

-----------------------------------------------------------------------------
(* A principal: roles everywhere, and bindings [role, pattern]. *)
MayUse(p, container) == p.containers = {} \/ container \in p.containers

RolesForSubject(p, q) == p.roles \cup {b.role : b \in {b \in p.bindings : Matches(b.pattern, q)}}
RolesForContext(p, c) == p.roles \cup {b.role : b \in {b \in p.bindings : CoversContext(b.pattern, c)}}
SeesEverything(p) == p.roles # {} \/ p.bindings = {}

\* Mutant: a subject is seen by whoever sees its context.
CanSeeSubjectOfContext(p, q) == SeesEverything(p) \/ \E b \in p.bindings : TouchesContext(b.pattern, q.context)
CanSeeSubject(p, q) == SeesEverything(p) \/ \E b \in p.bindings : Matches(b.pattern, q)
CanSeeContext(p, c) == SeesEverything(p) \/ \E b \in p.bindings : TouchesContext(b.pattern, c)
HasAnyRole(p) == p.roles # {} \/ p.bindings # {}
HasRoleAnywhere(p, role) == role \in p.roles \/ \E b \in p.bindings : b.role = role

IsAdminOf(p, q) == "admin" \in p.roles \/ \E b \in p.bindings : b.role = "admin" /\ Matches(b.pattern, q)

\* What a path is about.
Target(kind, q) == [kind |-> kind, q |-> q]
Whole == [context |-> <<>>, subject |-> <<>>]

TargetOf(path) ==
    LET at(i) == IF i \in DOMAIN path THEN path[i] ELSE <<>>
        head == IF at(1) = <<>> THEN "" ELSE at(1)[1]
        api == <<Word("admin"), Word("api")>>
        subject(i) == Target("subject", ParseName(at(i)))
        context(c) == Target("context", [context |-> c, subject |-> <<>>])
        listings == {<<Word("subjects")>>, <<Word("schemas")>>, <<Word("contexts")>>, <<Word("admin")>>}
                    \cup {Append(api, Word(w)) : w \in {"overview", "backup", "restore"}}
    IN CASE path \in listings -> Target("listing", Whole)
         [] head = "schemas" /\ Len(path) = 4 /\ at(2) = Word("ids") /\ at(4) \in {Word("subjects"), Word("versions")} ->
              Target("listing", Whole)
         [] head = "_admin" -> Target("listing", Whole)
         [] head = "subjects" -> subject(2)
         [] head = "compatibility" /\ Len(path) >= 3 /\ at(2) = Word("subjects") -> subject(3)
         [] head \in {"config", "mode"} /\ Len(path) >= 2 ->
              IF ParseName(at(2)).subject = <<>> THEN context(ParseName(at(2)).context) ELSE subject(2)
         [] head = "contexts" /\ Len(path) >= 2 -> context(IF at(2) = Wildcard THEN Wildcard ELSE Dotted(at(2)))
         [] Len(path) >= 4 /\ IsPrefix(Append(api, Word("subjects")), path) -> subject(4)
         [] OTHER -> Target("global", Whole)

IsAdminUi(path) == path # <<>> /\ path[1] \in {Word("admin"), Word("_admin")}
IsWholeProcess(path) == IsAdminUi(path) \/ path = <<Word("metrics")>>
RevealsCredentials(path) ==
    /\ path # <<>> /\ path[1] = Word("exporters")
    /\ Len(path) = 2 \/ (Len(path) = 3 /\ path[3] = Word("config"))

\* The POSTs that only look something up.
IsLookupPost(path) ==
    \/ Len(path) = 2 /\ path[1] = Word("subjects")
    \/ Len(path) >= 4 /\ path[1] = Word("compatibility") /\ path[2] = Word("subjects") /\ path[4] = Word("versions")

Reads(method, path) == method = "GET" \/ (method = "POST" /\ IsLookupPost(path))

Allows(roles, method, path, target) ==
    \/ "admin" \in roles
    \/ /\ ~IsWholeProcess(path) /\ ~RevealsCredentials(path)
       /\ IF Reads(method, path) THEN roles # {}
          ELSE "write" \in roles /\ target.kind = "subject"

Authorized(p, method, path) ==
    LET target == TargetOf(path)
    IN CASE target.kind = "subject" -> Allows(RolesForSubject(p, target.q), method, path, target)
         [] target.kind = "context" -> Allows(RolesForContext(p, target.q.context), method, path, target)
         [] target.kind = "listing" -> IF IsAdminUi(path) THEN HasRoleAnywhere(p, "admin") ELSE HasAnyRole(p)
         [] target.kind = "global" -> Allows(p.roles, method, path, target)

-----------------------------------------------------------------------------
(***************************************************************************)
(* Serving.  The first route whose pattern matches the host, with its port *)
(* or without, names the container; a pattern is one host or "*".          *)
(***************************************************************************)
RouteOf(host) == SelectInSeq(Routes, LAMBDA r : r.host \in {host, Wildcard})

\* Mutant: a password is remembered for its user only.
CacheKeyOfUser(user, password) == <<user, "">>
CacheKey(user, password) == <<user, password>>

Known(r) == r.user \in DOMAIN Users
Good(r) == Known(r) /\ Users[r.user].password = r.password

\* The middleware, once the principal is known.
Decision(r) ==
    LET p == Users[r.user].principal
    IN IF MayUse(p, r.container) /\ Authorized(p, r.method, r.path) THEN 200 ELSE 403

Answer(p, status) ==
    /\ answer' = [answer EXCEPT ![p] = status]
    /\ stage' = [stage EXCEPT ![p] = "answered"]
    /\ UNCHANGED queue

\* The request as it was, and what it has become.
Served(asked) ==
    LET uri == Prematch(asked.method, asked.path, asked.query)
    IN [user |-> asked.user, password |-> asked.password, host |-> asked.host, method |-> asked.method,
        path |-> uri.path, query |-> uri.query,
        container |-> Routes[RouteOf(asked.host)].container, asked |-> asked.path]

\* route_container, prematch, and the credentials seen before.
Arrive(p, asked) ==
    LET refused == RouteOf(asked.host) = 0 \/ Prematch(asked.method, asked.path, asked.query).refused
        served == IF refused THEN asked ELSE Served(asked)
    IN /\ stage[p] = "idle"
       /\ request' = [request EXCEPT ![p] = served]
       /\ IF refused THEN Answer(p, IF RouteOf(asked.host) = 0 THEN 421 ELSE 400)
          ELSE IF asked.user = NoCredentials THEN Answer(p, 401)
          ELSE IF Known(asked) /\ CacheKey(asked.user, asked.password) \in verified THEN Answer(p, Decision(served))
          ELSE /\ stage' = [stage EXCEPT ![p] = "waiting"]
               /\ queue' = Append(queue, p)
               /\ UNCHANGED answer
       /\ UNCHANGED verified

Verifying == {p \in Procs : stage[p] \in {"verifying", "hashing"}}

\* Mutant: the slots are given to the one that came last.
AcquireNewest(p) ==
    /\ queue # <<>> /\ Last(queue) = p
    /\ Cardinality(Verifying) < Slots
    /\ queue' = Front(queue)
    /\ stage' = [stage EXCEPT ![p] = "verifying"]
    /\ UNCHANGED <<request, verified, answer>>

\* The slots are given in the order of the queue.
Acquire(p) ==
    /\ queue # <<>> /\ Head(queue) = p
    /\ Cardinality(Verifying) < Slots
    /\ queue' = Tail(queue)
    /\ stage' = [stage EXCEPT ![p] = "verifying"]
    /\ UNCHANGED <<request, verified, answer>>

\* authenticate looks into the cache again: the same credentials may have been verified
\* meanwhile.
LookAgain(p) ==
    LET r == request[p]
    IN /\ stage[p] = "verifying"
       /\ \/ /\ Known(r) /\ CacheKey(r.user, r.password) \in verified
             /\ Answer(p, Decision(r))
          \/ /\ ~(Known(r) /\ CacheKey(r.user, r.password) \in verified)
             /\ stage' = [stage EXCEPT ![p] = "hashing"]
             /\ UNCHANGED <<queue, answer>>
       /\ UNCHANGED <<request, verified>>

\* The hash agrees or not, what agrees is remembered, and the slot is given back.
Verify(p) ==
    LET r == request[p]
    IN /\ stage[p] = "hashing"
       /\ Answer(p, IF Good(r) THEN Decision(r) ELSE 401)
       /\ verified' = IF ~Good(r) THEN verified
                      ELSE (IF Cardinality(verified) > CacheLimit THEN {} ELSE verified)
                           \cup {CacheKey(r.user, r.password)}
       /\ UNCHANGED request

Leave(p) ==
    /\ stage[p] = "answered"
    /\ stage' = [stage EXCEPT ![p] = "idle"]
    /\ request' = [request EXCEPT ![p] = <<>>]
    /\ answer' = [answer EXCEPT ![p] = 0]
    /\ UNCHANGED <<queue, verified>>

Init ==
    /\ request = [p \in Procs |-> <<>>]
    /\ stage = [p \in Procs |-> "idle"]
    /\ queue = <<>>
    /\ verified = {}
    /\ answer = [p \in Procs |-> 0]

Next ==
    \E p \in Procs :
       (\E asked \in Requests[p] : Arrive(p, asked)) \/ Acquire(p) \/ LookAgain(p) \/ Verify(p) \/ Leave(p)

\* A slot that is free goes to the next in the queue, and a verification ends.
Fairness == \A p \in Procs : WF_vars(Acquire(p)) /\ WF_vars(LookAgain(p)) /\ WF_vars(Verify(p))
Spec == Init /\ [][Next]_vars /\ Fairness
-----------------------------------------------------------------------------
InHand == {p \in Procs : stage[p] = "answered" /\ answer[p] \notin {421, 400}}
Principals == {Users[u].principal : u \in DOMAIN Users}

\* A caller is challenged exactly when their credentials are wrong, whatever others
\* have verified meanwhile and however often the cache was emptied between the look
\* into it and the verification.
ChallengedRightly ==
    \A p \in InHand : answer[p] = 401 <=> ~Good(request[p])

\* Whoever waits for a slot is answered: logins that keep coming, with wrong passwords
\* or right ones, delay a login and never shut it out.
EveryLoginEnds == \A p \in Procs : stage[p] = "waiting" ~> stage[p] = "answered"

\* The subject that a path is about, as listings spell it.
Subjects == {TargetOf(request[p].path).q : p \in {p \in InHand : TargetOf(request[p].path).kind = "subject"}}
PathsOf(q) == {<<Word("subjects"), Qualify(q)>>, <<Word("subjects"), Qualify(q), Word("versions")>>,
               <<Word("admin"), Word("api"), Word("subjects"), Qualify(q)>>}

\* What listings show and what paths allow agree, although each has its own functions:
\* a caller with any role is shown exactly the subjects they may read, and the contexts
\* these are in; and no method on a path of a subject that the admin page shows is
\* refused.
ListingsAgree ==
    \A q \in Subjects : \A c \in Principals :
       /\ HasAnyRole(c) =>
             (CanSeeSubject(c, q) <=> Authorized(c, "GET", <<Word("subjects"), Qualify(q), Word("versions")>>))
       /\ CanSeeSubject(c, q) => CanSeeContext(c, q.context)
       /\ IsAdminOf(c, q) =>
             \A path \in PathsOf(q) : \A m \in {"GET", "POST", "PUT", "DELETE"} : Authorized(c, m, path)

\* What a pattern means: some text in the place of every wildcard.
Fits(glob, s) ==
    LET fits[i \in 1..(Len(glob) + 1), j \in 1..(Len(s) + 1)] ==
          IF i > Len(glob) THEN j > Len(s)
          ELSE IF glob[i] = "*" THEN \E k \in j..(Len(s) + 1) : fits[i + 1, k]
          ELSE j <= Len(s) /\ s[j] = glob[i] /\ fits[i + 1, j + 1]
    IN fits[1, 1]

\* The text of the last part occurs before the end too.
Repeats(glob, s) ==
    LET part == Last(PartsOf(glob))
    IN PartsOf(glob) # <<>> /\ FindIn(s, part) + Len(part) <= Len(s)

\* A pattern never matches a name it does not mean; and it matches every name it means
\* unless it ends in a text that the name has earlier as well, the search for the last
\* part stopping at the first occurrence.
PatternsMean ==
    \A q \in Subjects : \A c \in Principals : \A b \in c.bindings :
       LET glob == b.pattern.subject
       IN /\ GlobMatches(glob, q.subject) => Fits(glob, q.subject)
          /\ Fits(glob, q.subject) /\ ~Repeats(glob, q.subject) => GlobMatches(glob, q.subject)

\* A request under /contexts/{context} reaches that context and no other: the subject or
\* the settings its path is about, and the prefixes of a listing, are the context's,
\* unless a name in it says otherwise; an alias keeps its subject's context.
ContextKept ==
    \A p \in InHand :
       LET r == request[p]
           t == TargetOf(r.path)
           plain == \A i \in 3..Len(r.asked) : ~IsQualified(r.asked[i])
       IN Len(r.asked) > 2 /\ r.asked[1] = Word("contexts") /\ plain =>
             LET c == Dotted(Stripped(r.asked[2]))
             IN /\ t.kind \in {"subject", "context"} => t.q.context = c
                /\ t.kind = "listing" => \A i \in DOMAIN r.query.prefixes : ParseName(r.query.prefixes[i]).context = c

\* authz.rs: any authenticated caller may read a schema by its id, as long as they hold
\* a role somewhere.
ByIdReadable ==
    \A p \in InHand :
       LET r == request[p]
       IN Good(r) /\ r.method = "GET" /\ IsPrefix(<<Word("schemas"), Word("ids")>>, r.path)
          /\ HasAnyRole(Users[r.user].principal) /\ MayUse(Users[r.user].principal, r.container) => answer[p] = 200
=============================================================================
