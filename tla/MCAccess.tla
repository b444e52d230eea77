------------------------------ MODULE MCAccess ------------------------------
EXTENDS Access, TLC

EU == <<".", "eu">>
Binding(role, context, subject) == [role |-> role, pattern |-> [context |-> context, subject |-> subject]]
Principal(roles, bindings, containers) == [roles |-> roles, bindings |-> bindings, containers |-> containers]
User(password, principal) == [password |-> password, principal |-> principal]
Ours == Binding("admin", Default, <<"a", "*">>)
Theirs == Binding("readonly", EU, Wildcard)
Values == Binding("write", Wildcard, <<"*", "v">>)
Middle == Binding("write", <<".", "e", "*">>, <<"a", "*", "v", "*">>)

MCUsers ==
    [root   |-> User("right", Principal({"admin"}, {}, {})),
     reader |-> User("right", Principal({"readonly"}, {Ours}, {"c"})),
     scoped |-> User("right", Principal({}, {Ours}, {})),
     more   |-> User("right", Principal({}, {Ours, Theirs, Values}, {})),
     writer |-> User("right", Principal({"write"}, {Middle}, {})),
     deputy |-> User("right", Principal({"admin"}, {Theirs}, {})),
     no_one |-> User("right", Principal({}, {}, {"d"}))]

MCRoutes == <<[host |-> <<"h">>, container |-> "c"], [host |-> <<"k">>, container |-> "d"]>>
MCAliases == [q \in {[context |-> EU, subject |-> <<"a", "b">>]} |-> <<"a">>]

Names == {<<"b">>, <<"v", "b">>, <<"a", "v">>, <<"a", "v", "v">>, <<"a", "b">>, <<":", ".", "eu", ":", "a">>, <<":", ".", "eu", ":">>}
Contexts == {<<"eu">>, <<".", "eu">>, <<".">>, <<"e", ":", "u">>}
Named(n) == {<<Word("subjects"), n>>, <<Word("subjects"), n, Word("versions")>>, <<Word("config"), n>>,
             <<Word("compatibility"), Word("subjects"), n, Word("versions")>>}
Unnamed == {<<Word("subjects")>>, <<Word("schemas"), Word("ids"), Word("1")>>, <<Word("config")>>}
Plain ==
    UNION {Named(n) : n \in Names} \cup Unnamed
    \cup {<<Word("metrics")>>, <<Word("contexts"), EU>>, <<Word("exporters"), Word("x")>>, <<Word("exporters"), Word("x"), Word("status")>>,
          <<Word("admin"), Word("api"), Word("overview")>>, <<Word("admin"), Word("api"), Word("subjects"), <<"a">>>>,
          <<Word("schemas"), Word("ids"), Word("1"), Word("versions")>>}
Paths == Plain \cup {<<Word("contexts"), c>> \o path : c \in Contexts, path \in Unnamed \cup Named(<<"a", "b">>) \cup Named(<<"b">>)}
Ask(u, pw, h, m, path) ==
    [user |-> u, password |-> pw, host |-> <<h>>, method |-> m, path |-> path, query |-> [subject |-> <<>>, prefixes |-> <<>>]]
Versions == <<Word("subjects"), <<"a">>, Word("versions")>>

\* One process asks for everything and the others log in.
MCRequests ==
    [p \in {1, 2} |->
       IF p = 1 THEN {Ask("scoped", "right", "h", m, path) : m \in {"GET", "POST", "DELETE"}, path \in Paths}
                     \cup {Ask("more", "right", h, "GET", <<Word("schemas"), Word("ids"), Word("1")>>) : h \in {"h", "k", "x"}}
       ELSE {Ask("scoped", pw, "h", "GET", Versions) : pw \in {"right", "wrong"}}
            \cup {Ask("reader", "right", "k", "GET", Versions), Ask("stranger", "wrong", "h", "GET", Versions),
                  Ask(NoCredentials, "", "h", "GET", Versions)}]
=============================================================================
