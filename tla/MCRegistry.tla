----------------------------- MODULE MCRegistry -----------------------------
(***************************************************************************)
(* Small instances of Registry: what the clients of each run send.         *)
(***************************************************************************)
EXTENDS Registry, TLC

CONSTANTS c1, c2, s1, s2, a, b, g, none, here

Draft(text, refs, id, version) ==
    [text |-> text, refs |-> refs, id |-> id, version |-> version, cv |-> 0]
Carrying(d, number) == [d EXCEPT !.cv = number]
Plain(text) == Draft(text, {}, -1, 0)

\* Every text can read every other, and a relation that is not transitive.
AllRead  == {a, b, g} \X {a, b, g}
SomeRead == {<<x, x>> : x \in {a, b, g}} \cup {<<b, a>>, <<g, b>>, <<b, g>>}

NoScopes == {}

\* No request names a subject.
AnySubject == Permutations({s1, s2})

\* References to the newest version of s2, and to its version 1 deleted or not.
LatestRefs == {Plain(a), Draft(b, {<<here, s2, -1>>}, -1, 0)}
ExactRefs  == {Plain(a), Draft(b, {<<here, s2, 1>>}, -1, 0)}

\* A reference that names its context: c1, from any context.
CrossRefs  == {Plain(a), Draft(b, {<<c1, s2, -1>>}, -1, 0)}

\* With and without a version, without a schema, and with a number in the metadata.
Numbered == {Plain(a), Draft(a, {}, -1, 2), Draft(b, {}, -1, -1), Plain(g), Plain(none),
             Carrying(Plain(b), 3)}

\* Registrations and imports under ids 1 and 2, at the next or at version 1, and
\* some that carry a number: an import that of its version, another request any.
Imports == {Plain(a)} \cup {Draft(x, {}, i, v) : x \in {a, b}, i \in {1, 2}, v \in {0, 1}}
           \cup {Carrying(Draft(a, {}, 2, 2), 2), Carrying(Plain(b), 2), Draft(b, {}, -1, -1)}
SubjectScope == {<<"subject", c1, s1>>}

OnePlain    == {Plain(a)}
MixedScopes == {<<"global">>, <<"context", c2>>, <<"subject", c1, s1>>}
=============================================================================
