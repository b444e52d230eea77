----------------------------- MODULE MCTransfer -----------------------------
(***************************************************************************)
(* A small instance of Transfer.                                           *)
(***************************************************************************)
EXTENDS Transfer

CONSTANTS c1, s1, s2, a, b, n, none, here

Draft(text, refs) == [text |-> text, refs |-> refs, id |-> -1, version |-> 0, cv |-> 0]

\* b references version 1 of either subject; the normal form of a is n.
MCDrafts  == {Draft(a, {})} \cup {Draft(b, {<<here, s, 1>>}) : s \in {s1, s2}}
MCSame    == [x \in {a, b, n} |-> x]
MCRead    == {a, b, n} \X {a, b, n}
MCNormal  == [x \in {a, b, n} |-> IF x = a THEN n ELSE x]
MCContexts == <<>>
MCOrder   == <<<<c1, s1>>, <<c1, s2>>>>
MCScopes  == {<<"global">>, <<"subject", c1, s1>>}
=============================================================================
