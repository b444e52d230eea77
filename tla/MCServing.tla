----------------------------- MODULE MCServing -----------------------------
(***************************************************************************)
(* Instances of Serving.                                                   *)
(***************************************************************************)
EXTENDS Serving

Body(text, ref) == [text |-> text, ref |-> ref]
A == Body("a", NoSlot)
B == Body("b", NoSlot)
R == Body("r", "s1")

MCFamilies == <<"schemas", "versions", "log", "meta">>

\* An empty directory, and one with a schema, a schema that references it and
\* two events.
MCDirectories == {
    {},
    {<<"schemas", 1, A>>, <<"schemas", 2, R>>, <<"versions", "s1", 1>>, <<"versions", "s2", 2>>,
     <<"log", 0, "e">>, <<"log", 1, "e">>, <<"meta", "next_id", 3>>}}

\* Whoever imports an id brings the content the id had: a repeated restore,
\* or a referenced version that is replaced by one with another id.
SameAgain == {<<1, A>>, <<2, R>>, <<3, B>>}

\* An id that is freed and imported with other content.
OtherContent == {<<1, A>>, <<1, B>>}
=============================================================================
