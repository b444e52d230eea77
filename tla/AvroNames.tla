----------------------------- MODULE AvroNames ------------------------------
(***************************************************************************)
(* Names and namespaces of Avro: the parser of schema/avro_java.rs and the *)
(* rendering of schema/avro.rs that is stored in place of the text.        *)
(*                                                                         *)
(* A name as written is [dot |-> d, id |-> i]: qualified with the          *)
(* namespace d, or bare when d is Bare.  A full name is <<space, id>>, the *)
(* null namespace being "".  A text is a primitive [prim |-> p], the use   *)
(* of a name [use |-> n], the same in an object [wrap |-> n], an array, a  *)
(* union or a record; enums and fixed are records without fields.  A       *)
(* schema is its text and the texts of its references, in order.           *)
(***************************************************************************)
EXTENDS SchemaChange

Bare == "-"
Written(d, i) == [dot |-> d, id |-> i]

\* Name::new: a qualified name says its namespace itself.
FullName(n, space) == <<IF n.dot # Bare THEN n.dot ELSE space, n.id>>

\* The namespace that a definition's bare name is in.
SpaceFor(t, enclosing) == IF t.ns = Bare THEN enclosing ELSE t.ns
Defines(t, enclosing) == FullName(t.record, SpaceFor(t, enclosing))

Is(t, form) == form \in DOMAIN t

-----------------------------------------------------------------------------
\* Names#get: in the namespace at hand, else in the null namespace.
Lookup(n, space, names) ==
    LET here == FullName(n, space)
        top == FullName(n, "")
    IN IF here \in names THEN {here} ELSE {top} \cap names

Fail(names) == [ok |-> FALSE, names |-> names, tree |-> [prim |-> "none"]]
Done(names, tree) == [ok |-> TRUE, names |-> names, tree |-> tree]
Found(found, names) ==
    IF found = {} THEN Fail(names) ELSE Done(names, [use |-> CHOOSE f \in found : TRUE])

\* The name under which a branch of a union is known.
BranchName(tree) ==
    CASE Is(tree, "use") -> tree.use
      [] Is(tree, "record") -> tree.record
      [] Is(tree, "prim") -> <<"", tree.prim>>
      [] OTHER -> <<"", "array">>

RECURSIVE Parse(_, _, _)

\* Parts in order, the names defined by one being known to the next.
ParseSeq(texts, space, names) ==
    FoldLeft(LAMBDA acc, t :
               LET one == Parse(t, space, acc.names)
               IN IF ~acc.ok THEN acc
                  ELSE [ok |-> one.ok, names |-> one.names, trees |-> Append(acc.trees, one.tree)],
             [ok |-> TRUE, names |-> names, trees |-> <<>>], texts)

ParseUnion(t, space, names) ==
    LET parts == ParseSeq(t.union, space, names)
        distinct == \A i, j \in DOMAIN parts.trees :
                       i # j => BranchName(parts.trees[i]) # BranchName(parts.trees[j])
        flat == \A i \in DOMAIN t.union : ~Is(t.union[i], "union")
    IN IF parts.ok /\ distinct /\ flat THEN Done(parts.names, [union |-> parts.trees]) ELSE Fail(parts.names)

\* The record is known by its name before its fields are read, in its namespace.
ParseRecord(t, space, names) ==
    LET full == Defines(t, space)
        parts == ParseSeq(t.fields, full[1], names \cup {full})
    IN IF full \notin names /\ parts.ok THEN Done(parts.names, [record |-> full, fields |-> parts.trees])
       ELSE Fail(names)

Parse(t, space, names) ==
    CASE Is(t, "prim") -> Done(names, t)
      [] Is(t, "use") -> Found(Lookup(t.use, space, names), names)
      [] Is(t, "wrap") -> Found({FullName(t.wrap, space)} \cap names, names)
      [] Is(t, "union") -> ParseUnion(t, space, names)
      [] Is(t, "record") -> ParseRecord(t, space, names)
      [] OTHER -> LET items == Parse(t.array, space, names)
                  IN [items EXCEPT !.tree = [array |-> @]]

\* A schema after its references; only its own tree is kept.
ParseSchema(refs, text) ==
    LET before == FoldLeft(LAMBDA acc, r : LET one == Parse(r, "", acc.names)
                                           IN [ok |-> acc.ok /\ one.ok, names |-> one.names],
                           [ok |-> TRUE, names |-> {}], refs)
    IN IF before.ok THEN Parse(text, "", before.names) ELSE Fail(before.names)

-----------------------------------------------------------------------------
RECURSIVE Defined(_, _)

\* collect_defined: the names that a text defines.
Defined(t, space) ==
    CASE Is(t, "union") -> UNION {Defined(t.union[i], space) : i \in DOMAIN t.union}
      [] Is(t, "array") -> Defined(t.array, space)
      [] Is(t, "record") ->
           LET full == Defines(t, space)
           IN {full} \cup UNION {Defined(t.fields[i], full[1]) : i \in DOMAIN t.fields}
      [] OTHER -> {}

\* check_redefinitions: a walk of its own over the same texts.
RECURSIVE Walk(_, _)
Walk(t, space) ==
    CASE Is(t, "union") -> FlattenSeq([i \in DOMAIN t.union |-> Walk(t.union[i], space)])
      [] Is(t, "array") -> Walk(t.array, space)
      [] Is(t, "record") ->
           LET full == Defines(t, space)
           IN <<full>> \o FlattenSeq([i \in DOMAIN t.fields |-> Walk(t.fields[i], full[1])])
      [] OTHER -> <<>>

Redefines(refs, text) ==
    ~IsInjective(FlattenSeq([i \in DOMAIN refs |-> Walk(refs[i], "")]) \o Walk(text, ""))

-----------------------------------------------------------------------------
\* A name as it is printed: bare in the namespace at hand and for the null namespace.
Qualified(full, space) == Written(IF full[1] \in {space, ""} THEN Bare ELSE full[1], full[2])

\* A bare name is taken to be in the namespace at hand unless only the null namespace has it.
Meant(n, space, known) ==
    LET here == FullName(n, space)
        top == FullName(n, "")
    IN IF here \in known \/ top \notin known THEN here ELSE top

RECURSIVE Render(_, _, _)
RenderSeq(texts, space, known) ==
    FoldLeft(LAMBDA acc, t : LET one == Render(t, space, acc.known)
                             IN [known |-> one.known, texts |-> Append(acc.texts, one.text)],
             [known |-> known, texts |-> <<>>], texts)

\* Mutant: the null namespace is not written inside another.
NamespaceAttributeNeverEmpty(full, space) == IF full[1] \in {space, ""} THEN Bare ELSE full[1]

\* The namespace is written where it differs from the one around it.
NamespaceAttribute(full, space) == IF full[1] = space THEN Bare ELSE full[1]

RenderRecord(t, space, known) ==
    LET full == Defines(t, space)
        fields == RenderSeq(t.fields, full[1], known \cup {full})
    IN IF full \in known THEN [known |-> known, text |-> [use |-> Qualified(full, space)]]
       ELSE [known |-> fields.known,
             text |-> [record |-> Written(Bare, full[2]), ns |-> NamespaceAttribute(full, space),
                       fields |-> fields.texts]]

Render(t, space, known) ==
    LET use(n) == [known |-> known, text |-> [use |-> Qualified(Meant(n, space, known), space)]]
    IN CASE Is(t, "prim") -> [known |-> known, text |-> t]
         [] Is(t, "use") -> use(t.use)
         [] Is(t, "wrap") -> use(t.wrap)
         [] Is(t, "union") -> LET parts == RenderSeq(t.union, space, known)
                              IN [known |-> parts.known, text |-> [union |-> parts.texts]]
         [] Is(t, "record") -> RenderRecord(t, space, known)
         [] OTHER -> LET items == Render(t.array, space, known)
                     IN [items EXCEPT !.text = [array |-> @]]

Rendered(refs, text) ==
    Render(text, "", UNION {Defined(refs[i], "") : i \in DOMAIN refs}).text

-----------------------------------------------------------------------------
\* The walks over a text, each with its own rules for namespaces, agree on what it
\* names: the renderer's (collect_defined) finds the full names the parser defines, the
\* search for redefinitions none in what the parser accepted; and the rendering that is
\* stored, parsed again after the same references, is the schema that was parsed,
\* whatever mixture of qualified names and namespaces the text had, and its own rendering.
CanonicalText ==
    LET parsed == ParseSchema(writer.refs, writer.text)
        canonical == Rendered(writer.refs, writer.text)
    IN format = "avro text" /\ parsed.ok =>
          /\ parsed.names = Defined(writer.text, "") \cup UNION {Defined(writer.refs[i], "") : i \in DOMAIN writer.refs}
          /\ ~Redefines(writer.refs, writer.text)
          /\ ParseSchema(writer.refs, canonical) = parsed
          /\ Rendered(writer.refs, canonical) = canonical
=============================================================================
