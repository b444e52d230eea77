---------------------------- MODULE AvroDefaults ----------------------------
(***************************************************************************)
(* The default of one field of an Avro record: what schema/avro_java.rs    *)
(* accepts, what the library's model is given in its place, and the form   *)
(* the normalised schema has.                                              *)
(*                                                                         *)
(* A type is [prim |-> p], [enum |-> symbols], [fixed |-> size], an array, *)
(* a map, a union or a record, whose fields are [name, type, default] with *)
(* a sequence of at most one default.  A value is [k |-> kind, ...]: the   *)
(* integers are "int" (32 bits), "long" (64) and "big", a decimal is       *)
(* "dec", and a string is [k |-> "str", text, size].  The text of a number *)
(* is "number".                                                            *)
(***************************************************************************)
EXTENDS SchemaChange

Of(t, form) == form \in DOMAIN t
Primitive(t, names) == Of(t, "prim") /\ t.prim \in names
Str(text, size) == [k |-> "str", text |-> text, size |-> size]
Decimal == [k |-> "dec"]

\* What is at a key of an object: the set of at most one value.
At(d, key) == IF key \in DOMAIN d.at THEN {d.at[key]} ELSE {}
ItemsOf(d) == {d.items[i] : i \in DOMAIN d.items}
MembersOf(d) == {d.at[key] : key \in DOMAIN d.at}

-----------------------------------------------------------------------------
\* Schema.isValidDefault
RECURSIVE ValidDefault(_, _)
ValidDefault(t, d) ==
    CASE Primitive(t, {"string", "bytes"}) \/ Of(t, "enum") \/ Of(t, "fixed") -> d.k = "str"
      [] Primitive(t, {"int"}) -> d.k = "int"
      [] Primitive(t, {"long"}) -> d.k \in {"int", "long"}
      [] Primitive(t, {"float", "double"}) -> d.k \in {"int", "long", "big", "dec"}
      [] Primitive(t, {"boolean"}) -> d.k = "bool"
      [] Primitive(t, {"null"}) -> d.k = "null"
      [] Of(t, "array") -> d.k = "list" /\ \A e \in ItemsOf(d) : ValidDefault(t.array, e)
      [] Of(t, "map") -> d.k = "obj" /\ \A e \in MembersOf(d) : ValidDefault(t.map, e)
      [] Of(t, "union") -> ValidDefault(Head(t.union), d)
      [] Of(t, "record") ->
           /\ d.k = "obj"
           /\ \A i \in DOMAIN t.record :
                 LET f == t.record[i]
                     given == At(d, f.name)
                 IN \E e \in (IF given # {} THEN given ELSE ToSet(f.default)) : ValidDefault(f.type, e)

\* What the model asks of a default besides.
RECURSIVE ModelAccepts(_, _)
ModelAccepts(t, d) ==
    CASE Of(t, "enum") -> d.k = "str" /\ d.text \in ToSet(t.enum)
      [] Of(t, "fixed") -> d.k = "str" /\ d.size = t.fixed
      [] Of(t, "union") -> ModelAccepts(Head(t.union), d)
      [] Of(t, "array") -> d.k = "list" => \A e \in ItemsOf(d) : ModelAccepts(t.array, e)
      [] Of(t, "map") -> d.k = "obj" => \A e \in MembersOf(d) : ModelAccepts(t.map, e)
      [] Of(t, "record") ->
           d.k = "obj" => \A i \in DOMAIN t.record :
                             \A e \in At(d, t.record[i].name) : ModelAccepts(t.record[i].type, e)
      [] OTHER -> TRUE

\* Some value of the type.
RECURSIVE StandIn(_)

StandInUnion(types) == StandIn(Head(types))

StandIn(t) ==
    CASE Primitive(t, {"null"}) -> [k |-> "null"]
      [] Primitive(t, {"boolean"}) -> [k |-> "bool"]
      [] Primitive(t, {"int", "long"}) -> [k |-> "int"]
      [] Primitive(t, {"float", "double"}) -> Decimal
      [] Primitive(t, {"bytes", "string"}) -> Str("", 0)
      [] Of(t, "enum") -> Str(Head(t.enum), 1)
      [] Of(t, "fixed") -> Str("zeros", t.fixed)
      [] Of(t, "array") -> [k |-> "list", items |-> <<>>]
      [] Of(t, "map") -> [k |-> "obj", at |-> [x \in {} |-> x]]
      [] Of(t, "union") -> StandInUnion(t.union)
      [] Of(t, "record") ->
           [k |-> "obj", at |-> [n \in {f.name : f \in ToSet(t.record)} |->
                                   StandIn((CHOOSE f \in ToSet(t.record) : f.name = n).type)]]

-----------------------------------------------------------------------------
(* JacksonUtils.toObject and back: a set holding the value, empty where    *)
(* Java has null or throws.                                                *)
Untypified == [prim |-> "untyped"]

\* Mutant: an integer of 32 bits is dropped from a long.
ToIntegerNarrow(t, d) ==
    CASE d.k # "big" /\ Primitive(t, {"float", "double"}) -> {Decimal}
      [] d.k = "int" /\ Primitive(t, {"untyped", "int"}) -> {d}
      [] d.k = "long" /\ Primitive(t, {"untyped", "int", "long"}) -> {d}
      [] OTHER -> {}

ToInteger(t, d) ==
    CASE d.k # "big" /\ Primitive(t, {"float", "double"}) -> {Decimal}
      [] d.k = "int" /\ Primitive(t, {"untyped", "int", "long"}) -> {d}
      [] d.k = "long" /\ Primitive(t, {"untyped", "int", "long"}) -> {d}
      [] OTHER -> {}

RECURSIVE ToObject(_, _)
ToList(t, d) ==
    LET of == IF Of(t, "array") THEN t.array ELSE Untypified
        all == [i \in DOMAIN d.items |-> ToObject(of, d.items[i])]
    IN IF (Of(t, "array") \/ t = Untypified) /\ \A i \in DOMAIN all : all[i] # {}
       THEN {[d EXCEPT !.items = [i \in DOMAIN all |-> CHOOSE e \in all[i] : TRUE]]}
       ELSE {}

ToMap(t, d) ==
    LET named(key) == {f \in (IF Of(t, "record") THEN ToSet(t.record) ELSE {}) : f.name = key}
        of(key) == CASE Of(t, "map") -> t.map
                     [] Of(t, "record") -> (CHOOSE f \in named(key) : TRUE).type
                     [] OTHER -> Untypified
        known == Of(t, "record") => \A key \in DOMAIN d.at : named(key) # {}
        all == [key \in DOMAIN d.at |-> ToObject(of(key), d.at[key])]
    IN IF known /\ \A key \in DOMAIN d.at : all[key] # {}
       THEN {[d EXCEPT !.at = [key \in DOMAIN all |-> CHOOSE e \in all[key] : TRUE]]}
       ELSE {}

ToObject(t, d) ==
    CASE Of(t, "union") -> ToObject(Head(t.union), d)
      [] d.k \in {"null", "bool"} -> {d}
      [] d.k = "dec" -> IF Primitive(t, {"untyped", "float", "double"}) THEN {d} ELSE {}
      [] d.k \in {"int", "long", "big"} -> ToInteger(t, d)
      [] d.k = "str" ->
           IF Primitive(t, {"untyped", "string", "bytes"}) \/ Of(t, "enum") \/ Of(t, "fixed") THEN {d} ELSE {}
      [] d.k = "list" -> ToList(t, d)
      [] d.k = "obj" -> ToMap(t, d)

-----------------------------------------------------------------------------
(* A field's default, through the parser: whether the schema is refused,   *)
(* the default the model is given, and the normalised one.                 *)
Textual(t, d) == Primitive(t, {"float", "double"}) /\ d.k = "str"

FieldDefault(t, d, validating) ==
    LET number == Textual(t, d)
        value == IF number THEN Decimal ELSE d
        fits == ValidDefault(t, value) /\ ModelAccepts(t, value)
        refused == \/ number /\ d.text # "number"
                   \/ validating /\ ~ValidDefault(t, value)
    IN [refused |-> refused,
        model |-> IF number THEN Decimal ELSE IF fits THEN d ELSE StandIn(t),
        normal |-> IF number THEN {Decimal} ELSE ToObject(t, d)]

\* An object of the default has a key that its record does not, or a number
\* is past 64 bits: Java's conversion throws, or yields null.
RECURSIVE Stray(_, _)
Stray(t, d) ==
    CASE d.k = "big" -> TRUE
      [] Of(t, "union") -> Stray(Head(t.union), d)
      [] Of(t, "array") /\ d.k = "list" -> \E e \in ItemsOf(d) : Stray(t.array, e)
      [] Of(t, "map") /\ d.k = "obj" -> \E e \in MembersOf(d) : Stray(t.map, e)
      [] Of(t, "record") /\ d.k = "obj" ->
           \/ ~ DOMAIN d.at \subseteq {f.name : f \in ToSet(t.record)}
           \/ \E f \in ToSet(t.record) : \E e \in At(d, f.name) : Stray(f.type, e)
      [] OTHER -> FALSE

\* Whatever default Java tolerates, the library's model is given one that is valid for
\* the field's type and that the model accepts: the original or its stand-in.  And one
\* that was validated is neither lost nor changed in kind by normalisation: its normal
\* form is valid for the field's type and is its own normal form.
DefaultsSurvive ==
    format = "avro default" =>
       \A validating \in BOOLEAN :
          LET out == FieldDefault(writer.type, writer.default, validating)
          IN ~out.refused =>
                /\ ValidDefault(writer.type, out.model) /\ ModelAccepts(writer.type, out.model)
                /\ validating /\ ~Stray(writer.type, writer.default) =>
                      \E n \in out.normal : /\ ValidDefault(writer.type, n)
                                            /\ FieldDefault(writer.type, n, TRUE).normal = {n}
=============================================================================
