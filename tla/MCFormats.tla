----------------------------- MODULE MCFormats ------------------------------
(* Families of schemas, one for each format. *)
EXTENDS Formats

Empty == [x \in {} |-> 0]
Option(key, S) == {Empty} \cup {key :> x : x \in S}

-----------------------------------------------------------------------------
(* Avro: recursive records, an alias, unions, an array and an enum. *)
P(k) == [kind |-> k]
Ref(n) == [kind |-> "ref", name |-> n]
Union(s, t) == [kind |-> "union", of |-> <<s, t>>]
Field(n, t, d) == [name |-> n, type |-> t, default |-> d, aliases |-> {}]
Rec(n, al, fs) == [kind |-> "record", full |-> n, name |-> n, aliases |-> al, fields |-> fs]
Enum(syms, d) == [kind |-> "enum", full |-> "E", name |-> "E", aliases |-> {}, symbols |-> syms, default |-> d]
AvroSchemas ==
  {[A |-> Rec("A", {}, <<Field("f", f, FALSE)>> \o g), B |-> Rec("B", {}, <<Field("x", x, FALSE)>>),
    C |-> Rec("C", {}, <<Field("z", z, FALSE)>>), D |-> Rec("D", al, <<Field("x", y, FALSE)>>), E |-> e]
     : f \in {Ref("D"), Union(Ref("B"), Ref("D")), [kind |-> "array", of |-> Ref("B")]},
       g \in {<<>>, <<Field("g", Ref("C"), FALSE)>>, <<Field("g", Ref("E"), TRUE)>>},
       x \in {P("int"), Ref("C")}, y \in {P("long"), Ref("C")}, al \in {{}, {"B"}},
       z \in {Union(P("null"), Ref("B")), Union(P("null"), Ref("D"))},
       e \in {Enum({"x"}, "none"), Enum({"x", "y"}, "x")}}

(* Avro texts: a record of two fields, nested records and uses, in two namespaces. *)
Names == {Written(d, i) : d \in {Bare, "n"}, i \in {"A", "B"}}
Uses == {[use |-> n] : n \in Names}
Records(names, inner) == {[record |-> n, ns |-> s, fields |-> f] : n \in names, s \in {Bare, "", "n"}, f \in inner}
TextFields ==
    Uses \cup {[wrap |-> Written(Bare, "B")], [array |-> [use |-> Written(Bare, "B")]]}
    \cup {[union |-> <<[prim |-> "null"], [use |-> Written(Bare, "A")]>>]}
    \cup Records(Names, {<<>>} \cup {<<[use |-> Written(Bare, i)]>> : i \in {"A", "B"}})
AvroTexts ==
    {[refs |-> r, text |-> t] :
       r \in {<<>>, <<[record |-> Written(Bare, "B"), ns |-> Bare, fields |-> <<>>]>>},
       t \in Records({Written(Bare, "A"), Written("n", "A")}, {<<f, g>> : f, g \in TextFields})}

(* Avro defaults: types and values to the same depth. *)
Leaf == {[prim |-> p] : p \in {"null", "int", "long", "float", "string"}}
        \cup {[enum |-> <<"A">>], [fixed |-> 1]}
Over(S) ==
    {[array |-> t] : t \in S} \cup {[map |-> t] : t \in S}
    \cup {[union |-> u] : u \in {<<t, [prim |-> "null"]>> : t \in S} \cup {<<[prim |-> "null"], t>> : t \in S}}
    \cup {[record |-> <<[name |-> "a", type |-> t, default |-> d]>>] : t \in S, d \in {<<>>, <<[k |-> "int"]>>}}
Types == Leaf \cup Over(Leaf) \cup Over({t \in Over(Leaf) : "union" \notin DOMAIN t})
PlainValues == {[k |-> x] : x \in {"null", "bool", "int", "long", "big", "dec"}} \cup {Str("A", 1), Str("number", 2)}
ValuesOver(S) ==
    {[k |-> "list", items |-> <<>>], [k |-> "obj", at |-> Empty]}
    \cup {[k |-> "list", items |-> <<v>>] : v \in S} \cup {[k |-> "obj", at |-> key :> v] : v \in S, key \in {"a", "b"}}
AvroDefaultsOfTypes ==
    {[type |-> t, default |-> d] :
       t \in Types, d \in PlainValues \cup ValuesOver(PlainValues) \cup ValuesOver(ValuesOver(PlainValues))}

-----------------------------------------------------------------------------
(* JSON Schema: keywords by kind of value, and references. *)
Num(n) == [number |-> n]
Txt(n) == [string |-> n]
Obj(f) == [object |-> f]
Arr(s) == [array |-> s]
Flat == {Num(0), Num(1), Num(2), Num(5), Txt(0), Txt(1)}
RECURSIVE Deep(_)
Deep(n) == [a |-> Obj(IF n = 0 THEN <<>> ELSE Deep(n - 1))]
MCDocuments ==
    Flat \cup {Arr(<<>>)} \cup {Arr(<<x>>) : x \in Flat} \cup {Arr(<<x, y>>) : x, y \in {Num(1), Num(2), Txt(1)}}
    \cup {Obj(<<>>)} \cup {Obj(Deep(n)) : n \in 0..4}
    \cup {Obj([a |-> x]) : x \in {Num(1), Txt(0), Obj([b |-> Num(1)]), Obj([b |-> Txt(1)])}}
    \cup {Obj([b |-> x]) : x \in {Num(1), Txt(1)}}
    \cup {Obj([a |-> x, b |-> y]) : x, y \in {Num(0), Num(1), Txt(1)}}

Bool(b) == [bool |-> b]
Type(t) == [type |-> t]
Leaves ==
    {Bool(TRUE), Bool(FALSE), <<>>, Type("integer"), Type("string"), [const |-> Num(1)], [not |-> Type("string")],
     [enum |-> {Num(1)}], [enum |-> {Num(1), Txt(1)}], [type |-> "integer", enum |-> {Num(2)}],
     [type |-> "number", minimum |-> 1], [type |-> "number", maximum |-> 1], [maximum |-> 1],
     [type |-> "number", exclusiveMaximum |-> 2], [type |-> "string", maxLength |-> 1],
     [type |-> "string", pattern |-> {1}], [type |-> "string", format |-> {1}], [not |-> [type |-> "string", format |-> {1}]],
     [if |-> Type("string"), then |-> [type |-> "string", maxLength |-> 0]], [if |-> Type("string"), else |-> Type("integer")],
     [types |-> <<"integer", "string">>], [types |-> <<"string", "object">>, maximum |-> 1],
     [anyOf |-> <<Type("integer"), Type("string")>>], [anyOf |-> <<Type("string")>>],
     [allOf |-> <<Type("number"), [type |-> "number", minimum |-> 1]>>],
     [oneOf |-> <<Type("integer"), [type |-> "number", maximum |-> 1]>>], [oneOf |-> <<Type("integer")>>]}
Multiples == {[type |-> "number", multipleOf |-> m] : m \in 1..5}
Draft4s ==
    {[schema |-> "draft-04"] @@ s :
       s \in {[const |-> Num(1)], [type |-> "number", maximum |-> 2], [type |-> "number", maximum |-> 2, exclusiveMaximum |-> TRUE],
              [type |-> "string", if |-> Type("string"), then |-> Bool(FALSE)]}}
Few == {Bool(TRUE), Bool(FALSE), Type("integer"), [type |-> "number", minimum |-> 1], Type("string")}
Objects ==
    {Type("object") @@ p @@ r @@ e @@ q :
       p \in Option("properties", {"a" :> x : x \in Few} \cup {[a |-> Type("integer"), b |-> Type("string")]}),
       r \in Option("required", {{"a"}}),
       e \in Option("additionalProperties", {Bool(FALSE), Type("integer")}),
       q \in Option("patternProperties", {<<[keys |-> {"b"}, schema |-> Type("integer")]>>})}
Arrays ==
    {Type("array") @@ p @@ r @@ e :
       p \in Option("items", Few) \cup {"tuple" :> <<x>> : x \in Few} \cup {"tuple" :> <<Type("integer"), Type("string")>>},
       r \in {Empty, [minItems |-> 1], [maxItems |-> 1], [uniqueItems |-> TRUE]},
       e \in Option("additionalItems", {Bool(FALSE), Type("integer")})}
Self == [ref |-> "#"]
Down(x) == [type |-> "object", properties |-> [a |-> x]]
Recursive ==
    {[type |-> "object", properties |-> [a |-> x, b |-> y]] :
       x \in {Self, Down(Self), Down(Down(Self)), Down(Down(Type("integer")))}, y \in {Type("integer"), Type("number")}}
    \cup {[type |-> "object", properties |-> [a |-> [ref |-> "d"]], definitions |-> [d |-> x, e |-> y]] :
            x \in {[ref |-> "e"], Self, Type("integer")}, y \in {Type("integer"), Type("string")}}
OtherObjects ==
    {[type |-> "object", dependencies |-> [a |-> x]] : x \in {{}, {"b"}}}
    \cup {[type |-> "object", minProperties |-> 1], [type |-> "object", maxProperties |-> 1],
          [type |-> "object", properties |-> [a |-> [type |-> "integer", default |-> Num(0)]], required |-> {"a"}],
          [type |-> "object", propertyNames |-> [type |-> "string", maxLength |-> 0]]}
    \cup {[type |-> "object", schemaDependencies |-> [a |-> [type |-> "object", properties |-> [b |-> x]]]] :
            x \in {Type("integer"), Type("number")}}
    \cup {[type |-> "array", contains |-> x] : x \in {Type("integer"), Type("number")}}
JsonSchemas == Recursive \cup OtherObjects \cup Leaves \cup Multiples \cup Draft4s \cup Objects \cup Arrays

(* Which of three alternatives of the writer fit which of three of the reader. *)
Fitting == [1..3 -> {SetToSeq(S) : S \in SUBSET (1..3)}]

-----------------------------------------------------------------------------
(* Protobuf: messages that meet through fields, maps, nesting and a reference. *)
Scalar(g) == [kind |-> "scalar", group |-> g]
Msg(f, p) == [kind |-> "message", message |-> [file |-> f, path |-> p]]
Map(t) == [kind |-> "map", key |-> Scalar("STRING_OR_BYTES"), value |-> t]
ProtoField(n, l, t, o) == [number |-> n, name |-> "f", label |-> l, type |-> t, oneof |-> o]
Whole == Scalar("GENERAL_NUMBER")
Text == Scalar("STRING_OR_BYTES")
One(l, t) == ProtoField(1, l, t, "")
Firsts ==
    {One("optional", Whole), One("required", Whole), One("optional", Text),
     ProtoField(1, "", Text, "x"), ProtoField(1, "", Whole, "x"),
     One("repeated", Msg("root", <<"A">>)), One("optional", Msg("dep", <<"A">>)), One("optional", Msg("dep", <<"D">>)),
     One("", Map(Msg("dep", <<"D">>))), One("optional", Msg("root", <<"A", "B">>))}
Seconds == {<<>>} \cup {<<ProtoField(2, "", Whole, o)>> : o \in {"", "x", "y"}}
Nested == {(<<"A", "B">> :> <<One("optional", t)>>) : t \in {Whole, Msg("root", <<"A">>)}}
ProtoSchemas ==
    {[package |-> "p", files |-> [root |-> (<<"A">> :> (<<f>> \o g)) @@ b, dep |-> (<<"A">> :> <<d>>) @@ (<<"D">> :> <<d>>)]] :
       f \in Firsts, g \in Seconds, b \in Nested \cup {<<"B">> :> <<>>},
       d \in {One("optional", t) : t \in {Whole, Text, Msg("dep", <<"D">>)}}}
Resolved(s) ==
    \A f \in ToSet(s.files["root"][<<"A">>]) : f.type = Msg("root", <<"A", "B">>) => <<"A", "B">> \in DOMAIN s.files["root"]

-----------------------------------------------------------------------------
MCSchemas ==
    ("avro" :> AvroSchemas) @@ ("avro text" :> AvroTexts) @@ ("avro default" :> AvroDefaultsOfTypes)
    @@ ("json" :> JsonSchemas) @@ ("matching" :> Fitting) @@ ("proto" :> {s \in ProtoSchemas : Resolved(s)})

MCReferring == "json" :> Recursive
MCMultiples == "json" :> Multiples
=============================================================================
