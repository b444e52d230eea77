------------------------------ MODULE JsonDiff ------------------------------
(***************************************************************************)
(* JSON Schema compatibility: the loader and the diff of schema/json.rs.   *)
(*                                                                         *)
(* A schema is a record of its keywords; [bool |-> b] stands for the       *)
(* schemas true and false.  "type" is one type and "types" a sequence of   *)
(* them, "items" one schema and "tuple" a sequence of them; "dependencies" *)
(* on keys and on schemas are two keywords; a pattern of keys is the set   *)
(* of the keys it matches, one of strings, like a format, the set of their *)
(* lengths; a "ref" names the document, "#", or a schema of its            *)
(* "definitions".  A document with "schema" = "draft-04" is of that draft. *)
(* A number is a count of halves, so that the odd ones are no integers.    *)
(* The words of a difference, its path and the order of the list are left  *)
(* out: a comparison is whether every difference found is one of the       *)
(* COMPATIBLE ones.                                                        *)
(***************************************************************************)
EXTENDS SchemaChange

Has(s, k) == k \in DOMAIN s
Maybe(s, k) == IF Has(s, k) THEN {s[k]} ELSE {}
Or(s, k, otherwise) == IF Has(s, k) THEN s[k] ELSE otherwise
Only(S) == CHOOSE x \in S : TRUE
Keep(s, keys) == Restrict(s, keys \cap DOMAIN s)
Drop(s, keys) == Restrict(s, DOMAIN s \ keys)

-----------------------------------------------------------------------------
(***************************************************************************)
(* A node: a schema, the document it belongs to and where it was loaded    *)
(* from, which is its identity.  Everything a "ref" names is loaded once.  *)
(***************************************************************************)
Document(doc) == IF doc = "writer" THEN writer ELSE reader
Node(doc, at, s) == [doc |-> doc, at |-> at, s |-> s]
Child(n, key, i, s) == Node(n.doc, Append(n.at, <<key, i>>), s)
RootOf(doc) == Node(doc, <<>>, Document(doc))

\* One step only: what a reference to a reference names stays a reference.
Deref(n) ==
    IF ~Has(n.s, "ref") THEN n
    ELSE Node(n.doc, <<<<"ref", n.s.ref>>>>,
              IF n.s.ref = "#" THEN Document(n.doc) ELSE Document(n.doc).definitions[n.s.ref])

ArrayKeywords  == {"items", "tuple", "additionalItems", "minItems", "maxItems", "uniqueItems", "contains"}
ObjectKeywords == {"properties", "required", "minProperties", "maxProperties", "dependencies",
                   "schemaDependencies", "patternProperties", "additionalProperties", "propertyNames"}
NumberKeywords == {"minimum", "maximum", "exclusiveMinimum", "exclusiveMaximum", "multipleOf"}
StringKeywords == {"minLength", "maxLength", "pattern", "format"}
Conditional    == {"if", "then", "else"}

\* The keywords of the document's draft: draft-04 has no const and no condition.
Draft4(doc) == Or(Document(doc), "schema", "") = "draft-04"
Known(n) == IF Draft4(n.doc) THEN Drop(n.s, {"const"} \cup Conditional) ELSE n.s

\* The keywords that a type takes with it.
Consumes(t) ==
    CASE t = "array" -> ArrayKeywords
      [] t = "object" -> ObjectKeywords
      [] t \in {"integer", "number"} -> NumberKeywords
      [] t = "string" -> StringKeywords
      [] OTHER -> {}

\* The parts of a schema: one for each combination, one for the type with the
\* keywords it takes, one for each kind of value that the others are about and
\* one for a condition.
Parts(s) ==
    LET alone(key) == IF Has(s, key) THEN <<Keep(s, {key})>> ELSE <<>>
        typed == UNION {Consumes(t) : t \in Maybe(s, "type") \cup ToSet(Or(s, "types", <<>>))}
        sniffed(t) == IF DOMAIN s \cap (Consumes(t) \ typed) = {} THEN <<>>
                      ELSE <<[type |-> t] @@ Keep(s, Consumes(t))>>
    IN alone("enum") \o alone("allOf") \o alone("anyOf") \o alone("oneOf") \o alone("not") \o alone("const")
       \o (IF Has(s, "type") THEN <<Keep(s, {"type"} \cup typed)>> ELSE <<>>)
       \o (IF Has(s, "types") THEN <<Keep(s, {"types"} \cup typed)>> ELSE <<>>)
       \o sniffed("array") \o sniffed("object") \o sniffed("number") \o sniffed("string")
       \o (IF DOMAIN s \cap Conditional # {} THEN <<Keep(s, Conditional)>> ELSE <<>>)

\* For what is not listed: whether more is permitted, and its schema.
Permits(s, key) == ~Has(s, key) \/ Or(s[key], "bool", TRUE)
Extra(n, s, key) ==
    IF Has(s, key) /\ ~Has(s[key], "bool") THEN {Child(n, key, "", s[key])} ELSE {}

ArrayKind(n, s) ==
    [kind |-> "array", s |-> s,
     all |-> {Child(n, "items", "", x) : x \in Maybe(s, "items")},
     items |-> [i \in DOMAIN Or(s, "tuple", <<>>) |-> Child(n, "tuple", i, s.tuple[i])],
     permits |-> Permits(s, "additionalItems"), extra |-> Extra(n, s, "additionalItems")]

ObjectKind(n, s) ==
    LET children(key) == [k \in DOMAIN Or(s, key, <<>>) |-> Child(n, key, k, s[key][k])]
        patterns == Or(s, "patternProperties", <<>>)
    IN [kind |-> "object", s |-> s,
        properties |-> children("properties"),
        required |-> Or(s, "required", {}),
        permits |-> Permits(s, "additionalProperties"), extra |-> Extra(n, s, "additionalProperties"),
        patterns |-> [i \in DOMAIN patterns |->
                        [keys |-> patterns[i].keys, schema |-> Child(n, "pattern", i, patterns[i].schema)]],
        dependencies |-> Or(s, "dependencies", <<>>),
        schemas |-> children("schemaDependencies")]

Combined(crit, subs, raw) == [kind |-> "combined", crit |-> crit, subs |-> subs, raw |-> raw]
CombinedOf(n, s, crit, key) ==
    Combined(crit, [i \in DOMAIN s[key] |-> Child(n, key, i, s[key][i])], s[key])

\* The exclusive limits of draft-04 are booleans, and no limits here.
NumberKind(n, s, t) ==
    [kind |-> "number", integer |-> t = "integer",
     s |-> IF Draft4(n.doc) THEN Drop(s, {"exclusiveMinimum", "exclusiveMaximum"}) ELSE s]

KindOfType(n, s, t) ==
    CASE t = "array" -> ArrayKind(n, s)
      [] t = "object" -> ObjectKind(n, s)
      [] t \in {"integer", "number"} -> NumberKind(n, s, t)
      [] OTHER -> [kind |-> t, s |-> s]

\* The kind of a part.
KindOfPart(n, s) ==
    CASE Has(s, "enum") -> [kind |-> "enum", values |-> s.enum]
      [] Has(s, "allOf") -> CombinedOf(n, s, "all", "allOf")
      [] Has(s, "anyOf") -> CombinedOf(n, s, "any", "anyOf")
      [] Has(s, "oneOf") -> CombinedOf(n, s, "one", "oneOf")
      [] Has(s, "not") -> [kind |-> "not", of |-> Child(n, "not", "", s.not)]
      [] Has(s, "const") -> [kind |-> "const", value |-> s.const]
      [] Has(s, "types") ->
           Combined("any", [i \in DOMAIN s.types |->
                              Child(n, "types", i, [type |-> s.types[i]] @@ Keep(s, Consumes(s.types[i])))],
                    s.types)
      [] DOMAIN s \cap Conditional # {} -> [kind |-> "conditional"]
      [] OTHER -> KindOfType(n, s, s.type)

\* load: several parts are a conjunction that nobody wrote.
Kind(n) ==
    LET parts == Parts(Known(n))
    IN IF Has(n.s, "bool") THEN [kind |-> IF n.s.bool THEN "true" ELSE "false"]
       ELSE IF Has(n.s, "ref") THEN [kind |-> "ref"]
       ELSE IF parts = <<>> THEN [kind |-> "empty"]
       ELSE IF Len(parts) = 1 THEN KindOfPart(n, parts[1])
       ELSE Combined("all", [i \in DOMAIN parts |-> Child(n, "part", i, parts[i])], <<>>)

-----------------------------------------------------------------------------
(***************************************************************************)
(* The diff.  o is of the writer's schema, the original, and u of the      *)
(* reader's, the update; the stack holds the originals under way.          *)
(***************************************************************************)
RECURSIVE Compare(_, _, _)

\* Mutant: a schema where there was none is taken for compatible.
CompareOptionalLax(o, u, stack) == {} \in {o, u} \/ Compare(Only(o), Only(u), stack)

\* A schema that may be absent, as a set of at most one.
CompareOptional(o, u, stack) ==
    \/ u = {}
    \/ o # {} /\ Compare(Only(o), Only(u), stack)

\* Mutant: a limit that is kept is taken for a lower one.
RaisedStrictly(o, u, key) == Has(u, key) => Has(o, key) /\ o[key] < u[key]

\* compare_bound: a limit may be raised or dropped, a floor lowered or dropped.
Raised(o, u, key) == Has(u, key) => Has(o, key) /\ o[key] <= u[key]
Lowered(o, u, key) == Has(u, key) => Has(o, key) /\ o[key] >= u[key]

CompareString(o, u) ==
    /\ Raised(o.s, u.s, "maxLength")
    /\ Lowered(o.s, u.s, "minLength")
    /\ Has(u.s, "pattern") => Maybe(o.s, "pattern") = Maybe(u.s, "pattern")

\* multipleOf, cut to an integer, may become a proper divisor of itself.
Reduced(o, u) ==
    LET a == o \div 2
        b == u \div 2
    IN o = u \/ (b # 0 /\ a % b = 0 /\ (a = 0 \/ b % a # 0))

CompareNumber(o, u) ==
    /\ \A key \in {"maximum", "exclusiveMaximum"} : Raised(o.s, u.s, key)
    /\ \A key \in {"minimum", "exclusiveMinimum"} : Lowered(o.s, u.s, key)
    /\ Has(u.s, "multipleOf") => Has(o.s, "multipleOf") /\ Reduced(o.s.multipleOf, u.s.multipleOf)
    /\ u.integer => o.integer

\* Size of a maximum matching: every left node in turn looks for an augmenting path.
\* m is the owner of each right node taken so far, seen the right nodes tried.
RECURSIVE Augment(_, _, _)
Augment(l, edges, st) ==
    LET visit(acc, r) ==
          IF acc.found \/ r \in acc.seen THEN acc
          ELSE LET tried == [acc EXCEPT !.seen = @ \cup {r}]
                   moved == IF r \in DOMAIN acc.owner THEN Augment(acc.owner[r], edges, tried)
                            ELSE [tried EXCEPT !.found = TRUE]
               IN IF moved.found THEN [moved EXCEPT !.owner = (r :> l) @@ @] ELSE moved
    IN FoldLeft(visit, st, edges[l])

\* Mutant: a right node that is taken is never given up.
MaxMatchingGreedy(edges) ==
    LET step(owner, l) ==
          LET free == SelectSeq(edges[l], LAMBDA r : r \notin DOMAIN owner)
          IN IF free = <<>> THEN owner ELSE (free[1] :> l) @@ owner
    IN Cardinality(DOMAIN FoldLeft(step, <<>>, [l \in DOMAIN edges |-> l]))

MaxMatching(edges) ==
    LET step(owner, l) == Augment(l, edges, [found |-> FALSE, seen |-> {}, owner |-> owner]).owner
    IN Cardinality(DOMAIN FoldLeft(step, <<>>, [l \in DOMAIN edges |-> l]))

\* Subschemas written alike are compared once.
Distinct(k) ==
    SelectSeq([i \in DOMAIN k.subs |-> i],
              LAMBDA i : k.raw = <<>> \/ \A j \in 1..(i - 1) : k.raw[j] # k.raw[i])

CompareCombined(o, u, stack) ==
    LET os == Distinct(o)
        us == Distinct(u)
        edges == [i \in DOMAIN os |->
                    SelectSeq([j \in DOMAIN us |-> j],
                              LAMBDA j : Compare(o.subs[os[i]], u.subs[us[j]], stack))]
        extended == \/ u.crit = "any"
                    \/ Len(o.subs) = 1 /\ Len(u.subs) = 1
                    \/ Len(o.subs) = 1 /\ u.crit = "one"
                    \/ Len(u.subs) = 1 /\ o.crit = "all"
    IN /\ o.crit = u.crit \/ extended
       /\ Len(os) < Len(us) => u.crit # "all"
       /\ Len(os) > Len(us) => o.crit = "all"
       /\ MaxMatching(edges) >= Len(os) \/ MaxMatching(edges) >= Len(us)

\* Anything may be added to the object, and what else covers a key.
IsOpen(k) == k.patterns = <<>> /\ k.extra = {} /\ k.permits
PartialSchema(k, key) ==
    LET matching == SelectSeq(k.patterns, LAMBDA p : key \in p.keys)
    IN IF matching # <<>> THEN {matching[1].schema} ELSE k.extra

HasDefault(u) == Has(u.s, "default") \/ Has(Deref(u).s, "default")
AcceptsAll(u) == Kind(Deref(u)).kind \in {"empty", "true"}

PropertyRemoved(o, u, key, stack) ==
    LET partial == PartialSchema(u, key)
    IN \/ IsOpen(u)
       \/ partial # {} /\ Compare(o.properties[key], Only(partial), stack)
       \/ partial = {} /\ Kind(Deref(o.properties[key])).kind = "false"

PropertyAdded(o, u, key, stack) ==
    LET partial == PartialSchema(o, key)
    IN IF IsOpen(o) THEN AcceptsAll(u.properties[key])
       ELSE /\ partial # {} => Compare(Only(partial), u.properties[key], stack)
            /\ key \in u.required => HasDefault(u.properties[key])

\* The schema of the properties or items that are not listed.
CompareExtra(o, u, stack) ==
    IF o.permits # u.permits THEN u.permits ELSE CompareOptional(o.extra, u.extra, stack)

CompareObject(o, u, stack) ==
    LET both == DOMAIN o.properties \cap DOMAIN u.properties
    IN /\ \A key \in both : key \in u.required \ o.required => HasDefault(u.properties[key])
       /\ \A key \in both : Compare(o.properties[key], u.properties[key], stack)
       /\ \A key \in DOMAIN o.properties \ both : PropertyRemoved(o, u, key, stack)
       /\ \A key \in DOMAIN u.properties \ both : PropertyAdded(o, u, key, stack)
       /\ \A key \in DOMAIN u.dependencies :
            key \in DOMAIN o.dependencies /\ u.dependencies[key] \subseteq o.dependencies[key]
       /\ \A key \in DOMAIN u.schemas :
            key \in DOMAIN o.schemas /\ Compare(o.schemas[key], u.schemas[key], stack)
       /\ CompareExtra(o, u, stack)
       /\ Raised(o.s, u.s, "maxProperties")
       /\ Lowered(o.s, u.s, "minProperties")

ItemRemoved(o, u, i, stack) ==
    \/ u.extra = {} /\ u.permits
    \/ u.extra # {} /\ Compare(o.items[i], Only(u.extra), stack)
    \/ u.extra = {} /\ Kind(Deref(o.items[i])).kind = "false"

ItemAdded(o, u, i, stack) ==
    IF o.extra # {} THEN Compare(Only(o.extra), u.items[i], stack)
    ELSE o.permits => AcceptsAll(u.items[i])

CompareArray(o, u, stack) ==
    LET both == DOMAIN o.items \cap DOMAIN u.items
    IN /\ CompareOptional(o.all, u.all, stack)
       /\ \A i \in both : Compare(o.items[i], u.items[i], stack)
       /\ \A i \in DOMAIN o.items \ both : ItemRemoved(o, u, i, stack)
       /\ \A i \in DOMAIN u.items \ both : ItemAdded(o, u, i, stack)
       /\ CompareExtra(o, u, stack)
       /\ Raised(o.s, u.s, "maxItems")
       /\ Lowered(o.s, u.s, "minItems")
       /\ Or(u.s, "uniqueItems", FALSE) => Or(o.s, "uniqueItems", FALSE)

\* Two nodes of one kind; the original is on the stack.  Two conditions are
\* not compared.
CompareKinds(o, u, stack) ==
    CASE o.kind = "string" -> CompareString(o, u)
      [] o.kind = "number" -> CompareNumber(o, u)
      [] o.kind = "const" -> o.value = u.value
      [] o.kind = "enum" -> o.values \subseteq u.values
      [] o.kind = "combined" -> CompareCombined(o, u, stack)
      [] o.kind = "not" -> Compare(u.of, o.of, {})
      [] o.kind = "object" -> CompareObject(o, u, stack)
      [] o.kind = "array" -> CompareArray(o, u, stack)
      [] OTHER -> TRUE

\* One of the schemas combines others and the other does not: one of the others will do.
OneOfTheSubs(original, o, update, u, stack) ==
    \/ /\ u.kind = "combined" /\ o.kind # "combined"
       /\ Len(u.subs) = 1 \/ u.crit \in {"any", "one"}
       /\ \E i \in DOMAIN u.subs : Compare(original, u.subs[i], stack)
    \/ /\ o.kind = "combined" /\ u.kind # "combined"
       /\ Len(o.subs) = 1 \/ o.crit = "all"
       /\ \E i \in DOMAIN o.subs : Compare(o.subs[i], update, stack)

Compare(original, update, stack) ==
    LET on == Deref(original)
        un == Deref(update)
        o == Kind(on)
        u == Kind(un)
    IN \/ OneOfTheSubs(on, o, un, u, stack)
       \/ o.kind # u.kind /\ (o.kind = "false" \/ u.kind \in {"empty", "true"})
       \/ o.kind = u.kind /\ (on.at \in stack \/ CompareKinds(o, u, stack \cup {on.at}))

JsonCanRead == Compare(RootOf("writer"), RootOf("reader"), {})
-----------------------------------------------------------------------------
(***************************************************************************)
(* What the answer is worth: the documents a schema accepts, as JSON       *)
(* Schema defines it.  A document is [null |-> TRUE], [number |-> n],      *)
(* [string |-> length], [array |-> a sequence] or [object |-> a record],   *)
(* whose keys are of one letter.                                           *)
(***************************************************************************)
CONSTANT Documents

IsType(t, d) == IF t = "integer" THEN Has(d, "number") /\ d.number % 2 = 0 ELSE Has(d, t)

Below(s, v, draft4) ==
    IF draft4 THEN Has(s, "maximum") /\ s.exclusiveMaximum => v < s.maximum ELSE v < s.exclusiveMaximum
Above(s, v, draft4) ==
    IF draft4 THEN Has(s, "minimum") /\ s.exclusiveMinimum => v > s.minimum ELSE v > s.exclusiveMinimum

ValidNumber(s, v, draft4) ==
    /\ Has(s, "minimum") => v >= s.minimum
    /\ Has(s, "maximum") => v <= s.maximum
    /\ Has(s, "exclusiveMinimum") => Above(s, v, draft4)
    /\ Has(s, "exclusiveMaximum") => Below(s, v, draft4)
    /\ Has(s, "multipleOf") => v % s.multipleOf = 0

ValidString(s, v) ==
    /\ Has(s, "minLength") => v >= s.minLength
    /\ Has(s, "maxLength") => v <= s.maxLength
    /\ \A key \in {"pattern", "format"} : Has(s, key) => v \in s[key]

RECURSIVE Valid(_, _)

ValidArray(n, v) ==
    LET s == n.s
        tuple == Or(s, "tuple", <<>>)
    IN /\ Has(s, "minItems") => Len(v) >= s.minItems
       /\ Has(s, "maxItems") => Len(v) <= s.maxItems
       /\ Or(s, "uniqueItems", FALSE) => IsInjective(v)
       /\ Has(s, "items") => \A i \in DOMAIN v : Valid(Child(n, "", "", s.items), v[i])
       /\ \A i \in DOMAIN v \cap DOMAIN tuple : Valid(Child(n, "", "", tuple[i]), v[i])
       /\ Has(s, "tuple") /\ Has(s, "additionalItems") =>
            \A i \in DOMAIN v \ DOMAIN tuple : Valid(Child(n, "", "", s.additionalItems), v[i])
       /\ Has(s, "contains") => \E i \in DOMAIN v : Valid(Child(n, "", "", s.contains), v[i])

ValidObject(n, v) ==
    LET s == n.s
        properties == Or(s, "properties", <<>>)
        patterns == Or(s, "patternProperties", <<>>)
        matched == UNION {patterns[i].keys : i \in DOMAIN patterns}
        needs == Or(s, "dependencies", <<>>)
        implied == Or(s, "schemaDependencies", <<>>)
    IN /\ Or(s, "required", {}) \subseteq DOMAIN v
       /\ Has(s, "minProperties") => Cardinality(DOMAIN v) >= s.minProperties
       /\ Has(s, "maxProperties") => Cardinality(DOMAIN v) <= s.maxProperties
       /\ \A k \in DOMAIN v \cap DOMAIN properties : Valid(Child(n, "", "", properties[k]), v[k])
       /\ \A i \in DOMAIN patterns : \A k \in DOMAIN v \cap patterns[i].keys :
            Valid(Child(n, "", "", patterns[i].schema), v[k])
       /\ Has(s, "additionalProperties") =>
            \A k \in DOMAIN v \ (DOMAIN properties \cup matched) :
               Valid(Child(n, "", "", s.additionalProperties), v[k])
       /\ \A k \in DOMAIN needs \cap DOMAIN v : needs[k] \subseteq DOMAIN v
       /\ \A k \in DOMAIN implied \cap DOMAIN v : Valid(Child(n, "", "", implied[k]), [object |-> v])
       /\ Has(s, "propertyNames") /\ v # <<>> => Valid(Child(n, "", "", s.propertyNames), [string |-> 1])

Valid(node, d) ==
    LET n == IF Has(node.s, "ref") THEN Deref(node) ELSE node
        s == Known(n)
        sub(x) == Valid(Child(n, "", "", x), d)
    IN IF Has(s, "bool") THEN s.bool
       ELSE IF Has(s, "ref") THEN Valid(n, d)
       ELSE /\ Has(s, "type") => IsType(s.type, d)
            /\ Has(s, "types") => \E t \in ToSet(s.types) : IsType(t, d)
            /\ Has(s, "enum") => d \in s.enum
            /\ Has(s, "const") => d = s.const
            /\ Has(s, "allOf") => \A i \in DOMAIN s.allOf : sub(s.allOf[i])
            /\ Has(s, "anyOf") => \E i \in DOMAIN s.anyOf : sub(s.anyOf[i])
            /\ Has(s, "oneOf") => Cardinality({i \in DOMAIN s.oneOf : sub(s.oneOf[i])}) = 1
            /\ Has(s, "not") => ~sub(s.not)
            /\ Has(s, "if") => \A x \in Maybe(s, IF sub(s.if) THEN "then" ELSE "else") : sub(x)
            /\ Has(d, "number") => ValidNumber(s, d.number, Draft4(n.doc))
            /\ Has(d, "string") => ValidString(s, d.string)
            /\ Has(d, "array") => ValidArray(n, d.array)
            /\ Has(d, "object") => ValidObject(n, d.object)

CarriesOver == \A d \in Documents : Valid(RootOf("writer"), d) => Valid(RootOf("reader"), d)

\* Every schema inside a schema, itself included.
RECURSIVE Inside(_)
Inside(s) ==
    LET under(key) == {Or(s, key, <<>>)[k] : k \in DOMAIN Or(s, key, <<>>)}
        direct == UNION {Maybe(s, key) : key \in Conditional \cup
                            {"items", "additionalItems", "additionalProperties", "not", "contains", "propertyNames"}}
        subs == direct \cup {p.schema : p \in under("patternProperties")}
                \cup UNION {under(key) : key \in {"properties", "tuple", "allOf", "anyOf", "oneOf",
                                                  "definitions", "schemaDependencies"}}
    IN {s} \cup UNION {Inside(x) : x \in subs}

\* The properties, by their paths, that are references.
RECURSIVE References(_)
References(s) ==
    IF Has(s, "ref") THEN {<<>>}
    ELSE UNION {{<<k>> \o path : path \in References(s.properties[k])} : k \in DOMAIN Or(s, "properties", <<>>)}

\* Keywords of a kind of value that "type" does not name.
Untyped(s) == \E i \in DOMAIN Parts(s) : Has(Parts(s)[i], "type") /\ Parts(s)[i].type \notin Maybe(s, "type")

\* The schemas that narrow what the reader takes: its own, and those the writer negates.
Narrowing ==
    Inside(reader) \cup UNION {Inside(s.not) : s \in {x \in Inside(writer) : Has(x, "not")}}

\* Keywords that are loaded, and are no part of any comparison: contains, propertyNames,
\* format, a condition, and the exclusive limits of draft-04.
Uncompared ==
    \/ \E s \in Narrowing : DOMAIN s \cap {"contains", "propertyNames", "format", "if"} # {}
    \/ \E doc \in {"writer", "reader"} : \E s \in Inside(Document(doc)) :
          Draft4(doc) /\ DOMAIN s \cap {"exclusiveMinimum", "exclusiveMaximum"} # {}

\* multipleOf is cut to an integer before it is divided.
Fractional ==
    \E s \in Inside(reader) \cup Inside(writer) : Has(s, "multipleOf") /\ s.multipleOf % 2 # 0

\* What the diff does not look at: the keywords above; keys that are required and not
\* listed, new or with a default; whether the alternatives of a oneOf exclude each other;
\* patterns of keys; values of another type than the keywords are about; items without a
\* tuple; what a reference to a reference names; and, below a schema that is met again,
\* everything.
Blind ==
    \/ Uncompared \/ Fractional
    \/ \E s \in Inside(reader) :
          \/ \E k \in Or(s, "required", {}) :
                \/ k \notin DOMAIN Or(s, "properties", <<>>)
                \/ Has(s.properties[k], "default") \/ AcceptsAll(Node("reader", <<>>, s.properties[k]))
          \/ Has(s, "oneOf")
    \/ \E s \in Inside(reader) \cup Inside(writer) : Has(s, "patternProperties")
    \/ \E s \in Inside(writer) : Untyped(s) \/ (Has(s, "additionalItems") /\ ~Has(s, "tuple"))
    \/ References(reader) # References(writer)
    \/ \E s \in Inside(writer) : \E k \in DOMAIN Or(s, "definitions", <<>>) : Has(s.definitions[k], "ref")

\* The comment at the head of schema/json.rs: when the diff says that the reader can
\* read, every document valid under the writer's schema is valid under the reader's.
EveryDocument == format = "json" /\ JsonCanRead => CarriesOver

\* The same for every pair of schemas but those with what the diff does not look at:
\* the comparison of the alternatives by a matching, of the keys and items that one
\* side does not list, and of what stands for several keywords is sound.
JsonSound == format = "json" /\ JsonCanRead /\ ~Blind => CarriesOver

Edges(edges) == UNION {{<<l, edges[l][i]>> : i \in DOMAIN edges[l]} : l \in DOMAIN edges}
IsMatching(pairs) == \A p, q \in pairs : p[1] = q[1] \/ p[2] = q[2] => p = q

\* The number of augmenting paths found is the size of a largest set of pairs of
\* compatible alternatives that no two share: the diff never gives one alternative
\* of the reader to two of the writer, nor misses a way to place them all.
MatchingIsMaximum ==
    format = "matching" =>
       MaxMatching(writer) = Max({Cardinality(m) : m \in {m \in SUBSET Edges(writer) : IsMatching(m)}})
=============================================================================
