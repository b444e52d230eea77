----------------------------- MODULE ProtoDiff ------------------------------
(***************************************************************************)
(* Protobuf compatibility: the diff of schema/protobuf.rs.                 *)
(*                                                                         *)
(* A schema has a package and two files, the schema itself ("root") and    *)
(* the one it references ("dep"); a file maps the paths of its messages,   *)
(* nested ones included, to messages, and a message is a sequence of       *)
(* fields.  A field has a number, a name, the label written in the source  *)
(* ("" when there is none), a type and the name of its oneof ("" when it   *)
(* is in none).  A type is [kind |-> "scalar", group |-> ...], a message   *)
(* or a map.  Which differences were found is kept and not where.          *)
(***************************************************************************)
EXTENDS SchemaChange

Compatible ==
    {"MESSAGE_ADDED", "MESSAGE_MOVED", "FIELD_ADDED", "FIELD_REMOVED", "FIELD_NAME_CHANGED",
     "FIELD_STRING_OR_BYTES_LABEL_CHANGED", "ONEOF_ADDED", "ONEOF_REMOVED", "ONEOF_FIELD_ADDED"}
Incompatible(diffs) == diffs \ Compatible

If(condition, kind) == IF condition THEN {kind} ELSE {}

\* o is of the writer's schema, the original, and u of the reader's, the update.
\* A message is named by its file and its path.
Message(schema, m) == schema.files[m.file][m.path]

Numbers(fields) == {f.number : f \in fields}
Numbered(fields, n) == CHOOSE f \in fields : f.number = n
Regular(message) == {f \in ToSet(message) : f.oneof = ""}
OneofNames(message) == {f.oneof : f \in ToSet(message)} \ {""}
OneofOf(message, name) == {f \in ToSet(message) : f.oneof = name}

\* The label as written; a field of a oneof and a map have none.
ExplicitLabel(f) == IF f.oneof # "" \/ f.type.kind = "map" THEN "" ELSE f.label

\* The messages declared at one level, by their names.
Children(schema, file, path) ==
    {q \in DOMAIN schema.files[file] : Len(q) = Len(path) + 1 /\ IsPrefix(path, q)}

RECURSIVE CompareMessage(_, _, _)
RECURSIVE CompareTypes(_, _, _, _)

\* Mutant: the text of a reference is not looked at.
SameOriginByFile(o, u) == o.file = u.file

\* A type of the other kind of origin is compared where it is used; a type of the
\* schema itself is compared with the schema, and one from the same text not at all.
SameOrigin(o, u) ==
    /\ o.file = u.file
    /\ o.file # "root" => writer.files[o.file] = reader.files[u.file]

CompareMessageTypes(o, u, stack) ==
    LET nested == CompareMessage(o, u, stack)
    IN IF o.path # u.path THEN {"FIELD_NAMED_TYPE_CHANGED"}
       ELSE IF SameOrigin(o, u) THEN {}
       ELSE nested \cup If(Incompatible(nested) # {}, "FIELD_NAMED_TYPE_CHANGED")

RECURSIVE CompareLabelsAndTypes(_, _, _, _, _)
CompareLabelsAndTypes(ol, ul, ot, ut, stack) ==
    IF ot.kind # ut.kind THEN {"FIELD_KIND_CHANGED"}
    ELSE CASE ot.kind = "map" -> CompareLabelsAndTypes("", "", ot.key, ut.key, stack)
                                 \cup CompareLabelsAndTypes("", "", ot.value, ut.value, stack)
           [] ot.kind = "message" -> CompareMessageTypes(ot.message, ut.message, stack)
           [] OTHER -> IF ot.group # ut.group THEN {"FIELD_SCALAR_KIND_CHANGED"}
                       ELSE If("" \notin {ol, ul} /\ ol # ul,
                               IF ot.group = "STRING_OR_BYTES" THEN "FIELD_STRING_OR_BYTES_LABEL_CHANGED"
                               ELSE "FIELD_NUMERIC_LABEL_CHANGED")

CompareField(o, u, stack) ==
    If(o.name # u.name, "FIELD_NAME_CHANGED")
    \cup CompareLabelsAndTypes(ExplicitLabel(o), ExplicitLabel(u), o.type, u.type, stack)

\* The regular fields of the original that a oneof of the update takes in.
Moved(o, u) == {f \in Regular(o) : f.number \in Numbers(ToSet(u) \ Regular(u))}

MovedIntoOneof(o, u, name) ==
    LET moved == {f \in Moved(o, u) : f.number \in Numbers(OneofOf(u, name))}
        existing == Numbers(OneofOf(u, name)) \cap Numbers(ToSet(o) \ Regular(o))
    IN If(Cardinality(moved) > 1, "MULTIPLE_FIELDS_MOVED_TO_ONEOF")
       \cup If(Cardinality(moved) = 1 /\ existing # {}, "FIELD_MOVED_TO_EXISTING_ONEOF")

CompareOneof(o, u, name, stack) ==
    LET of == OneofOf(o, name)
        uf == OneofOf(u, name)
    IN If(Numbers(of) \ Numbers(uf) # {}, "ONEOF_FIELD_REMOVED")
       \cup If(Numbers(uf) \ Numbers(of) # {}, "ONEOF_FIELD_ADDED")
       \cup UNION {CompareField(Numbered(of, n), Numbered(uf, n), stack) : n \in Numbers(of) \cap Numbers(uf)}

CompareRegular(of, uf, stack) ==
    LET gone  == {f \in of : f.number \notin Numbers(uf)}
        added == {f \in uf : f.number \notin Numbers(of)}
        kind(f, required, other) == IF ExplicitLabel(f) = "required" THEN required ELSE other
    IN {kind(f, "REQUIRED_FIELD_REMOVED", "FIELD_REMOVED") : f \in gone}
       \cup {kind(f, "REQUIRED_FIELD_ADDED", "FIELD_ADDED") : f \in added}
       \cup UNION {CompareField(Numbered(of, n), Numbered(uf, n), stack) : n \in Numbers(of) \cap Numbers(uf)}

CompareMessageBody(o, u, stack) ==
    UNION {MovedIntoOneof(o, u, name) : name \in OneofNames(u)}
    \cup If(OneofNames(o) \ OneofNames(u) # {}, "ONEOF_REMOVED")
    \cup If(OneofNames(u) \ OneofNames(o) # {}, "ONEOF_ADDED")
    \cup UNION {CompareOneof(o, u, name, stack) : name \in OneofNames(o) \cap OneofNames(u)}
    \cup CompareRegular(Regular(o) \ Moved(o, u), Regular(u), stack)

\* The stack holds the originals under way; the nested messages are compared in any case.
CompareMessage(o, u, stack) ==
    (IF o \in stack THEN {} ELSE CompareMessageBody(Message(writer, o), Message(reader, u), stack \cup {o}))
    \cup CompareTypes(o, u, o.path, stack)

\* The messages declared below a path of both files, or at the top.
CompareTypes(o, u, path, stack) ==
    LET os == Children(writer, o.file, path)
        us == Children(reader, u.file, path)
    IN If(os \ us # {}, "MESSAGE_REMOVED")
       \cup If(us \ os # {}, "MESSAGE_ADDED")
       \cup UNION {CompareMessage([file |-> o.file, path |-> q], [file |-> u.file, path |-> q], stack) : q \in os \cap us}

Top == [file |-> "root", path |-> <<>>]
ProtoDiffs == If(writer.package # reader.package, "PACKAGE_CHANGED") \cup CompareTypes(Top, Top, <<>>, {})
ProtoCanRead == Incompatible(ProtoDiffs) = {}

-----------------------------------------------------------------------------
(***************************************************************************)
(* What the answer is worth: which messages of the two schemas meet when   *)
(* the reader decodes what was written, and whether they fit on the wire.  *)
(***************************************************************************)
Shared(o, u) == Numbers(ToSet(o)) \cap Numbers(ToSet(u))
FieldOf(message, n) == Numbered(ToSet(message), n)

\* The messages of a type; the value of a map is in the same place of both types.
RECURSIVE MeetIn(_, _)
MeetIn(ot, ut) ==
    IF ot.kind # ut.kind THEN {}
    ELSE CASE ot.kind = "message" -> {<<ot.message, ut.message>>}
           [] ot.kind = "map" -> MeetIn(ot.value, ut.value)
           [] OTHER -> {}

RECURSIVE Met(_)
Met(pairs) ==
    LET within(p) == LET o == Message(writer, p[1])
                         u == Message(reader, p[2])
                     IN UNION {MeetIn(FieldOf(o, n).type, FieldOf(u, n).type) : n \in Shared(o, u)}
        next == pairs \cup UNION {within(p) : p \in pairs}
    IN IF next = pairs THEN pairs ELSE Met(next)

MetAtAll ==
    Met({<<[file |-> "root", path |-> q], [file |-> "root", path |-> q]>> :
           q \in DOMAIN writer.files["root"] \cap DOMAIN reader.files["root"]})

RECURSIVE SameWire(_, _)
SameWire(ot, ut) ==
    /\ ot.kind = ut.kind
    /\ ot.kind = "scalar" => ot.group = ut.group
    /\ ot.kind = "map" => SameWire(ot.key, ut.key) /\ SameWire(ot.value, ut.value)

Fits(o, u) ==
    /\ \A n \in Shared(o, u) : SameWire(FieldOf(o, n).type, FieldOf(u, n).type)
    /\ \A f \in ToSet(u) : f.label = "required" => f.number \in Numbers(ToSet(o))

\* What the diff does not look at: a field that changes its oneof; and a message that
\* takes the place of one with the same name under way, one being the schema's own
\* and the other from a reference.
Overlooked(p) ==
    LET o == Message(writer, p[1])
        u == Message(reader, p[2])
    IN p[1].file # p[2].file \/ \E n \in Shared(o, u) : FieldOf(o, n).oneof # FieldOf(u, n).oneof

\* Where the diff finds nothing incompatible, every two messages that meet when the
\* reader decodes what was written fit: the fields they share have the same wire
\* form, and what the reader requires is written.  The recursion of the diff over
\* messages and references, ended by the names under way, misses no such pair.
ProtoSound ==
    format = "proto" /\ ProtoCanRead =>
       \/ \E p \in MetAtAll : Overlooked(p)
       \/ \A p \in MetAtAll : Fits(Message(writer, p[1]), Message(reader, p[2]))
=============================================================================
