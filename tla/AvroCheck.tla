----------------------------- MODULE AvroCheck ------------------------------
(***************************************************************************)
(* Can a reader with one Avro schema read what was written with another?   *)
(* The checker of schema/avro.rs, with the memo that ends its recursion,   *)
(* and what its answer means for data.                                     *)
(*                                                                         *)
(* A schema is a map from names to definitions (records, enums and fixed)  *)
(* and its root is the record "A".  A type is a record whose kind is a     *)
(* primitive, "array" or "map" (of a type), "union" (of a sequence of      *)
(* types) or "ref" (to a name).  Logical types are lowered to what they    *)
(* annotate; a definition has its full name and its name without the       *)
(* namespace.  Of the incompatibilities the code lists only whether there  *)
(* are any is kept.                                                        *)
(***************************************************************************)
EXTENDS SchemaChange

CONSTANTS
    Depth           \* how deeply the written values are nested

Numeric == <<"int", "long", "float", "double">>
Named   == {"record", "enum", "fixed"}

\* The writer's primitive w is promoted to the reader's primitive r.
Promotable(w, r) ==
    \/ w = r
    \/ \E i, j \in DOMAIN Numeric : i < j /\ Numeric[i] = w /\ Numeric[j] = r
    \/ {w, r} = {"string", "bytes"}

\* A reference stands for the definition it names.
Lower(schema, t) ==
    IF t.kind # "ref" THEN t
    ELSE IF t.name \in DOMAIN schema THEN schema[t.name] ELSE [kind |-> "unresolved"]

\* The names are equal but for the namespace, or the writer's is an alias of the reader's.
NamesMatch(r, w) == r.name = w.name \/ w.full \in r.aliases

\* The position of the writer's field for a field of the reader: by name, else
\* by an alias, 0 if there is none.
FieldIn(w, f) ==
    LET named == SelectInSeq(w.fields, LAMBDA g : g.name = f.name)
    IN IF named # 0 THEN named ELSE SelectInSeq(w.fields, LAMBDA g : g.name \in f.aliases)

-----------------------------------------------------------------------------
(***************************************************************************)
(* The checker.  The memo maps pairs of names to the answer; a pair under  *)
(* way is taken to be compatible.                                          *)
(***************************************************************************)
Answer(ok, memo) == [ok |-> ok, memo |-> memo]

\* Every check of a sequence is made, whatever the earlier ones answered.
CheckAll(check(_, _), seq, memo) ==
    FoldLeft(LAMBDA acc, x : LET a == check(x, acc.memo) IN Answer(acc.ok /\ a.ok, a.memo),
             Answer(TRUE, memo), seq)

\* The checks are made until one succeeds.
CheckAny(check(_, _), seq, memo) ==
    FoldLeft(LAMBDA acc, x : IF acc.ok THEN acc ELSE check(x, acc.memo), Answer(FALSE, memo), seq)

Remember(memo, pair, ok) ==
    [p \in DOMAIN memo \cup {pair} |-> IF p = pair THEN ok ELSE memo[p]]

\* Mutant: a pair under way is taken to be incompatible.
UnderWayDoubted(memo, pair) == Remember(memo, pair, FALSE)
UnderWay(memo, pair) == Remember(memo, pair, TRUE)

EnumReads(r, w) == NamesMatch(r, w) /\ (w.symbols \subseteq r.symbols \/ r.default \in r.symbols)

RECURSIVE Get(_, _, _)
RECURSIVE Calc(_, _, _)

\* Mutant: a field of the reader without a default may be missing.
FieldAlwaysOptional(f, w, memo) ==
    LET g == FieldIn(w, f)
    IN IF g # 0 THEN Get(f.type, w.fields[g].type, memo) ELSE Answer(TRUE, memo)

\* A field that the writer lacks needs a default; an enum with a default of its
\* own is compared with the whole writer, which is a record and never matches.
ReaderField(f, w, memo) ==
    LET g == FieldIn(w, f)
    IN IF g # 0 THEN Get(f.type, w.fields[g].type, memo) ELSE Answer(f.default, memo)

\* calc, r and w being lowered; rt and wt are the types as they stand.
Calc(rt, wt, memo) ==
    LET r == Lower(reader, rt)
        w == Lower(writer, wt)
    IN CASE "unresolved" \in {r.kind, w.kind} -> Answer(FALSE, memo)
         [] r.kind = w.kind /\ r.kind \in {"array", "map"} -> Get(r.of, w.of, memo)
         [] r.kind = "fixed" /\ w.kind = "fixed" -> Answer(NamesMatch(r, w) /\ r.size = w.size, memo)
         [] r.kind = "enum" /\ w.kind = "enum" -> Answer(EnumReads(r, w), memo)
         [] r.kind = "record" /\ w.kind = "record" ->
              LET fields == CheckAll(LAMBDA f, m : ReaderField(f, w, m), r.fields, memo)
              IN Answer(NamesMatch(r, w) /\ fields.ok, fields.memo)
         [] w.kind = "union" -> CheckAll(LAMBDA b, m : Get(rt, b, m), w.of, memo)
         [] w.kind # "union" /\ r.kind = "union" ->
              CheckAny(LAMBDA b, m : Get(b, wt, m), r.of, memo)
         [] OTHER -> Answer(Promotable(w.kind, r.kind), memo)

\* get: the memo answers for a pair of named types.
Get(rt, wt, memo) ==
    LET r == Lower(reader, rt)
        w == Lower(writer, wt)
        pair == <<r.full, w.full>>
        a == Calc(rt, wt, UnderWay(memo, pair))
    IN IF ~({r.kind, w.kind} \subseteq Named) THEN Calc(rt, wt, memo)
       ELSE IF pair \in DOMAIN memo THEN Answer(memo[pair], memo)
       ELSE Answer(a.ok, Remember(a.memo, pair, a.ok))

Root == [kind |-> "ref", name |-> "A"]
AvroCanRead == Get(Root, Root, [p \in {} |-> TRUE]).ok

-----------------------------------------------------------------------------
(***************************************************************************)
(* What the answer is worth.  The values of a type, to a depth, and the    *)
(* values a reader can resolve, as Avro defines resolution.                *)
(***************************************************************************)
RECURSIVE Values(_, _)
Values(t, depth) ==
    LET w == Lower(writer, t)
        inner(u) == IF depth = 0 THEN {} ELSE Values(u, depth - 1)
    IN CASE w.kind = "array"  -> {[items |-> {}]} \cup {[items |-> {v}] : v \in inner(w.of)}
         [] w.kind = "union"  ->
              UNION {{[branch |-> i, value |-> v] : v \in Values(w.of[i], depth)} : i \in DOMAIN w.of}
         [] w.kind = "enum"   -> {[symbol |-> x] : x \in w.symbols}
         [] w.kind = "record" ->
              LET of == [i \in DOMAIN w.fields |-> inner(w.fields[i].type)]
              IN {[fields |-> v] : v \in {v \in [DOMAIN of -> UNION Range(of)] :
                                            \A i \in DOMAIN of : v[i] \in of[i]}}
         [] OTHER -> {[leaf |-> w.kind]}

RECURSIVE Resolves(_, _, _)
Resolves(rt, wt, v) ==
    LET r == Lower(reader, rt)
        w == Lower(writer, wt)
        field(f) == FieldIn(w, f)
    IN CASE w.kind = "union" -> Resolves(rt, w.of[v.branch], v.value)
         [] w.kind # "union" /\ r.kind = "union" -> \E i \in DOMAIN r.of : Resolves(r.of[i], wt, v)
         [] r.kind = "array" /\ w.kind = "array" -> \A x \in v.items : Resolves(r.of, w.of, x)
         [] r.kind = "enum" /\ w.kind = "enum" ->
              NamesMatch(r, w) /\ (v.symbol \in r.symbols \/ r.default \in r.symbols)
         [] r.kind = "record" /\ w.kind = "record" ->
              /\ NamesMatch(r, w)
              /\ \A f \in ToSet(r.fields) :
                   IF field(f) = 0 THEN f.default
                   ELSE Resolves(f.type, w.fields[field(f)].type, v.fields[field(f)])
         [] OTHER -> Promotable(w.kind, r.kind)

\* The answers when no pair is ever under way: the largest set of pairs of names
\* each of which is compatible when the pairs it meets are.
Pairs == {<<r, w>> : r \in DOMAIN reader, w \in DOMAIN writer}
RECURSIVE Largest(_)
Largest(memo) ==
    LET next == [p \in Pairs |-> memo[p] /\ Calc([kind |-> "ref", name |-> p[1]],
                                                [kind |-> "ref", name |-> p[2]], memo).ok]
    IN IF next = memo THEN memo ELSE Largest(next)
Exact == Largest([p \in Pairs |-> TRUE])

\* A union of the reader offers two named types for one written value.
Choosing ==
    \E n \in DOMAIN reader : reader[n].kind = "record"
       /\ \E f \in ToSet(reader[n].fields) : f.type.kind = "union"
             /\ \E i, j \in DOMAIN f.type.of : i # j /\ {f.type.of[i].kind, f.type.of[j].kind} = {"ref"}

\* Where the checker says that the reader can read, every value of the writer's
\* schema resolves under the reader's, although answers given while a recursive
\* pair was under way are kept for good; but for a reader's union of two named
\* types, where a branch that is tried and left leaves such answers behind.
AvroSound ==
    format = "avro" /\ AvroCanRead /\ ~Choosing => \A v \in Values(Root, Depth) : Resolves(Root, Root, v)

\* The checker never refuses a pair that is compatible when its recursion is
\* unrolled for ever: the memo refuses nothing that the schemas do not.
AvroComplete == format = "avro" /\ Exact[<<"A", "A">>] => AvroCanRead
=============================================================================
