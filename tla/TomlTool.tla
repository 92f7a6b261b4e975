------------------------------- MODULE TomlTool -------------------------------
(***************************************************************************)
(* The TOML and JSON converter of src/apps/web/src/features/tools/         *)
(* structured-text-workbench.ts.  A key is the sequence of what lies       *)
(* between its dots, <<>> the empty one; of a string only whether it holds *)
(* three quotes in a row is told, of a number how it is written.           *)
(***************************************************************************)
EXTENDS ToolWork, Integers
LOCAL INSTANCE TLC
LOCAL INSTANCE Sequences
LOCAL INSTANCE SequencesExt

CONSTANTS
    TomlValues,   \* JSON values to write
    MaxTomlDepth  \* MAX_TOML_DEPTH

ASSUME TomlAssumption == MaxTomlDepth \in Nat

PlainText    == Str("text")
TripleQuote  == Str("'''")
Whole        == Num("12")
Negative     == Num("-12")
Fraction     == Num("1.5")
BelowZero    == Num("-1.5")
Unsafe       == Num("100000000000000000000")

\* A line of TOML; what an exception leaves is an Unwritable one.
Table(path)      == [line |-> "table", path |-> path]
ArrayTable(path) == [line |-> "array table", path |-> path]
Pair(key, value) == [line |-> "pair", key |-> key, value |-> value]
Unwritable       == [line |-> "none"]

\* isScalarArray, and what tomlScalar writes.
TomlWrites(value) ==
    IF IsArray(value)
    THEN \A i \in DOMAIN value.items : IsScalar(value.items[i]) /\ value.items[i] # NullValue
    ELSE IsScalar(value) /\ value # NullValue

WritePair(key, value) == IF TomlWrites(value) THEN Pair(key, value) ELSE Unwritable

OfObjects(value) == IsArray(value) /\ \A i \in DOMAIN value.items : IsObject(value.items[i])

\* The lines of the members with these keys, in some order.
ForKeys(keys, LinesOf(_)) == FlattenSeq([i \in 1 .. Len(keys) |-> LinesOf(keys[i])])

RECURSIVE EmitTomlTable(_, _)

\* An item of an array of tables: its members, then the tables among them.
EmitItem(item, path) ==
    LET tables == {key \in DOMAIN item.of : IsObject(item.of[key])}
    IN <<ArrayTable(path)>>
         \o ForKeys(SetToSeq(DOMAIN item.of \ tables),
                    LAMBDA key : <<WritePair(key, item.of[key])>>)
         \o ForKeys(SetToSeq(tables),
                    LAMBDA key : EmitTomlTable(item.of[key], Append(path, key)))

\* Mutant: the values of a table come after the tables in it.
EmitScalarsLast(object, path) ==
    LET of == object.of
        tables == {key \in DOMAIN of : IsObject(of[key])}
        arrays == {key \in DOMAIN of : OfObjects(of[key])}
    IN (IF path = <<>> THEN <<>> ELSE <<Table(path)>>)
         \o ForKeys(SetToSeq(tables), LAMBDA key : EmitTomlTable(of[key], Append(path, key)))
         \o ForKeys(SetToSeq(DOMAIN of \ (tables \cup arrays)),
                    LAMBDA key : <<WritePair(key, of[key])>>)
         \o ForKeys(SetToSeq(arrays), LAMBDA key :
              FlattenSeq([i \in DOMAIN of[key].items |->
                EmitItem(of[key].items[i], Append(path, key))]))

\* emitTomlTable: values, then tables, then arrays of tables.
EmitTomlTable(object, path) ==
    LET of == object.of
        tables == {key \in DOMAIN of : IsObject(of[key])}
        arrays == {key \in DOMAIN of : OfObjects(of[key])}
    IN (IF path = <<>> THEN <<>> ELSE <<Table(path)>>)
         \o ForKeys(SetToSeq(DOMAIN of \ (tables \cup arrays)),
                    LAMBDA key : <<WritePair(key, of[key])>>)
         \o ForKeys(SetToSeq(tables), LAMBDA key : EmitTomlTable(of[key], Append(path, key)))
         \o ForKeys(SetToSeq(arrays), LAMBDA key :
              FlattenSeq([i \in DOMAIN of[key].items |->
                EmitItem(of[key].items[i], Append(path, key))]))

\* What is in a value, and how deep it goes (countNodes).
Members(value) ==
    IF IsArray(value) THEN ToSet(value.items)
    ELSE IF IsObject(value) THEN {value.of[key] : key \in DOMAIN value.of} ELSE {}

RECURSIVE TooDeep(_, _)
TooDeep(value, depth) ==
    depth > MaxTomlDepth \/ \E member \in Members(value) : TooDeep(member, depth + 1)

\* jsonToToml; <<Unwritable>> when it is refused.
JsonToToml(value) ==
    IF ~IsObject(value) \/ TooDeep(value, 0) THEN <<Unwritable>> ELSE EmitTomlTable(value, <<>>)

-----------------------------------------------------------------------------
(***************************************************************************)
(* Reading: the document so far, the table the next pairs belong to (an    *)
(* item of an array when item # 0), and the names of the tables declared.  *)
(***************************************************************************)
RECURSIVE Lookup(_, _)
Lookup(value, path) ==
    IF path = <<>> THEN value
    ELSE IF IsObject(value) /\ Head(path) \in DOMAIN value.of
    THEN Lookup(value.of[Head(path)], Tail(path)) ELSE UndefinedValue

RECURSIVE Placed(_, _, _)
Placed(object, path, value) ==
    IF path = <<>> THEN value
    ELSE LET key == Head(path)
             below == IF key \in DOMAIN object.of THEN object.of[key] ELSE Obj(<<>>)
         IN Obj((key :> Placed(below, Tail(path), value)) @@ object.of)

\* ensureTomlObjectPath fails: something on the way is not a table.
InTheWay(root, path) ==
    \E n \in 1 .. Len(path) :
      LET found == Lookup(root, SubSeq(path, 1, n)) IN found # UndefinedValue /\ ~IsObject(found)

\* A path as text: keys with dots in them look like several.
PathKey(path) == FlattenSeq(path)

StartToml == [ok |-> TRUE, root |-> Obj(<<>>), at |-> <<>>, item |-> 0,
              declared |-> {}, arrays |-> {}]

TomlError(read) == [read EXCEPT !.ok = FALSE]

\* parseTomlValue: what is read of a value as it was written.
TomlReads(value) ==
    LET readable(v) == v \notin {TripleQuote, BelowZero, Unsafe}
    IN IF IsArray(value) THEN \A i \in DOMAIN value.items : readable(value.items[i])
       ELSE readable(value)

\* [table]
ReadTable(read, path) ==
    IF <<>> \in ToSet(path) \/ PathKey(path) \in read.declared \cup read.arrays
         \/ InTheWay(read.root, path)
    THEN TomlError(read)
    ELSE [read EXCEPT !.root = IF Lookup(@, path) = UndefinedValue THEN Placed(@, path, Obj(<<>>)) ELSE @,
                      !.at = path, !.item = 0, !.declared = @ \cup {PathKey(path)}]

\* [[array of tables]]
ReadArrayTable(read, path) ==
    LET found == Lookup(read.root, path)
        items == IF IsArray(found) THEN found.items ELSE <<>>
    IN IF <<>> \in ToSet(path) \/ PathKey(path) \in read.declared
            \/ InTheWay(read.root, Front(path)) \/ (found # UndefinedValue /\ ~IsArray(found))
       THEN TomlError(read)
       ELSE [read EXCEPT !.root = Placed(@, path, Arr(Append(items, Obj(<<>>)))),
                         !.at = path, !.item = Len(items) + 1, !.arrays = @ \cup {PathKey(path)}]

\* key = value (assignTomlValue)
ReadPair(read, key, value) ==
    LET place == Lookup(read.root, read.at)
        table == IF read.item = 0 THEN place ELSE place.items[read.item]
        more == Obj((key :> value) @@ table.of)
    IN IF key = <<>> \/ ~TomlReads(value) \/ key \in DOMAIN table.of THEN TomlError(read)
       ELSE [read EXCEPT !.root =
               Placed(@, read.at, IF read.item = 0 THEN more
                                  ELSE [place EXCEPT !.items[read.item] = more])]

\* tomlToJson
TomlToJson(lines) ==
    LET step(read, line) ==
          CASE ~read.ok -> read
            [] read.ok /\ line.line = "table" -> ReadTable(read, line.path)
            [] read.ok /\ line.line = "array table" -> ReadArrayTable(read, line.path)
            [] read.ok /\ line.line = "pair" -> ReadPair(read, line.key, line.value)
        end == FoldLeft(step, StartToml, lines)
    IN IF lines = <<>> \/ TooDeep(end.root, 0) THEN TomlError(end) ELSE end

\* TomlJsonConverterTool: JSON to TOML, and what it makes of that TOML again.
SubmitToml ==
    \E value \in TomlValues :
      LET lines == JsonToToml(value)
          written == Unwritable \notin ToSet(lines)
          back == IF written THEN TomlToJson(lines) ELSE TomlError(StartToml)
      IN work' = [tool |-> "toml", value |-> value, written |-> written,
                  ok |-> back.ok, back |-> back.root]

-----------------------------------------------------------------------------
RECURSIVE Within(_)
Within(value) == {value} \cup UNION {Within(member) : member \in Members(value)}

RECURSIVE PathsOf(_, _)
PathsOf(value, path) ==
    {path} \cup UNION {PathsOf(value.of[key], Append(path, key)) :
                         key \in {k \in DOMAIN value.of : IsObject(value.of[k])}}

\* The value without the empty lists that are members of tables.
RECURSIVE NoEmptyLists(_)
NoEmptyLists(value) ==
    LET kept == {key \in DOMAIN value.of : value.of[key] # Arr(<<>>)}
    IN Obj([key \in kept |-> IF IsObject(value.of[key]) THEN NoEmptyLists(value.of[key])
                             ELSE value.of[key]])

\* What TOML of this subset has no form for.
NoToml(value) ==
    LET tables == {Lookup(value, path) : path \in PathsOf(value, <<>>)}
        lists == {list \in UNION {Members(table) : table \in tables} : IsArray(list)}
        items == UNION {Members(list) : list \in {l \in lists : OfObjects(l)}}
    IN \/ NullValue \in Within(value)
       \/ \E list \in lists : ~OfObjects(list) /\ \E item \in Members(list) : ~IsScalar(item)
       \/ \E item \in items : \E list \in Members(item) :
            IsArray(list) /\ \E member \in Members(list) : ~IsScalar(member)

\* What is written in a form that the reader refuses.
NotReadBack(value) ==
    LET all == Within(value)
        paths == PathsOf(value, <<>>)
        arrayPaths == UNION {{Append(path, key) : key \in
                                {k \in DOMAIN Lookup(value, path).of :
                                   LET v == Lookup(value, path).of[k]
                                   IN OfObjects(v) /\ v.items # <<>>}} : path \in paths}
        items == UNION {Members(Lookup(value, path)) : path \in arrayPaths}
    IN \/ NoEmptyLists(value) = Obj(<<>>)
       \/ all \cap {TripleQuote, BelowZero, Unsafe} # {}
       \/ \E v \in all : IsObject(v) /\ <<>> \in DOMAIN v.of /\ v.of[<<>>] # Arr(<<>>)
       \/ \E item \in items : <<>> \in DOMAIN item.of \/ \E member \in Members(item) : IsObject(member)
       \/ \E p \in paths : \E q \in paths \cup arrayPaths : p # q /\ PathKey(p) = PathKey(q)

(***************************************************************************)
(* What the converter writes as TOML it reads back as the same value,      *)
(* except for empty lists that are members of tables: they are not written *)
(* at all.  It writes everything TOML has a form for, and reads back all   *)
(* it wrote but: a document with nothing in it, three single quotes in a   *)
(* row, fractions below zero, whole numbers that are not safe, empty keys, *)
(* tables within the items of a list, and tables whose paths look the same *)
(* because a key has a dot in it.  emitTomlTable, tomlToJson.              *)
(***************************************************************************)
TomlRoundTrip ==
    work.tool = "toml" =>
      /\ work.ok => work.back = NoEmptyLists(work.value)
      /\ work.written <=> IsObject(work.value) /\ ~TooDeep(work.value, 0) /\ ~NoToml(work.value)
      /\ work.written => (work.ok <=> ~NotReadBack(work.value))
=============================================================================
