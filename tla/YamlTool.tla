------------------------------- MODULE YamlTool -------------------------------
(***************************************************************************)
(* The YAML and JSON converter of src/apps/web/src/features/tools/         *)
(* structured-data-utilities.ts.  A text is a sequence of the tokens below,*)
(* a token a word, a number or one character; a line of YAML is its indent *)
(* and such a sequence, in which a double-quoted string is one token.      *)
(***************************************************************************)
EXTENDS ToolWork, Integers
LOCAL INSTANCE Sequences
LOCAL INSTANCE FiniteSets
LOCAL INSTANCE SequencesExt
LOCAL INSTANCE FiniteSetsExt

CONSTANTS
    YamlValues,   \* JSON values to write; their strings and keys are token sequences
    MaxYamlDepth  \* MAX_YAML_DEPTH

ASSUME YamlAssumption == MaxYamlDepth \in Nat

Token(t) == [t |-> t]
Digits   == Token("12")     \* a number
Nil      == Token("null")   \* null, ~, true or false
Colon    == Token(":")
Hash     == Token("#")
Dash     == Token("-")
Anchor   == Token("&")      \* &, * or !
Single   == Token("'")
Space    == Token(" ")
OpenList == Token("[")
CloseList == Token("]")
OpenMap  == Token("{")
CloseMap == Token("}")
Quoted(text) == [t |-> "quoted", text |-> text]

IsQuoted(token) == token.t = "quoted"

Line(indent, content) == [indent |-> indent, content |-> content]

\* Mutant: what looks like null or a number is not quoted.
NeedsQuotesForSyntax(text) ==
    \/ text = <<>>
    \/ Head(text) \in {Dash, Colon, Hash, Anchor, Single, OpenList, CloseList, OpenMap, CloseMap}
    \/ Head(text) = Space \/ Last(text) = Space
    \/ \E i \in 1 .. Len(text) - 1 :
         \/ text[i] \in {Colon, Hash} /\ text[i + 1] = Space
         \/ text[i] = Space /\ text[i + 1] = Hash

\* yamlString
NeedsQuotes(text) ==
    \/ text = <<>>
    \/ text \in {<<Nil>>, <<Digits>>}
    \/ Head(text) \in {Dash, Colon, Hash, Anchor, Single, OpenList, CloseList, OpenMap, CloseMap}
    \/ Head(text) = Space \/ Last(text) = Space
    \/ \E i \in 1 .. Len(text) - 1 :
         \/ text[i] \in {Colon, Hash} /\ text[i + 1] = Space
         \/ text[i] = Space /\ text[i + 1] = Hash

YamlString(text) == IF NeedsQuotes(text) THEN <<Quoted(text)>> ELSE text

\* yamlScalarOutput
YamlScalarOutput(value) ==
    CASE value.kind = "string" -> YamlString(value.text)
      [] value.kind = "number" -> <<Digits>>
      [] OTHER -> <<Nil>>

\* emitYaml: a line for each scalar, key and dash, deeper ones indented by 2.
RECURSIVE EmitYaml(_, _)
EmitYaml(value, indent) ==
    LET below(lead, child) ==
          IF IsScalar(child)
          THEN <<Line(indent, lead \o <<Space>> \o YamlScalarOutput(child))>>
          ELSE <<Line(indent, lead)>> \o EmitYaml(child, indent + 2)
        keys == SetToSeq(DOMAIN value.of)
    IN CASE IsArray(value) /\ value.items = <<>> -> <<Line(indent, <<OpenList, CloseList>>)>>
         [] IsArray(value) /\ value.items # <<>> ->
              FlattenSeq([i \in DOMAIN value.items |-> below(<<Dash>>, value.items[i])])
         [] IsObject(value) /\ DOMAIN value.of = {} -> <<Line(indent, <<OpenMap, CloseMap>>)>>
         [] IsObject(value) /\ DOMAIN value.of # {} ->
              FlattenSeq([i \in DOMAIN keys |->
                below(YamlString(keys[i]) \o <<Colon>>, value.of[keys[i]])])
         [] IsScalar(value) -> <<Line(indent, YamlScalarOutput(value))>>

\* countNodes and the depth emitYaml reaches.
Children(value) ==
    IF IsArray(value) THEN value.items
    ELSE IF IsObject(value) THEN LET keys == SetToSeq(DOMAIN value.of)
                                 IN [i \in DOMAIN keys |-> value.of[keys[i]]]
    ELSE <<>>

RECURSIVE CountNodes(_)
CountNodes(value) ==
    FoldLeft(LAMBDA n, child : n + CountNodes(child), 1, Children(value))

RECURSIVE Nesting(_)
Nesting(value) ==
    FoldLeft(LAMBDA n, child :
               IF IsScalar(child) \/ Nesting(child) < n THEN n ELSE Nesting(child) + 1,
             0, Children(value))

-----------------------------------------------------------------------------
(***************************************************************************)
(* Reading.  A character counts outside of quotes and inline collections.  *)
(***************************************************************************)
Before(content, i, token) == Cardinality({j \in 1 .. i - 1 : content[j] = token})

Plain(content, i) ==
    /\ Before(content, i, Single) % 2 = 0
    /\ Before(content, i, OpenList) + Before(content, i, OpenMap)
         = Before(content, i, CloseList) + Before(content, i, CloseMap)

Trimmed(content) ==
    LET solid == {i \in DOMAIN content : content[i] # Space}
    IN IF solid = {} THEN <<>> ELSE SubSeq(content, Min(solid), Max(solid))

\* stripYamlComment
StripYamlComment(content) ==
    LET comments == {i \in DOMAIN content :
                       /\ content[i] = Hash /\ Plain(content, i)
                       /\ i = 1 \/ content[i - 1] = Space}
    IN IF comments = {} THEN content ELSE SubSeq(content, 1, Min(comments) - 1)

\* findYamlColon; 0 when there is none.
FindYamlColon(content) ==
    LET colons == {i \in DOMAIN content :
                     /\ content[i] = Colon /\ Plain(content, i)
                     /\ i = Len(content) \/ content[i + 1] = Space}
    IN IF colons = {} THEN 0 ELSE Min(colons)

\* rejectUnsafeYaml looks at the text, inside of quotes as well.
UnsafeYaml(content) ==
    LET unsafe(text, first) ==
          \E i \in 1 .. Len(text) - 1 :
            /\ text[i] = Anchor /\ text[i + 1] # Space
            /\ IF i = 1 THEN first ELSE text[i - 1] = Space
    IN \/ unsafe(content, TRUE)
       \/ \E i \in DOMAIN content : IsQuoted(content[i]) /\ unsafe(content[i].text, FALSE)

\* What reading a block returns.
ReadAs(value, nodes) == [ok |-> TRUE, value |-> value, nodes |-> nodes]
Refused == [ok |-> FALSE, value |-> UndefinedValue, nodes |-> 0]

\* parseYamlKey: <<>> when it is refused, <<the key>> when not.
ParseYamlKey(raw) ==
    LET key == Trimmed(raw)
    IN IF key = <<>> \/ UnsafeYaml(key) THEN <<>>
       ELSE IF IsQuoted(Head(key)) THEN IF Len(key) = 1 THEN <<key[1].text>> ELSE <<>>
       ELSE IF Head(key) = Single
       THEN IF Last(key) = Single THEN <<SubSeq(key, 2, Len(key) - 1)>> ELSE <<>>
       ELSE IF ToSet(key) \cap {OpenList, CloseList, OpenMap, CloseMap, Hash} # {} THEN <<>>
       ELSE <<key>>

\* parseYamlScalar.  Of inline collections only the empty ones are told.
ParseYamlScalar(raw) ==
    LET text == Trimmed(StripYamlComment(raw))
    IN IF UnsafeYaml(text) THEN Refused
       ELSE IF text = <<>> THEN ReadAs(Str(<<>>), 1)
       ELSE IF IsQuoted(Head(text))
       THEN IF Len(text) = 1 THEN ReadAs(Str(text[1].text), 1) ELSE Refused
       ELSE IF Head(text) = Single
       THEN IF Last(text) = Single THEN ReadAs(Str(SubSeq(text, 2, Len(text) - 1)), 1) ELSE Refused
       ELSE IF text = <<OpenList, CloseList>> THEN ReadAs(Arr(<<>>), 1)
       ELSE IF text = <<OpenMap, CloseMap>> THEN ReadAs(Obj(<<>>), 1)
       ELSE IF text = <<Nil>> THEN ReadAs(NullValue, 1)
       ELSE IF text = <<Digits>> THEN ReadAs(Num(12), 1)
       ELSE ReadAs(Str(text), 1)

\* The pieces of a sequence that begin at the given places, 1 among them.
Pieces(lines, starts) ==
    LET at == SetToSortSeq(starts, <)
    IN [k \in DOMAIN at |->
          SubSeq(lines, at[k], IF k = Len(at) THEN Len(lines) ELSE at[k + 1] - 1)]

\* An entry is a line and the deeper ones that follow it.
Entries(lines) == Pieces(lines, {i \in DOMAIN lines : lines[i].indent = lines[1].indent})

\* Blocks that follow each other, each less deep than the one before.
Blocks(lines) ==
    IF lines = <<>> THEN <<>>
    ELSE Pieces(lines, {i \in DOMAIN lines : \A j \in 1 .. i - 1 : lines[j].indent > lines[i].indent})

IsItem(line) == Head(line.content) = Dash /\ (Len(line.content) = 1 \/ line.content[2] = Space)

Join(key, read) == [read EXCEPT !.value = Obj([k \in {key} |-> read.value])]

\* The members of another mapping are added, unless a key is there already.
Merged(read, more) ==
    IF ~read.ok \/ ~more.ok \/ ~IsObject(more.value)
         \/ DOMAIN read.value.of \cap DOMAIN more.value.of # {}
    THEN Refused
    ELSE LET left == read.value.of
             right == more.value.of
         IN ReadAs(Obj([k \in DOMAIN left \cup DOMAIN right |->
                          IF k \in DOMAIN left THEN left[k] ELSE right[k]]),
                   read.nodes + more.nodes)

RECURSIVE ParseYamlBlock(_, _)

\* What follows a dash or a key with nothing else on its line.
ParseBelow(body, depth) ==
    IF body = <<>> THEN ReadAs(NullValue, 1)
    ELSE IF Len(Blocks(body)) > 1 THEN Refused
    ELSE ParseYamlBlock(body, depth + 1)

\* key: value, or key: and what is below it.
ParseMember(content, body, depth) ==
    LET colon == FindYamlColon(content)
        key == ParseYamlKey(SubSeq(content, 1, colon - 1))
        raw == Trimmed(SubSeq(content, colon + 1, Len(content)))
    IN IF colon = 0 \/ key = <<>> THEN Refused
       ELSE IF raw = <<>> THEN Join(key[1], ParseBelow(body, depth))
       ELSE IF body # <<>> THEN Refused
       ELSE Join(key[1], ParseYamlScalar(raw))

\* An item may begin a mapping on its line that the lines below continue.
ParseItem(entry, depth) ==
    LET rest == Trimmed(SubSeq(entry[1].content, 2, Len(entry[1].content)))
        body == Tail(entry)
        colon == FindYamlColon(rest)
        own == IF colon = Len(rest) /\ body # <<>> THEN Head(Blocks(body)) ELSE <<>>
        others == IF own = <<>> THEN Blocks(body) ELSE Tail(Blocks(body))
        member == ParseMember(rest, own, depth)
    IN IF rest = <<>> THEN ParseBelow(body, depth)
       ELSE IF colon = 0
       THEN IF body = <<>> THEN ParseYamlScalar(rest) ELSE Refused
       ELSE FoldLeft(LAMBDA read, block : Merged(read, ParseYamlBlock(block, depth + 1)),
                     [member EXCEPT !.nodes = @ + 1], others)

\* parseYamlBlock
ParseYamlBlock(lines, depth) ==
    LET entries == Entries(lines)
        items == [e \in DOMAIN entries |-> ParseItem(entries[e], depth)]
    IN IF depth > MaxYamlDepth THEN Refused
       ELSE IF \A e \in DOMAIN entries : IsItem(entries[e][1])
       THEN IF \A e \in DOMAIN items : items[e].ok
            THEN ReadAs(Arr([e \in DOMAIN items |-> items[e].value]),
                        FoldLeft(LAMBDA n, item : n + item.nodes, 1, items))
            ELSE Refused
       ELSE IF \E e \in DOMAIN entries : IsItem(entries[e][1]) THEN Refused
       ELSE FoldLeft(LAMBDA read, entry :
                       Merged(read, ParseMember(entry[1].content, Tail(entry), depth)),
                     ReadAs(Obj(<<>>), 1), entries)

\* yamlToJson
YamlToJson(lines) ==
    LET stripped == [i \in DOMAIN lines |->
                       [lines[i] EXCEPT !.content = StripYamlComment(@)]]
    IN IF Len(Blocks(stripped)) > 1 THEN Refused ELSE ParseYamlBlock(stripped, 0)

\* YamlJsonConverterTool: JSON to YAML, and what it makes of that YAML again.
SubmitYaml ==
    \E value \in YamlValues :
      work' = [tool |-> "yaml", value |-> value, deep |-> Nesting(value) > MaxYamlDepth,
               back |-> YamlToJson(EmitYaml(value, 0))]

-----------------------------------------------------------------------------
\* A value and all that is in it.
RECURSIVE ValuesIn(_)
ValuesIn(value) == {value} \cup UNION {ValuesIn(child) : child \in ToSet(Children(value))}

\* Values that are written in a form the reader does not have.
Unreadable(value) ==
    LET unsafe(text) == \E i \in 2 .. Len(text) - 1 :
                          text[i - 1] = Space /\ text[i] = Anchor /\ text[i + 1] # Space
        complex(key) == ~NeedsQuotes(key) /\
                        ToSet(key) \cap {Single, OpenList, CloseList, OpenMap, CloseMap, Hash} # {}
    IN \/ IsScalar(value)
       \/ \E v \in ValuesIn(value) :
            \/ ~IsScalar(v) /\ Children(v) = <<>>
            \/ v.kind = "string" /\ unsafe(v.text)
            \/ IsObject(v) /\ \E key \in DOMAIN v.of : unsafe(key) \/ complex(key)

\* An item, or all there is, that is written like a key without a value.
LikeKey(value) ==
    \E part \in ValuesIn(value) :
      LET texts == IF IsArray(part) THEN ToSet(part.items)
                   ELSE IF part = value THEN {part} ELSE {}
      IN \E v \in texts :
           v.kind = "string" /\ ~NeedsQuotes(v.text) /\ Last(v.text) = Colon

(***************************************************************************)
(* YAML that the converter wrote it reads back as the same value, and as   *)
(* many nodes, whatever the strings look like: null, a number, a comment,  *)
(* a key, an item or an anchor.  It refuses some of what it wrote: empty   *)
(* collections below the top, scalars at the top, anchors after a space,   *)
(* and keys with brackets, # or quotes inside.  Only an item of a list     *)
(* (or a whole document) that ends in a colon, and so is not quoted, comes *)
(* back as something else.  emitYaml, yamlString, parseYamlBlock.                            *)
(***************************************************************************)
YamlRoundTrip ==
    work.tool = "yaml" /\ ~LikeKey(work.value) =>
      /\ work.back.ok => /\ work.back.value = work.value
                         /\ work.back.nodes = CountNodes(work.value)
      /\ ~Unreadable(work.value) => (work.back.ok <=> ~work.deep)
=============================================================================
