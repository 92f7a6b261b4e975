-------------------------------- MODULE MCTools --------------------------------
(***************************************************************************)
(* What the data tools of Workbench are given when TLC checks them: small  *)
(* inputs, chosen so that each construct of a format meets each other one  *)
(* next to it and one level below it.                                      *)
(***************************************************************************)
EXTENDS Workbench, SchemaTool, YamlTool, XmlTool, TomlTool, JsonPathTool, CodeTool, UrlTool
LOCAL INSTANCE TLC
LOCAL INSTANCE Sequences
LOCAL INSTANCE FiniteSets
LOCAL INSTANCE SequencesExt

UpTo(n, S) == UNION {[1 .. k -> S] : k \in 0 .. n}

-----------------------------------------------------------------------------
\* CSV: every pair of characters in a cell, every two cells of one next to or above
\* each other, tables of three rows, and tables at and beyond each limit.
MCCsvLimits ==
    [nodes |-> 11, rows |-> 11, columns |-> 4, cells |-> 21, chars |-> 40, issues |-> 2,
     scored |-> 20, sampled |-> 2]

CsvCharacters == {Quote, Comma, ";", Tab, Cr, Lf, Bom, Equal, Apostrophe, " ", "a"}

ShortFields == {<<>>, <<"a">>, <<Comma>>, <<";">>, <<Quote>>, <<Lf>>, <<Equal>>}

JsonRow(fields) == Arr([c \in DOMAIN fields |-> Str(fields[c])])

CsvRecord(names) == {Obj(f) : f \in [names -> {Str(<<"a">>), Str(<<Equal>>), NullValue}]}

CsvNames == <<"a", "b", "c", "d">>

MCJsonTables ==
    {<<JsonRow(<<a>>)>> : a \in UpTo(2, CsvCharacters)}
    \cup {<<JsonRow(<<a, b>>)>> : a, b \in UpTo(1, CsvCharacters)}
    \cup {<<JsonRow(<<a>>), JsonRow(<<b>>)>> : a, b \in UpTo(1, CsvCharacters)}
    \cup {<<JsonRow(<<a, <<"a">>>>), JsonRow(<<b, c>>)>> : a, b, c \in ShortFields}
    \cup {<<JsonRow(<<a>>), JsonRow(<<b>>), JsonRow(<<c>>)>> : a, b, c \in ShortFields}
    \cup {<<x, y>> : x \in CsvRecord({<<"a">>}),
                     y \in CsvRecord({<<>>}) \cup CsvRecord({<<Bom>>, <<Equal>>})
                           \cup CsvRecord({<<Equal>>, <<Apostrophe, Equal>>})}
    \cup {<<>>, <<Arr(<<>>)>>, <<Obj(<<>>), Obj(<<>>)>>,
          <<JsonRow(<<<<"a">>>>), JsonRow(<<>>)>>, <<JsonRow(<<>>), Obj(<<>>)>>,
          <<Arr(<<Arr(<<>>)>>)>>, <<Str(<<"a">>)>>}
    \cup {<<JsonRow([c \in 1 .. n |-> <<"a">>])>> : n \in 3 .. 5}
    \cup {[i \in 1 .. n |-> JsonRow(<<<<"a">>>>)] : n \in 4 .. 6}
    \cup {<<JsonRow(<<[i \in 1 .. n |-> character]>>)>> :
            n \in {18, 19, 21, 40}, character \in {Quote, "a"}}
    \cup {[i \in 1 .. n |-> Obj(<<CsvNames[(i % 4) + 1]>> :> Str(<<"a">>))] : n \in 3 .. 5}

CsvPieces ==
    {<<Quote, "a", Quote>>, <<Quote, Lf, Quote>>, <<Quote, Comma, ";", Quote>>, <<Quote>>,
     <<"a">>, <<Comma>>, <<";">>, <<Tab>>, <<" ">>, <<Lf>>, <<Cr, Lf>>}

MCCsvTexts ==
    UpTo(2, CsvCharacters) \cup {FlattenSeq(pieces) : pieces \in UpTo(3, CsvPieces)}
    \cup {<<"a", delimiter, "a", Lf>> \o FlattenSeq(pieces) :
            delimiter \in {Comma, Tab}, pieces \in UpTo(2, CsvPieces)}

-----------------------------------------------------------------------------
\* JSON Schema: keywords alone, in pairs under a combinator, and referred to.
Keyword(name, value) == Obj(name :> value)

SimpleSchemas ==
    {Bool(TRUE), Bool(FALSE),
     Keyword("type", Str("integer")),
     Keyword("type", Arr(<<Str("array"), Str("null")>>)),
     Keyword("minimum", Num(2)), Keyword("exclusiveMaximum", Num(2)),
     Keyword("multipleOf", Num(2)),
     Keyword("enum", Arr(<<Num(1), NullValue>>)), Keyword("const", Obj(<<>>)),
     Keyword("minItems", Num(4)), Keyword("maxProperties", Num(2)),
     Keyword("uniqueItems", Bool(TRUE)),
     Keyword("required", Arr(<<Str("a"), Str("b")>>)),
     Obj("type" :> Str("object") @@ "required" :> Arr(<<Str("a")>>)),
     Keyword("$ref", Pointer(<<>>)), Keyword("$ref", NoPointer)}

Definitions == [d : SimpleSchemas]

MCSchemas ==
    SimpleSchemas
    \cup {Keyword(c, Arr(<<s, t>>)) : c \in Combinators, s, t \in SimpleSchemas}
    \cup {Keyword("not", s) : s \in SimpleSchemas}
    \cup {Keyword("items", s) : s \in SimpleSchemas}
    \cup {Obj("properties" :> Obj("a" :> s) @@ "additionalProperties" :> t) :
            s, t \in SimpleSchemas}
    \cup {Obj("$defs" :> Obj(d) @@ "$ref" :> Pointer(<<"$defs", "d">>)
              @@ "items" :> Keyword("minimum", Num(2))) : d \in Definitions}
    \cup {Obj("items" :> Keyword("$ref", Pointer(<<>>)) @@ "type" :> Str("array")),
          Obj("enum" :> Arr(<<>>) @@ "$ref" :> Pointer(<<"enum", 3>>)),
          Keyword("minItems", Num(-2)), Keyword("not", NullValue),
          Keyword("type", Str("date"))}

MCInstances ==
    {NullValue, Num(1), Num(-4), Arr(<<>>), Arr(<<Num(2), Num(2)>>),
     Arr(<<Num(1), Arr(<<>>)>>), Obj(<<>>), Obj("a" :> Num(2)),
     Obj("a" :> Num(1) @@ "b" :> Arr(<<>>))}

-----------------------------------------------------------------------------
\* YAML: every text of two tokens, as a scalar, an item, a key and a value.
Word == <<Token("w")>>

YamlTexts ==
    UpTo(2, {Token("w"), Digits, Nil, Colon, Hash, Dash, Anchor, Single, Space,
             OpenList, CloseList})
    \cup [1 .. 3 -> {Token("w"), Colon, Hash, Space}]

MCYamlValues ==
    UNION {{Str(t), Arr(<<Str(t)>>), Obj(t :> Num(12)), Obj(Word :> Str(t)),
            Obj(t :> Arr(<<NullValue, Str(t)>>)), Arr(<<Arr(<<Str(t)>>), Num(12)>>),
            Arr(<<Obj(t :> Str(t) @@ Word \o Word :> Obj(Word :> NullValue)), Num(12)>>)}
           : t \in YamlTexts}
    \cup {Arr(<<>>), Obj(<<>>), Arr(<<Arr(<<>>)>>), Obj(Word :> Obj(<<>>)),
          Arr(<<Arr(<<Arr(<<Arr(<<NullValue>>)>>)>>)>>)}

-----------------------------------------------------------------------------
\* XML: every content of up to three parts, well formed and not.
Attribute(value) == <<[name |-> "x", value |-> value]>>

XmlParts ==
    {OpenTag("b", <<>>), CloseTag("b"), SelfTag("b", Attribute("quote")), BlankText,
     XmlText("solid"), Comment, Cdata, Instruction}

XmlFaults ==
    {Mangled, Declaration, CloseTag("a"), OpenTag("a", Attribute("fault")),
     OpenTag("a", Attribute("y") \o Attribute("y"))}

MCXmlTexts ==
    {before \o <<OpenTag("a", Attribute("quote"))>> \o content \o <<CloseTag("a")>> \o after :
       before \in {<<>>, <<Declaration>>, <<BlankText, Comment>>},
       content \in UpTo(2, XmlParts),
       after \in {<<>>, <<BlankText>>, <<XmlText("solid")>>}}
    \cup {<<OpenTag("a", <<>>)>> \o content \o <<CloseTag("a")>> : content \in [1 .. 3 -> XmlParts]}
    \cup UpTo(2, XmlParts \cup XmlFaults)
    \cup {<<OpenTag("a", <<>>), OpenTag("b", <<>>)>> \o content \o end :
            content \in UpTo(2, XmlParts),
            end \in {<<CloseTag("b"), CloseTag("a")>>, <<CloseTag("a"), CloseTag("b")>>}}

-----------------------------------------------------------------------------
\* TOML: tables, lists of tables and dotted keys that meet at one path.
TomlKeys == {<<>>, <<"a">>, <<"b">>, <<"a", "b">>}

TomlScalars ==
    {PlainText, TripleQuote, Whole, Negative, Fraction, BelowZero, Unsafe, NullValue,
     Bool(TRUE)}

TomlLists ==
    {Arr(<<>>), Arr(<<NullValue>>), Arr(<<Arr(<<>>)>>), Arr(<<Whole, Obj(<<>>)>>),
     Arr(<<BelowZero>>), Arr(<<Whole, PlainText>>), Arr(<<Whole, Whole>>)}

SmallObjects(keys, values) ==
    {Obj(f) : f \in UNION {[K -> values] : K \in {K \in SUBSET keys : Cardinality(K) <= 2}}}

TomlTables ==
    SmallObjects({<<"a">>, <<"b">>, <<>>},
                 {Whole, Arr(<<>>), Arr(<<Whole>>), Obj(<<>>), Arr(<<Obj(<<>>)>>)})

TomlItems ==
    {Whole, Arr(<<>>), Arr(<<Whole, PlainText>>), Obj(<<>>), Obj(<<"b">> :> Whole),
     Obj(<<"b">> :> Obj(<<>>)), Obj(<<"b">> :> Arr(<<Obj(<<>>)>>)),
     Arr(<<Obj(<<"a">> :> Whole)>>)}

MCTomlValues ==
    TomlScalars
    \cup {Obj(k :> v) : k \in TomlKeys, v \in TomlScalars \cup TomlLists \cup TomlTables}
    \cup {Obj(k :> Arr(<<t, Obj(<<"a">> :> Fraction)>>)) : k \in TomlKeys, t \in TomlTables}
    \cup {Obj(k :> Obj(<<"a">> :> t)) : k \in TomlKeys, t \in TomlTables}
    \cup SmallObjects(TomlKeys, TomlItems)
    \cup {Obj(<<"a">> :> Obj(<<"b">> :> Obj(<<"a">> :> Obj(<<"b">> :> Obj(<<>>)))))}
    \cup {Obj(f) : f \in [{<<"a">>, <<"b">>, <<"a", "b">>} ->
                            {Whole, Obj(<<"b">> :> Obj(<<>>)), Arr(<<Obj(<<"a">> :> Whole)>>)}]}

-----------------------------------------------------------------------------
\* JSONPath: every selector alone, and each one after each other.
Inside ==
    {Num(1), Str(1), Arr(<<>>), Arr(<<Num(2), Num(1), Num(3)>>),
     Obj("a" :> Num(2) @@ "b" :> Str(2)), Obj("a" :> Arr(<<Num(1), NullValue>>))}

MCDocuments ==
    Inside
    \cup {Obj("a" :> x @@ "b" :> Arr(<<Num(1), Obj("a" :> Num(3))>>)) : x \in Inside}
    \cup {Arr(<<x, Num(1), y>>) : x \in Inside, y \in {Num(1), Obj("a" :> Num(2) @@ "b" :> Str(2))}}

SliceBounds == {<<>>} \cup {<<n>> : n \in -4 .. 4}

SomeSelectors ==
    {Property("a"), Index(-1), Wildcard, RecursiveProperty("a"), RecursiveWildcard,
     Union(<<Index(0), Index(-1)>>), Union(<<Property("b"), Property("a"), Index(-2)>>),
     SliceOf(<<1>>, <<>>, 1), SliceOf(<<>>, <<>>, -2),
     FilterBy(<<>>, "==", Num(1)), FilterBy(<<>>, "!=", Num(1)), FilterBy(<<>>, "<", Num(2)),
     FilterBy(<<Member("a")>>, "exists", NullValue), FilterBy(<<Member("a")>>, ">", Num(2)),
     FilterBy(<<Member("a"), ElementAt(-2)>>, "exists", NullValue),
     FilterBy(<<ElementAt(-1)>>, "<=", Num(2)), FilterBy(<<Member("b")>>, ">=", Str(2))}

MCJsonPaths ==
    {<<>>}
    \cup {<<s>> : s \in SomeSelectors}
    \cup {<<SliceOf(start, end, step)>> :
            start \in SliceBounds, end \in SliceBounds, step \in {-2, -1, 1, 2}}
    \cup {<<s, t>> : s \in SomeSelectors, t \in SomeSelectors}

-----------------------------------------------------------------------------
\* SQL: every three tokens, and every two inside a subquery and a common table.
SqlWord(word) == CodeToken("word", word)
Mark(mark) == CodeToken("punctuation", mark)

SqlTokens ==
    {SqlWord(v) : v \in {"SELECT", "WITH", "GROUP", "BY", "AS", "a"}}
    \cup {Mark(v) : v \in {"(", ")", ",", ";", ".", ".."}}
    \cup {CodeToken("operator", "-"), CodeToken("number", "1"), SqlString,
          OnNewLine(SqlString), LineComment, CodeToken("identifier", "q")}

MCSqlTexts ==
    UpTo(3, SqlTokens)
    \cup {<<SqlWord("SELECT"), SqlWord("a"), SqlWord("FROM"), Mark("(")>> \o inside
            \o <<Mark(")"), SqlWord("ON"), SqlWord("a")>> :
            inside \in UpTo(2, SqlTokens \cup {SqlWord("WHEN"), CodeToken("comment", "/*")})}
    \cup {<<SqlWord("WITH"), SqlWord("a"), SqlWord("AS"), Mark("("), Mark("("), SqlWord("SELECT"),
            SqlWord("a"), Mark(","), inside, Mark(")"), Mark(")"), Mark(","), after>> :
            inside \in SqlTokens, after \in SqlTokens}

GraphqlTokens ==
    {CodeToken("word", "a"), CodeToken("number", "1"), CodeToken("string", "s"),
     CodeToken("comment", "#"), CodeToken("operator", "...")}
    \cup {Mark(v) : v \in {"{", "}", "(", ")", "[", "]", ":", "!", "$", "@", "="}}

MCGraphqlTexts ==
    UpTo(3, GraphqlTokens)
    \cup {<<CodeToken("word", "query"), Mark("{"), CodeToken("word", "a")>> \o inside
            \o <<Mark("}"), CodeToken("word", "fragment")>> : inside \in UpTo(2, GraphqlTokens)}

-----------------------------------------------------------------------------
\* URLs: paths of up to three segments, and every path of three characters.
Dot == <<".">>
EncodedDot == <<"%", "2", "e">>
StrayDot == <<"%", "%", "3", "2", "e">>   \* %2e, once the 2 has been decoded

UrlPieces ==
    {<<>>, Dot, Dot \o Dot, EncodedDot, Dot \o EncodedDot, StrayDot, <<"%", "2", "a">>,
     <<"%", "3", "2">>, <<"a">>, <<"a", "%">>}

UrlPaths ==
    {FlattenSeq([i \in DOMAIN pieces |-> <<"/">> \o pieces[i]]) : pieces \in UpTo(3, UrlPieces)}
    \cup {<<"/">> \o text : text \in UpTo(3, {"/", ".", "%", "2", "e"})}

\* A search or a hash.
Marked(mark) == {<<>>} \cup {<<mark>> \o piece : piece \in UrlPieces}

MCUrlTexts ==
    {UrlText("http", PlainHost, "", path, <<>>, <<>>, FALSE, FALSE) : path \in UrlPaths}
    \cup {UrlText(scheme, host, port, <<"/", "a">>, <<>>, <<>>, blank, capital) :
            scheme \in {"http", "https"}, host \in Hosts, port \in {"", "80", "443", "8080"},
            blank \in BOOLEAN, capital \in BOOLEAN}
    \cup {UrlText("https", PlainHost, "", path, search, hash, FALSE, FALSE) :
            path \in {<<>>, <<"/", "a", "/">>}, search \in Marked("?"), hash \in Marked("#")}

QueryPairs ==
    {NoPair, QueryPair(NoName, "", TRUE), QueryPair(NoName, "v", TRUE),
     QueryPair(Name("utm_", "a"), "", FALSE), QueryPair(Name("", "q"), "", TRUE)}
    \cup {QueryPair(name, "v", TRUE) :
            name \in {Name("utm_", "a"), Name("", "gclid"), Name("", "page"), Name("", "sid"),
                      [Name("utm_", "a") EXCEPT !.encoded = TRUE],
                      [Name("utm_", "a") EXCEPT !.capital = TRUE],
                      [Name("", "page") EXCEPT !.capital = TRUE],
                      [Name("", "page") EXCEPT !.encoded = TRUE]}}

\* Some queries have one pair more than are read.
MCQueryTexts == UpTo(3, QueryPairs) \cup [1 .. 4 -> {NoPair, QueryPair(Name("utm_", "a"), "v", TRUE)}]

-----------------------------------------------------------------------------
\* Cron: a week of seven days as it is, the other fields cut short.
Field(minimum, maximum, names) == [minimum |-> minimum, maximum |-> maximum, names |-> names]

MCCronFields ==
    [minute |-> Field(0, 2, <<>>), hour |-> Field(0, 1, <<>>), dayOfMonth |-> Field(1, 4, <<>>),
     month |-> Field(1, 2, "FEB" :> 2), dayOfWeek |-> Field(0, 7, "SUN" :> 0 @@ "TUE" :> 2)]

MCCalendar ==
    [n \in 1 .. 48 |->
       [minute |-> n % 3, hour |-> (n \div 3) % 2, dayOfMonth |-> 1 + ((n \div 6) % 4),
        month |-> 1 + ((n \div 24) % 2), dayOfWeek |-> (4 + (n \div 6)) % 7]]

CronValues == {Value(v) : v \in {0, 1, 2, 5, 7, 8}} \cup {Named("SUN"), Named("TUE")}
CronSteps  == {Nothing} \cup {<<n>> : n \in {0, 2, 3, 7, 8}}

CronParts ==
    {CronPart(Star, Nothing, step) : step \in CronSteps}
    \cup {CronPart(from, to, step) :
            from \in CronValues, to \in CronValues \cup {Nothing}, step \in CronSteps}

SomeCronParts ==
    {CronPart(Star, Nothing, <<2>>), CronPart(Value(7), Nothing, Nothing),
     CronPart(Value(2), Nothing, Nothing), CronPart(Value(1), Value(7), <<3>>),
     CronPart(Named("TUE"), Value(5), Nothing)}

MCCronSources == {<<part>> : part \in CronParts} \cup UpTo(3, SomeCronParts)

Every(step) == <<CronPart(Star, Nothing, step)>>
Only(v) == <<CronPart(Value(v), Nothing, Nothing)>>
Through(v, step) == <<CronPart(Value(1), Value(v), step)>>

MCCronExpressions ==
    [minute : {Every(Nothing), Only(1)}, hour : {Every(Nothing), Only(0)},
     dayOfMonth : {Every(Nothing), Only(3), Through(4, <<2>>), Through(4, Nothing)},
     month : {Every(Nothing), Only(2)},
     dayOfWeek : {Every(Nothing), Every(<<3>>), Only(7), Through(7, Nothing)}]
=============================================================================
