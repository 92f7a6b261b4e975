-------------------------------- MODULE UrlTool ---------------------------------
(***************************************************************************)
(* The URL normaliser and the query parameter analyser of src/apps/web/src *)
(* /features/tools/url-management-local.ts.  A URL is its parts; path,     *)
(* search and hash are sequences of characters, so that what is decoded    *)
(* can be read anew.  The browser's URL parser is part of the model.       *)
(***************************************************************************)
EXTENDS ToolWork, Integers
LOCAL INSTANCE Sequences
LOCAL INSTANCE FiniteSets
LOCAL INSTANCE SequencesExt
LOCAL INSTANCE TLC

CONSTANTS
    UrlTexts,    \* URLs as they are typed
    QueryTexts,  \* queries: sequences of pairs
    MaxPairs,    \* pairs of a query that is not refused
    ManyPairs    \* pairs of a query that are warned of if there are more

ASSUME UrlAssumption == {MaxPairs, ManyPairs} \subseteq Nat

-----------------------------------------------------------------------------
(***************************************************************************)
(* URLs.  Hosts and their lower-case ASCII forms are model values of the   *)
(* cases told apart; blank says that there are blanks around the URL,      *)
(* capital that its scheme has capital letters.                            *)
(***************************************************************************)
PlainHost   == "host"
CapitalHost == "Host"
ForeignHost == "foreign host"
Hosts       == {PlainHost, CapitalHost, ForeignHost}

UrlText(scheme, host, port, path, search, hash, blank, capital) ==
    [scheme |-> scheme, host |-> host, port |-> port, path |-> path, search |-> search,
     hash |-> hash, blank |-> blank, capital |-> capital]

DefaultPort(scheme) == IF scheme = "http" THEN "80" ELSE "443"

HexDigits == {"2", "3", "a", "A", "e", "E"}
UpperCase(digit) == CASE digit = "a" -> "A" [] digit = "e" -> "E" [] OTHER -> digit

\* Does an octet stand at a place of a text, like %2e?
OctetAt(text, i) ==
    /\ i + 2 <= Len(text) /\ text[i] = "%"
    /\ text[i + 1] \in HexDigits /\ text[i + 2] \in HexDigits

\* The octets of characters that need no encoding, with these digits.
Unreserved == (<<"2", "E">> :> ".") @@ (<<"3", "2">> :> "2") @@ (<<"3", "3">> :> "3")

\* Octets are put in capitals.
OctetText(text, i) == <<"%", UpperCase(text[i + 1]), UpperCase(text[i + 2])>>

\* What stands at a place of a text: an unreserved character, another octet, or what it is.
ReadAt(text, i) ==
    IF ~OctetAt(text, i) THEN <<text[i]>>
    ELSE IF Tail(OctetText(text, i)) \in DOMAIN Unreserved
    THEN <<Unreserved[Tail(OctetText(text, i))]>>
    ELSE OctetText(text, i)

\* What is read at the places of a text, in their order; an octet is read as one.
ReadAll(text, Read(_, _)) ==
    FoldLeftDomain(
      LAMBDA s, i : IF s.skip > 0 THEN [s EXCEPT !.skip = @ - 1]
                    ELSE [read |-> Append(s.read, Read(text, i)),
                          skip |-> IF OctetAt(text, i) THEN 2 ELSE 0],
      [read |-> <<>>, skip |-> 0], text).read

\* What a text means: an unreserved character is the same encoded or not.
UrlMeaning[text \in Seq(STRING)] == ReadAll(text, ReadAt)

\* Mutant: reserved characters are decoded too.
AnyDecodedAt(text, i) ==
    IF OctetAt(text, i) /\ Tail(OctetText(text, i)) = <<"2", "3">> THEN <<"#">>
    ELSE IF OctetAt(text, i) /\ Tail(OctetText(text, i)) = <<"2", "A">> THEN <<"*">>
    ELSE ReadAt(text, i)

DecodedAt(text, i) == ReadAt(text, i)

\* normalizePercentEncoding
NormalizePercentEncoding[text \in Seq(STRING)] ==
    FlattenSeq(ReadAll(text, DecodedAt))

\* The segments of a path, each of which follows a slash.
PathSegments(path) ==
    FoldLeft(LAMBDA segments, c :
               IF c = "/" THEN Append(segments, <<>>)
               ELSE Append(Front(segments), Append(Last(segments), c)),
             <<>>, path)

DotSegments == {<<".">>, <<".", ".">>}

\* The URL parser takes an encoded point for a point here.
AsDots(segment) ==
    LET read == FlattenSeq(UrlMeaning[segment])
    IN IF read \in DotSegments THEN read ELSE <<>>

\* The segments left of a path; dots in its last one leave an empty one.
ResolveSegments(segments) ==
    LET step(done, i) ==
          LET dots    == AsDots(segments[i])
              parent  == IF dots = <<".">> \/ done = <<>> THEN done ELSE Front(done)
              closing == IF i = Len(segments) THEN <<<<>>>> ELSE <<>>
          IN IF dots = <<>> THEN Append(done, segments[i]) ELSE parent \o closing
    IN FoldLeftDomain(step, <<>>, segments)

ResolveDots[path \in Seq(STRING)] ==
    IF path = <<>> THEN <<"/">>
    ELSE FoldLeft(LAMBDA text, segment : text \o <<"/">> \o segment,
                  <<>>, ResolveSegments(PathSegments(path)))

\* new URL(): a lone ? or # is as good as none.
ParseHttpUrl(url) ==
    [scheme |-> url.scheme,
     host |-> CASE url.host = CapitalHost -> PlainHost
                [] url.host = ForeignHost -> "ascii host"
                [] OTHER -> url.host,
     port |-> IF url.port = DefaultPort(url.scheme) THEN "" ELSE url.port,
     path |-> ResolveDots[url.path],
     search |-> IF url.search = <<"?">> THEN <<>> ELSE url.search,
     hash |-> IF url.hash = <<"#">> THEN <<>> ELSE url.hash]

\* normalized_url, of what the parser read
NormalizedUrl(read) ==
    [read EXCEPT !.path = NormalizePercentEncoding[@],
                 !.search = NormalizePercentEncoding[@],
                 !.hash = NormalizePercentEncoding[@]]

NormalizingChanges ==
    {"trimmed-whitespace", "scheme-case", "hostname-case", "default-port", "idn-ascii",
     "dot-segments", "empty-path", "percent-encoding"}

ReviewChanges == {"duplicate-path-slashes", "trailing-slash"}

\* The changes that analyzeUrlNormalization reports: what was typed, read and made.
ReportedChanges(url, read, made) ==
    LET reported(id) ==
          CASE id = "trimmed-whitespace" -> url.blank
            [] id = "scheme-case" -> url.capital
            [] id = "hostname-case" -> url.host = CapitalHost
            [] id = "default-port" -> url.port = DefaultPort(url.scheme)
            [] id = "idn-ascii" -> url.host = ForeignHost
            [] id = "dot-segments" -> ToSet(PathSegments(url.path)) \cap DotSegments # {}
            [] id = "empty-path" -> url.path = <<>>
            [] id = "percent-encoding" ->
                 <<made.path, made.search, made.hash>> # <<read.path, read.search, read.hash>>
            [] id = "duplicate-path-slashes" ->
                 \E i \in 1 .. Len(made.path) - 1 :
                   made.path[i] = "/" /\ made.path[i + 1] = "/"
            [] id = "trailing-slash" -> made.path # <<"/">> /\ Last(made.path) = "/"
    IN {id \in NormalizingChanges \cup ReviewChanges : reported(id)}

AnalyzeUrlNormalization(url) ==
    LET read    == ParseHttpUrl(url)
        made    == NormalizedUrl(read)
        changes == ReportedChanges(url, read, made)
    IN [url |-> made, changes |-> changes, warns |-> changes \cap ReviewChanges # {}]

-----------------------------------------------------------------------------
(***************************************************************************)
(* Queries.  A pair has a name, a value and perhaps an equals sign between *)
(* them.  A name is a prefix that a category is known by, the rest, and    *)
(* whether it is written in capitals or encoded.                           *)
(***************************************************************************)
Name(prefix, rest) == [prefix |-> prefix, rest |-> rest, capital |-> FALSE, encoded |-> FALSE]
NoName   == Name("", "")
QueryPair(name, value, equals) == [name |-> name, value |-> value, equals |-> equals]
NoPair   == QueryPair(NoName, "", FALSE)

\* decodeQueryComponent
DecodedName(pair) == [pair.name EXCEPT !.encoded = FALSE]
\* toLowerCase
Folded(name) == [name EXCEPT !.capital = FALSE]

\* categoryFor
CategoryFor(name) ==
    CASE name.prefix = "utm_" \/ Folded(name) \in {Name("", "gclid"), Name("", "_ga")} -> "tracking"
      [] Folded(name) \in {Name("", "page"), Name("", "offset")} -> "pagination"
      [] Folded(name) \in {Name("", "sort"), Name("", "order")} -> "sorting"
      [] Folded(name) \in {Name("", "q"), Name("", "s")} -> "search"
      [] Folded(name) \in {Name("", "session"), Name("", "sid")} -> "session"
      [] name.prefix \in {"filter", "facet"} \/ Folded(name) = Name("", "brand") -> "filtering"
      [] OTHER -> "other"

Categories ==
    {"tracking", "pagination", "sorting", "search", "session", "filtering", "other"}

SensitiveNames ==
    {Name("", "token"), Name("", "password"), Name("", "session"), Name("", "sid")}

\* The pairs that are read of a query; a lone ? has none.
RawPairs(query) == IF query = <<NoPair>> THEN <<>> ELSE query

NoCandidate == <<>>

AnalyzeQueryParameters(query) ==
    LET pairs == RawPairs(query)
        named(i) == DecodedName(pairs[i])
        twice(i) == \E j \in DOMAIN pairs \ {i} : named(j) = named(i)
        parameters == [i \in DOMAIN pairs |->
          [name |-> named(i), value |-> pairs[i].value, category |-> CategoryFor(named(i)),
           duplicate |-> twice(i), sensitive |-> Folded(named(i)) \in SensitiveNames]]
        these(Test(_)) == Cardinality({i \in DOMAIN parameters : Test(parameters[i])})
        names == {named(i) : i \in DOMAIN pairs}
        variants == {n \in names : \E m \in names \ {n} : Folded(m) = Folded(n)}
        counts == [pairs |-> Len(pairs), names |-> Cardinality(names),
                   duplicates |-> Len(pairs) - Cardinality(names),
                   blankNames |-> these(LAMBDA p : p.name = NoName),
                   blankValues |-> these(LAMBDA p : p.value = ""),
                   sensitive |-> these(LAMBDA p : p.sensitive),
                   variants |-> Cardinality({Folded(n) : n \in variants})]
        kept == SelectSeq(pairs, LAMBDA pair : CategoryFor(DecodedName(pair)) # "tracking")
    IN IF Len(pairs) > MaxPairs THEN [ok |-> FALSE]
       ELSE [ok |-> TRUE,
             parameters |-> parameters,
             counts |-> counts,
             categories |-> [c \in Categories |-> these(LAMBDA p : p.category = c)],
             candidate |-> IF kept = pairs THEN NoCandidate ELSE <<kept>>,
             warns |-> \/ \E c \in {"duplicates", "blankNames", "blankValues", "sensitive",
                                    "variants"} : counts[c] > 0
                       \/ Len(pairs) > ManyPairs]

-----------------------------------------------------------------------------
\* UrlNormalizationAnalyzerTool
SubmitUrl ==
    \E url \in UrlTexts :
      work' = [tool |-> "url", url |-> url, made |-> AnalyzeUrlNormalization(url)]

\* QueryParameterAnalyzerTool
SubmitQuery ==
    \E query \in QueryTexts :
      work' = [tool |-> "query", query |-> query, made |-> AnalyzeQueryParameters(query)]

\* A normalised URL as it would be typed.
Typed(url) ==
    UrlText(url.scheme, url.host, url.port, url.path, url.search, url.hash, FALSE, FALSE)

UrlParts(url) == {url.path, url.search, url.hash}

\* A percent sign that begins no octet, which decoding what follows may make one.
StrayPercent(url) ==
    \E text \in UrlParts(url) : <<"%">> \in ToSet(UrlMeaning[text])

\* Changes the parser makes that nothing is reported of.
ParsedSilently(url) ==
    \/ url.search = <<"?">> \/ url.hash = <<"#">>
    \/ \E segment \in ToSet(PathSegments(url.path)) \ DotSegments : AsDots(segment) # <<>>

(***************************************************************************)
(* A URL that the tool calls normalised is one: normalised again it stays  *)
(* as it is, with no change reported; it means what the one typed means,   *)
(* octet by octet; and when no change is reported it is the one typed, but *)
(* for what the parser does unasked.  A percent sign that begins no octet  *)
(* is let pass; decoded, what follows it may be read as one afterwards.    *)
(* analyzeUrlNormalization.                                                *)
(***************************************************************************)
UrlIsNormalForm ==
    work.tool = "url" =>
      LET again == AnalyzeUrlNormalization(Typed(work.made.url))
          read == ParseHttpUrl(work.url)
          silent == work.made.changes \cap NormalizingChanges = {}
      IN \/ StrayPercent(work.url)
         \/ /\ again.url = work.made.url
            /\ again.changes = work.made.changes \cap ReviewChanges
            /\ \A part \in {"path", "search", "hash"} :
                 UrlMeaning[work.made.url[part]] = UrlMeaning[read[part]]
            /\ silent /\ ~ParsedSilently(work.url) => Typed(work.made.url) = work.url

(***************************************************************************)
(* What is offered as the URL without tracking holds just the parameters   *)
(* that do not track, in their order: analysed itself it has nothing left  *)
(* to remove, and says of each parameter what was said of it before; no    *)
(* warning, and no refusal, comes of removing.  Nothing is offered where   *)
(* nothing tracks.  (A single empty pair left over is read as no pair.)    *)
(* analyzeQueryParameters.                                                 *)
(***************************************************************************)
TrackingIsRemoved ==
    work.tool = "query" /\ work.made.ok =>
      LET made == work.made
          again == AnalyzeQueryParameters(made.candidate[1])
          emptied == made.candidate = <<<<NoPair>>>>
          told(parameters) ==
            [i \in DOMAIN parameters |-> [parameters[i] EXCEPT !.duplicate = FALSE]]
          left == SelectSeq(told(made.parameters), LAMBDA p : p.category # "tracking")
      IN /\ made.candidate = NoCandidate <=> made.categories["tracking"] = 0
         /\ made.candidate # NoCandidate =>
              /\ again.ok
              /\ again.candidate = NoCandidate
              /\ told(again.parameters) = left \/ emptied
              /\ again.warns => made.warns
              /\ made.counts.pairs = again.counts.pairs + made.categories["tracking"]
                 \/ emptied
         /\ made.counts.pairs
              = Cardinality({i \in DOMAIN made.parameters : made.parameters[i].duplicate})
                + Cardinality({p \in ToSet(made.parameters) : ~p.duplicate})

UrlToolsAreRight == UrlIsNormalForm /\ TrackingIsRemoved
=================================================================================
