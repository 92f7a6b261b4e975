------------------------------ MODULE Workbench -------------------------------
(***************************************************************************)
(* The tools of the site that compute in the page, under src/apps/web/src  *)
(* /features/tools, and need no tree: here the line diff of                *)
(* text-encoding-diff-engine.ts, CSV in structured-text-workbench.ts, and  *)
(* the certificate chain of pem-certificate-engine.ts; CronTool has the    *)
(* cron workbench.  Each submit is a function of its input; a module holds *)
(* the function and, as an invariant, what it is to return.                *)
(***************************************************************************)
EXTENDS CronTool

CONSTANTS
    Lines,      \* lines of text: [text, tail], tail for blanks at the end
    MaxLines,   \* bound of the model: lines on each side of a diff
    JsonTables, \* JSON arrays, to be written as CSV
    CsvTexts,   \* texts, to be read as CSV
    CsvLimits,  \* MAX_JSON_NODES, MAX_INPUT_CHARS, MAX_CSV_..., MAX_ISSUES; scored and
                \* sampled: the characters and rows that delimiterScore looks at
    Names,      \* subjects and issuers of certificates
    MaxCerts    \* bound of the model: certificates in one PEM input

ASSUME WorkbenchAssumption ==
    /\ \A line \in Lines : line.tail \in BOOLEAN
    /\ {MaxLines, MaxCerts} \subseteq Nat
    /\ CsvLimits \in [{"nodes", "chars", "rows", "columns", "cells", "issues", "scored",
                      "sampled"} -> Nat]
    /\ CsvLimits.nodes <= CsvLimits.rows /\ CsvLimits.scored < CsvLimits.cells

-----------------------------------------------------------------------------
(***************************************************************************)
(* The line diff: a table of the longest common subsequence, walked back   *)
(* from its last cell.                                                     *)
(***************************************************************************)
\* comparisonLine
ComparisonLine(line, ignoring) == IF ignoring THEN [line EXCEPT !.tail = FALSE] ELSE line

SameLine(from, to, i, j, ignoring) ==
    ComparisonLine(from[i], ignoring) = ComparisonLine(to[j], ignoring)

\* Mutant: the comparison of the two neighbours the other way round.
Shorter(above, left) == above < left

\* Direction 1 of the table: the cell above holds more than the one to the left.
Longer(above, left) == above > left

DiffLine(kind, line) == [kind |-> kind, line |-> line]

Cells(from, to) == (0 .. Len(from)) \X (0 .. Len(to))

\* compareTextLines, the table: of each cell how many lines the first i and the
\* first j lines have in common, in their order.
CommonLengths(from, to, ignoring) ==
    LET common[c \in Cells(from, to)] ==
          LET above == common[<<c[1] - 1, c[2]>>]
              left == common[<<c[1], c[2] - 1>>]
          IN IF c[1] = 0 \/ c[2] = 0 THEN 0
             ELSE IF SameLine(from, to, c[1], c[2], ignoring)
             THEN common[<<c[1] - 1, c[2] - 1>>] + 1
             ELSE IF Longer(above, left) THEN above ELSE left
    IN common

\* Its way back through the table: the lines up to each cell.
WalkBack(from, to, ignoring) ==
    LET common == CommonLengths(from, to, ignoring)
        walk[c \in Cells(from, to)] ==
          LET i == c[1]
              j == c[2]
          IN IF i = 0 /\ j = 0 THEN <<>>
             ELSE IF i > 0 /\ j > 0 /\ SameLine(from, to, i, j, ignoring)
             THEN Append(walk[<<i - 1, j - 1>>], DiffLine("unchanged", from[i]))
             ELSE IF j = 0 \/ (i > 0 /\ Longer(common[<<i - 1, j>>], common[<<i, j - 1>>]))
             THEN Append(walk[<<i - 1, j>>], DiffLine("deletion", from[i]))
             ELSE Append(walk[<<i, j - 1>>], DiffLine("addition", to[j]))
    IN walk

CompareTextLines(from, to, ignoring) ==
    WalkBack(from, to, ignoring)[<<Len(from), Len(to)>>]

\* summarizeDiff
CountKind(diff, kind) == Cardinality({i \in DOMAIN diff : diff[i].kind = kind})

SummarizeDiff(diff) ==
    LET changes(i, kind) == diff[i].kind = kind
        \* the groups are what lies between unchanged lines
        group(i) == CountKind(SubSeq(diff, 1, i), "unchanged")
        mixed == {g \in 0 .. Len(diff) :
                    \E i, j \in DOMAIN diff :
                      /\ group(i) = g /\ group(j) = g
                      /\ changes(i, "addition") /\ changes(j, "deletion")}
    IN [additions |-> CountKind(diff, "addition"),
        deletions |-> CountKind(diff, "deletion"),
        unchanged |-> CountKind(diff, "unchanged"),
        groups |-> Cardinality(mixed)]

-----------------------------------------------------------------------------
(***************************************************************************)
(* CSV.  A text is a sequence of characters; "=" stands for each that can  *)
(* begin a formula.                                                        *)
(***************************************************************************)
Quote == "quote"
Comma == ","
Tab   == "tab"
Cr    == "cr"
Lf    == "lf"
Bom   == "bom"
Equal == "="
Apostrophe == "'"

Delimiters == <<Comma, ";", Tab, "|">>
AutoDetect == "auto"

\* What trim takes away.
Blanks == {Cr, Lf, Tab, " ", Bom}
IsAllBlank(text) == ToSet(text) \subseteq Blanks

(***************************************************************************)
(* jsonToCsv, of a JSON array.                                             *)
(***************************************************************************)
\* Mutant: quotes inside a field are not doubled.
EscapeCsvFieldOnce(field, delimiter) ==
    IF ToSet(field) \cap {delimiter, Quote, Cr, Lf} = {} THEN field
    ELSE <<Quote>> \o field \o <<Quote>>

\* escapeCsvField
EscapeCsvField(field, delimiter) ==
    IF ToSet(field) \cap {delimiter, Quote, Cr, Lf} = {} THEN field
    ELSE <<Quote>> \o
         FlattenSeq([i \in DOMAIN field |->
           IF field[i] = Quote THEN <<Quote, Quote>> ELSE <<field[i]>>]) \o <<Quote>>

\* spreadsheetFormulaRisk
FormulaRisk(field) ==
    \E i \in DOMAIN field :
      field[i] = Equal /\ \A j \in 1 .. i - 1 : field[j] \in {Tab, Cr, " "}

FormulaRisks(rows) ==
    Cardinality({cell \in UNION {{r} \X DOMAIN rows[r] : r \in DOMAIN rows} :
                   FormulaRisk(rows[cell[1]][cell[2]])})

\* countNodes, of an array whose items hold cells.
Nodes(items) ==
    FoldLeft(LAMBDA n, item :
               n + 1 + IF IsArray(item) THEN Len(item.items)
                       ELSE IF IsObject(item) THEN Cardinality(DOMAIN item.of) ELSE 0,
             1, items)

AreObjects(items) == \A i \in DOMAIN items : IsObject(items[i])

\* The headers of objects: their keys, each where it is met first.  (Keys that name
\* what every object inherits, such as toString, are not modelled.)
Headers(items) ==
    FoldLeft(LAMBDA headers, item : headers \o SetToSeq(DOMAIN item.of \ ToSet(headers)),
             <<>>, items)

\* The rows of values: one of headers and one for each object, or the arrays.
ValueRows(items) ==
    LET headers == Headers(items)
        value(item, key) == IF key \in DOMAIN item.of THEN item.of[key] ELSE NullValue
    IN IF AreObjects(items)
       THEN <<[c \in DOMAIN headers |-> Str(headers[c])]>>
            \o [i \in DOMAIN items |-> [c \in DOMAIN headers |-> value(items[i], headers[c])]]
       ELSE [i \in DOMAIN items |-> items[i].items]

AreEvenRows(rows) ==
    \A r \in DOMAIN rows :
      /\ Len(rows[r]) = Len(rows[1]) /\ Len(rows[r]) <= CsvLimits.columns
      /\ \A c \in DOMAIN rows[r] : IsScalar(rows[r][c])

\* What jsonToCsv throws no error for.
IsTable(items) ==
    /\ Nodes(items) <= CsvLimits.nodes /\ Len(items) <= CsvLimits.rows
    /\ AreObjects(items) \/ \A i \in DOMAIN items : IsArray(items[i])
    /\ AreEvenRows(ValueRows(items))

\* csvCell
CsvCell(value) == IF value = NullValue THEN <<>> ELSE value.text

\* What is written for a cell, before it is escaped.
Written(value, prefixing) ==
    LET field == CsvCell(value)
    IN IF prefixing /\ FormulaRisk(field) THEN <<Apostrophe>> \o field ELSE field

WrittenCells(rows, prefixing) ==
    [r \in DOMAIN rows |-> [c \in DOMAIN rows[r] |-> Written(rows[r][c], prefixing)]]

WrittenRows(items, prefixing) == WrittenCells(ValueRows(items), prefixing)

CsvLine(row, delimiter) ==
    FlattenSeq([c \in DOMAIN row |-> (IF c = 1 THEN <<>> ELSE <<delimiter>>)
                                     \o EscapeCsvField(row[c], delimiter)]) \o <<Cr, Lf>>

CsvOf(rows, delimiter) == FlattenSeq([r \in DOMAIN rows |-> CsvLine(rows[r], delimiter)])

CsvRefused == [ok |-> FALSE]

JsonToCsv(items, delimiter, prefixing) ==
    IF items = <<>> THEN [ok |-> TRUE, text |-> <<>>, formulas |-> 0]
    ELSE IF ~IsTable(items) THEN CsvRefused
    ELSE [ok |-> TRUE, text |-> CsvOf(WrittenRows(items, prefixing), delimiter),
          formulas |-> FormulaRisks(WrittenRows(items, FALSE))]

(***************************************************************************)
(* parseCsvWithDelimiter: one step per character.  quoted is quotedField;  *)
(* mode says whether it is inQuotes, afterClosingQuote or neither; skip is *)
(* the character that was taken together with the one before it; failed    *)
(* that an error was thrown.                                               *)
(***************************************************************************)
CsvStart ==
    [rows |-> <<>>, row |-> <<>>, field |-> <<>>, mode |-> "plain", quoted |-> FALSE,
     skip |-> FALSE, cells |-> 0, issues |-> 0, failed |-> FALSE]

\* addIssue
Capped(issues) == Min({issues, CsvLimits.issues})
AddIssue(s) == [s EXCEPT !.issues = Capped(@ + 1)]

PushField(s) ==
    [s EXCEPT !.row = Append(@, s.field), !.cells = @ + 1, !.field = <<>>,
              !.quoted = FALSE, !.mode = "plain",
              !.failed = @ \/ Len(s.row) + 1 > CsvLimits.columns]

EndRow(s) ==
    [s EXCEPT !.rows = Append(@, s.row), !.row = <<>>,
              !.failed = @ \/ Len(s.rows) + 1 > CsvLimits.rows \/ s.cells > CsvLimits.cells]

PushRow(s) == EndRow(PushField(s))

TakeCharacter(s, character) == [s EXCEPT !.field = Append(@, character)]

CsvCharacter(text, delimiter, s, i) ==
    LET character == text[i]
        followedBy(next) == i < Len(text) /\ text[i + 1] = next
    IN
    CASE s.failed -> s
      [] ~s.failed /\ s.skip -> [s EXCEPT !.skip = FALSE]
      [] ~s.failed /\ ~s.skip /\ s.mode = "inside" ->
           IF character # Quote THEN TakeCharacter(s, character)
           ELSE IF followedBy(Quote) THEN [TakeCharacter(s, Quote) EXCEPT !.skip = TRUE]
           ELSE [s EXCEPT !.mode = "closed"]
      [] OTHER ->
           CASE character = delimiter -> PushField(s)
             [] character \in {Cr, Lf} ->
                  [PushRow(s) EXCEPT !.skip = character = Cr /\ followedBy(Lf)]
             [] s.mode = "closed" /\ character \in {" ", Tab} \ {delimiter} -> s
             [] s.mode = "closed" /\ character \notin {delimiter, Cr, Lf, " ", Tab} ->
                  [TakeCharacter(AddIssue(s), character) EXCEPT !.mode = "plain"]
             [] s.mode = "plain" /\ character = Quote ->
                  IF s.field = <<>> THEN [s EXCEPT !.mode = "inside", !.quoted = TRUE]
                  ELSE TakeCharacter(AddIssue(s), Quote)
             [] OTHER -> TakeCharacter(s, character)

BlankRow(row) == \A c \in DOMAIN row : row[c] = <<>>
WithoutBlankEnd(rows) ==
    IF Len(rows) > 1 /\ BlankRow(Last(rows)) THEN Front(rows) ELSE rows

\* The end of the text ends the last row, if one has begun.
CsvEnd(s) ==
    IF ~s.failed /\ (s.field # <<>> \/ s.row # <<>> \/ s.quoted \/ s.mode = "closed")
    THEN PushRow(IF s.mode = "inside" THEN AddIssue(s) ELSE s)
    ELSE s

TakeCharacters(text, delimiter) ==
    FoldLeftDomain(LAMBDA s, i : CsvCharacter(text, delimiter, s, i), CsvStart, text)

ParseCsv(text, delimiter) ==
    [CsvEnd(TakeCharacters(text, delimiter)) EXCEPT !.rows = WithoutBlankEnd(@)]

(***************************************************************************)
(* The delimiter is guessed by how even and how wide the rows come out.    *)
(***************************************************************************)
\* Where a function of numbers is greatest, first.
FirstGreatest(f) ==
    CHOOSE i \in DOMAIN f : \A j \in DOMAIN f : f[j] <= f[i] /\ (j < i => f[j] < f[i])

\* For each row that is looked at how many have its width.
AlikeRows(rows) ==
    LET sample == 1 .. Min({Len(rows), CsvLimits.sampled})
    IN [r \in sample |-> Cardinality({q \in sample : Len(rows[q]) = Len(rows[r])})]

\* The score of rows, most of which are as wide as this one.
ScoreOf(csv, alike, mode) ==
    Len(csv.rows[mode]) * 100 + alike[mode] * 10 - csv.issues * 50
      - (Len(alike) - alike[mode]) * 20

ScoreAlike(csv, alike) == ScoreOf(csv, alike, FirstGreatest(alike))

ScoreParsed(csv) ==
    IF csv.failed \/ csv.rows = <<>> THEN -10000 ELSE ScoreAlike(csv, AlikeRows(csv.rows))

\* delimiterScore
DelimiterScore(text, delimiter) ==
    ScoreParsed(ParseCsv(SubSeq(text, 1, Min({Len(text), CsvLimits.scored})), delimiter))

\* Mutant: the candidates are sorted the other way round.
DetectLowest(text) ==
    Delimiters[FirstGreatest([d \in DOMAIN Delimiters |->
                                -DelimiterScore(text, Delimiters[d])])]

\* detectDelimiter
DetectDelimiter(text) ==
    Delimiters[FirstGreatest([d \in DOMAIN Delimiters |->
                                DelimiterScore(text, Delimiters[d])])]

\* Mutant: a name that occurs twice is let pass.
BlankHeaders(names) == {c \in DOMAIN names : IsAllBlank(names[c])}

\* Names that are empty, or were seen before.
FaultyHeaders(names) ==
    {c \in DOMAIN names : IsAllBlank(names[c]) \/ \E b \in 1 .. c - 1 : names[b] = names[c]}

WithoutMark(text) == IF text # <<>> /\ Head(text) = Bom THEN Tail(text) ELSE text

ChosenDelimiter(text, option) ==
    IF option = AutoDetect THEN DetectDelimiter(WithoutMark(text)) ELSE option

UnevenRows(rows) == {r \in DOMAIN rows : Len(rows[r]) # Len(rows[1])}

\* What is said of a text that was taken apart.
AnalyzeRows(csv, delimiter, header) ==
    IF csv.failed THEN CsvRefused
    ELSE [ok |-> TRUE, delimiter |-> delimiter, rows |-> csv.rows,
          issues |-> Capped(csv.issues + Cardinality(UnevenRows(csv.rows))
                            + IF header THEN Cardinality(FaultyHeaders(csv.rows[1])) ELSE 0),
          formulas |-> FormulaRisks(csv.rows)]

AnalyzeWith(text, delimiter, header) ==
    AnalyzeRows(ParseCsv(WithoutMark(text), delimiter), delimiter, header)

\* analyzeCsvRows; whitespace after a closing quote and the like are warnings, left out.
AnalyzeCsvRows(text, option, header) ==
    IF IsAllBlank(text) \/ Len(text) > CsvLimits.chars THEN CsvRefused
    ELSE AnalyzeWith(text, ChosenDelimiter(text, option), header)

\* An object of a name for each cell; Object.fromEntries keeps the last of two.
RecordOf(names, row) ==
    Obj([name \in ToSet(names) |->
           Str(row[CHOOSE c \in DOMAIN names :
                     names[c] = name /\ \A d \in c + 1 .. Len(names) : names[d] # name])])

Records(rows) == [r \in 1 .. Len(rows) - 1 |-> RecordOf(rows[1], rows[r + 1])]
Arrays(rows) == [r \in DOMAIN rows |-> Arr([c \in DOMAIN rows[r] |-> Str(rows[r][c])])]

JsonOf(csv, header) ==
    [csv |-> csv,
     output |-> IF ~csv.ok THEN <<>>
                ELSE IF csv.issues > 0 THEN <<>>
                ELSE IF header THEN Records(csv.rows) ELSE Arrays(csv.rows)]

\* csvToJson: the JSON array, if there is no issue.
CsvToJson(text, option, header) == JsonOf(AnalyzeCsvRows(text, option, header), header)

-----------------------------------------------------------------------------
(***************************************************************************)
(* The certificate chain.  A certificate is [subject, issuer] and known by *)
(* its place in the input.                                                 *)
(***************************************************************************)
FirstThat(certs, Test(_)) ==
    IF \E i \in DOMAIN certs : Test(i)
    THEN CHOOSE i \in DOMAIN certs : Test(i) /\ \A j \in 1 .. i - 1 : ~Test(j)
    ELSE 0

SelfIssued(cert) == cert.subject = cert.issuer
Issues(certs, i) == \E j \in DOMAIN certs : certs[j].issuer = certs[i].subject
IssuesAnother(certs, i) ==
    \E j \in DOMAIN certs \ {i} : certs[j].issuer = certs[i].subject

\* Mutant: the leaf is not preferred.
AnyStart(certs) ==
    LET start == FirstThat(certs, LAMBDA i : ~Issues(certs, i) \/ SelfIssued(certs[i]))
    IN IF start = 0 THEN 1 ELSE start

\* Where orderChain starts: at a certificate that issued no other one.
LeafOf(certs) ==
    LET start == FirstThat(certs, LAMBDA i : ~Issues(certs, i) \/ SelfIssued(certs[i]))
        leaf == FirstThat(certs, LAMBDA i : ~IssuesAnother(certs, i))
    IN IF leaf # 0 THEN leaf ELSE IF start # 0 THEN start ELSE 1

\* One turn of its loop; it stops at a root and where no issuer is left.
NextIssuer(certs, order) ==
    LET issuer == certs[Last(order)].issuer
        next == FirstThat(certs, LAMBDA i : i \notin ToSet(order) /\ certs[i].subject = issuer)
    IN IF SelfIssued(certs[Last(order)]) \/ next = 0 THEN order ELSE Append(order, next)

\* The order after each turn.
ChainOf(certs) ==
    LET chain[n \in 0 .. Len(certs)] ==
          IF n = 0 THEN <<LeafOf(certs)>> ELSE NextIssuer(certs, chain[n - 1])
    IN chain

OrderChain(certs) ==
    IF Len(certs) <= 1 THEN [order |-> [i \in DOMAIN certs |-> i], complete |-> TRUE]
    ELSE LET order == ChainOf(certs)[Len(certs)]
         IN [order |-> order,
             complete |-> /\ ToSet(order) = DOMAIN certs
                          /\ SelfIssued(certs[Last(order)])]

-----------------------------------------------------------------------------
Texts == UNION {[1 .. n -> Lines] : n \in 0 .. MaxLines}
Bundles == UNION {[1 .. n -> [subject : Names, issuer : Names]] : n \in 1 .. MaxCerts}

\* DiffCheckerTool
SubmitDiff ==
    \E from \in Texts, to \in Texts, ignoring \in BOOLEAN :
      LET diff == CompareTextLines(from, to, ignoring) IN
      work' = [tool |-> "diff", from |-> from, to |-> to, ignoring |-> ignoring,
               diff |-> diff, summary |-> SummarizeDiff(diff)]

\* CsvDataWorkbenchTool, in its two directions.
SubmitJsonToCsv ==
    \E items \in JsonTables, delimiter \in ToSet(Delimiters), prefixing \in BOOLEAN :
      work' = [tool |-> "jsonToCsv", items |-> items, delimiter |-> delimiter,
               prefixing |-> prefixing, csv |-> JsonToCsv(items, delimiter, prefixing)]

SubmitCsvToJson ==
    \E text \in CsvTexts, option \in ToSet(Delimiters) \cup {AutoDetect}, header \in BOOLEAN :
      work' = [tool |-> "csvToJson", text |-> text, option |-> option,
               header |-> header, json |-> CsvToJson(text, option, header)]

\* PemCertificateTool
SubmitCertificates ==
    \E certs \in Bundles :
      work' = [tool |-> "chain", certs |-> certs, chain |-> OrderChain(certs)]

WorkbenchNext ==
    \/ /\ work.tool = "none"
       /\ \/ SubmitDiff \/ SubmitJsonToCsv \/ SubmitCsvToJson \/ SubmitCertificates
          \/ SubmitCronField \/ SubmitCron
    \/ ResetWork

WorkbenchSpec == WorkbenchInit /\ [][WorkbenchNext]_work

-----------------------------------------------------------------------------
\* How many of the first n lines of a diff are not of this kind.
Without(diff, kind, n) == Cardinality({m \in 1 .. n : diff[m].kind # kind})

\* Without the lines of this kind a diff is this text.
IsSide(diff, kind, text, ignoring) ==
    /\ Without(diff, kind, Len(diff)) = Len(text)
    /\ \A n \in DOMAIN diff : diff[n].kind # kind =>
         ComparisonLine(diff[n].line, ignoring)
           = ComparisonLine(text[Without(diff, kind, n)], ignoring)

\* The ways to choose k lines of n in their order.
Ascending(k, n) == {f \in [1 .. k -> 1 .. n] : \A l, m \in 1 .. k : l < m => f[l] < f[m]}

(***************************************************************************)
(* A line diff is right: what is unchanged or deleted is the original, and *)
(* what is unchanged or added is the changed text up to the blanks that    *)
(* are ignored; and it is shortest: no common subsequence of the two sides *)
(* is longer than what it leaves unchanged.  compareTextLines.             *)
(***************************************************************************)
DiffIsShortest ==
    work.tool = "diff" =>
      /\ IsSide(work.diff, "addition", work.from, FALSE)
      /\ IsSide(work.diff, "deletion", work.to, work.ignoring)
      /\ \A k \in 0 .. Len(work.from) :
           \A f \in Ascending(k, Len(work.from)), g \in Ascending(k, Len(work.to)) :
             (\A l \in 1 .. k : SameLine(work.from, work.to, f[l], g[l], work.ignoring))
               => k <= work.summary.unchanged
      /\ work.summary.unchanged + work.summary.deletions = Len(work.from)
      /\ work.summary.unchanged + work.summary.additions = Len(work.to)
      /\ work.summary.groups <= work.summary.unchanged + 1

\* A byte order mark in front of the first cell, unquoted, is taken for the file's.
MarkedFirst(rows, delimiter) ==
    /\ rows[1][1] # <<>> /\ Head(rows[1][1]) = Bom
    /\ EscapeCsvField(rows[1][1], delimiter) = rows[1][1]

Readable(rows, delimiter) ==
    WithoutBlankEnd(IF MarkedFirst(rows, delimiter) THEN [rows EXCEPT ![1][1] = Tail(@)]
                    ELSE rows)

\* Nothing in the cells can be taken for another delimiter or for the end of a row.
Unmistakable(rows, delimiter) ==
    \A r \in DOMAIN rows : \A c \in DOMAIN rows[r] :
      ToSet(rows[r][c]) \cap ((ToSet(Delimiters) \cup {Cr, Lf}) \ {delimiter}) = {}

AllBlankCells(rows) == \A r \in DOMAIN rows : \A c \in DOMAIN rows[r] : IsAllBlank(rows[r][c])

\* The text of rows is not read for its size.
TooLarge(rows, text) ==
    Len(text) > CsvLimits.chars \/ Len(rows) * Len(rows[1]) > CsvLimits.cells

\* What is said and made of rows, when their text is read.
IsReadAs(rows, kept, csv, header) ==
    /\ csv.rows = kept
    /\ csv.issues = IF header
                    THEN Capped(Len(kept[1])
                                - Cardinality({n \in ToSet(kept[1]) : ~IsAllBlank(n)}))
                    ELSE 0
    /\ MarkedFirst(rows, work.delimiter)
         \/ csv.formulas = IF work.prefixing THEN 0 ELSE work.csv.formulas

RecordsReturn(items, records) ==
    \A i \in DOMAIN records : \A key \in DOMAIN items[i].of :
      records[i].of[Written(Str(key), work.prefixing)]
        = Str(Written(items[i].of[key], work.prefixing))

ReadsBack(rows, kept, json, header) ==
    /\ json.csv.ok \/ AllBlankCells(rows) \/ TooLarge(rows, work.csv.text)
    /\ json.csv.ok => IsReadAs(rows, kept, json.csv, header)
    /\ json.csv.ok /\ header => (json.csv.issues = 0 =>
         /\ Len(json.output) = Len(kept) - 1
         /\ AreObjects(work.items) /\ ~MarkedFirst(rows, work.delimiter) =>
              RecordsReturn(work.items, json.output))

\* The options under which the text is read as it was written.
FittingOptions(rows) ==
    {work.delimiter} \cup
    IF Unmistakable(rows, work.delimiter) /\ Len(work.csv.text) <= CsvLimits.scored
    THEN {AutoDetect} ELSE {}

RowsReadBack(rows) ==
    \A option \in FittingOptions(rows), header \in BOOLEAN :
      ReadsBack(rows, Readable(rows, work.delimiter),
                CsvToJson(work.csv.text, option, header), header)

(***************************************************************************)
(* What the converter wrote as CSV it reads back, cell by cell, whatever   *)
(* the cells hold; as records under the names they had, unless names are   *)
(* empty or not distinct, and then it says of how many; and with the       *)
(* prefix asked for it finds no formula in it.  That is so when it is told *)
(* the delimiter, and when it finds it, where no cell holds another one or *)
(* the end of a line and the text is not longer than what is scored.  All  *)
(* that is lost is a last row of empty cells, and a byte order mark before *)
(* the first cell (which may bring up a formula); all that is refused are  *)
(* tables of blank cells, and such as grow too large: objects of few keys  *)
(* become rows of many cells, quotes are doubled.  jsonToCsv, csvToJson.   *)
(***************************************************************************)
CsvIsReadBack ==
    work.tool = "jsonToCsv" /\ work.csv.ok =>
      RowsReadBack(WrittenRows(work.items, work.prefixing))

\* A text without quotes, delimiters, line ends and blanks.
Solid(text) ==
    SelectSeq(text, LAMBDA c : c \notin Blanks \cup ToSet(Delimiters) \cup {Quote})

\* JSON is read again from the CSV that is made of it.
ReturnsFrom(text, delimiter, back) ==
    /\ back.csv.ok \/ IsAllBlank(text) \/ Len(text) > CsvLimits.chars
    /\ back.csv.ok /\ Readable(WrittenRows(work.json.output, FALSE), delimiter)
                       = WrittenRows(work.json.output, FALSE) =>
         back.output = work.json.output

Returns(again, delimiter) ==
    again.ok => ReturnsFrom(again.text, delimiter,
                            CsvToJson(again.text, delimiter, work.header))

(***************************************************************************)
(* Of a CSV text that was typed no character is lost or moved but quotes,  *)
(* delimiters, line ends and blanks, with or without issues.  What JSON is *)
(* made of one without issues reads back from the CSV that is made of it,  *)
(* but for the losses above.  csvToJson, jsonToCsv.                        *)
(***************************************************************************)
CsvIsTakenWhole ==
    work.tool = "csvToJson" /\ work.json.csv.ok =>
      /\ Solid(FlattenSeq([r \in DOMAIN work.json.csv.rows |->
                             FlattenSeq(work.json.csv.rows[r])])) = Solid(work.text)
      /\ work.json.csv.issues = 0 /\ work.json.output # <<>> =>
           Returns(JsonToCsv(work.json.output, work.json.csv.delimiter, FALSE),
                   work.json.csv.delimiter)

CsvRoundTrip == CsvIsReadBack /\ CsvIsTakenWhole

(***************************************************************************)
(* The order shown is a path from issuer to issuer; a chain is called      *)
(* complete only when that path takes in every certificate and ends at one *)
(* that issued itself; and when no subject occurs twice such a path is     *)
(* found, in whatever order the certificates were pasted.  (Where two      *)
(* certificates have one subject, as after cross-signing, the first one    *)
(* is followed and a whole chain may be missed.)  orderChain.              *)
(***************************************************************************)
ChainIsFound ==
    work.tool = "chain" /\ Len(work.certs) > 1 =>
      LET certs == work.certs
          path(order) ==
            \A k \in 1 .. Len(order) - 1 :
              /\ certs[order[k]].issuer = certs[order[k + 1]].subject
              /\ ~SelfIssued(certs[order[k]])
              /\ \A l \in k + 1 .. Len(order) : order[l] # order[k]
          whole(order) ==
            Len(order) = Len(certs) /\ path(order) /\ SelfIssued(certs[Last(order)])
          told == \A i, j \in DOMAIN certs :
                    i # j => certs[i].subject # certs[j].subject
      IN /\ path(work.chain.order)
         /\ work.chain.complete => whole(work.chain.order)
         /\ told /\ (\E order \in [DOMAIN certs -> DOMAIN certs] : whole(order))
              => work.chain.complete

(***************************************************************************)
(* What the tools compute is what it is defined to be: the line diff, the  *)
(* certificate chain, and what a cron expression says and when it is due.  *)
(***************************************************************************)
ToolsAnswerRight == DiffIsShortest /\ ChainIsFound /\ CronIsRight
=============================================================================
