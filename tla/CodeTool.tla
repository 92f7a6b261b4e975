-------------------------------- MODULE CodeTool --------------------------------
(***************************************************************************)
(* The formatters of SQL and GraphQL in src/apps/web/src/features/tools/   *)
(* query-code-workbench.ts.  A text is a sequence of tokens, as the        *)
(* tokenizer returns them; breaks says that a token follows a line break.  *)
(* What a formatter writes is a sequence of lines, a line its indentation  *)
(* and its pieces: tokens, each with or without a space before it.  The    *)
(* case of keywords is left out.                                           *)
(***************************************************************************)
EXTENDS ToolWork, Integers
LOCAL INSTANCE Sequences
LOCAL INSTANCE FiniteSets
LOCAL INSTANCE SequencesExt

CONSTANTS
    SqlTexts,      \* sequences of SQL tokens
    GraphqlTexts,  \* sequences of GraphQL tokens
    MaxNesting     \* MAXIMUM_NESTING_DEPTH

ASSUME CodeToolAssumption == MaxNesting \in Nat

\* createToken
CodeToken(kind, value) == [kind |-> kind, value |-> value, breaks |-> FALSE]

OnNewLine(token) == [token EXCEPT !.breaks = TRUE]
Unbroken(text) == [i \in DOMAIN text |-> [text[i] EXCEPT !.breaks = FALSE]]

NoToken == CodeToken("none", "")

TokenBefore(text, i) == IF i = 1 THEN NoToken ELSE text[i - 1]
TokenAfter(text, i) == IF i = Len(text) THEN NoToken ELSE text[i + 1]

LineComment == CodeToken("comment", "--")
SqlString   == CodeToken("string", "'")

-------------------------------------------------------------------------------
(***************************************************************************)
(* LineWriter.  Its pieces never end in blanks, so trimEnd changes nothing *)
(* here.                                                                   *)
(***************************************************************************)
EmptyWriter == [lines |-> <<>>, pieces |-> <<>>, indent |-> 0]

Put(w, token, spaceBefore) ==
    [w EXCEPT !.pieces =
       Append(@, [token |-> Unbroken(<<token>>)[1], space |-> spaceBefore /\ @ # <<>>])]

Newline(w, indent) ==
    [lines |-> IF w.pieces = <<>> THEN w.lines
               ELSE Append(w.lines, [indent |-> w.indent, pieces |-> w.pieces]),
     pieces |-> <<>>,
     indent |-> indent]

Finish(w) == Newline(w, w.indent).lines

\* Mutant: what follows a comment goes on in its line.
PutCommentInline(w, token, indent) == Put(Newline(w, indent), token, FALSE)

\* A comment has a line of its own.
PutComment(w, token, indent) == Newline(Put(Newline(w, indent), token, FALSE), indent)

\* A formatter that has come to an error does no more.
Fail(s) == [s EXCEPT !.failed = TRUE]

-------------------------------------------------------------------------------
(***************************************************************************)
(* formatSql.  The keywords and clauses are those the texts can hold.      *)
(***************************************************************************)
SqlKeywords ==
    {"AS", "BY", "FROM", "GROUP", "ON", "ORDER", "SELECT", "SET", "VALUES", "WHEN", "WITH"}
ClauseStarters ==
    {<<"SELECT">>, <<"FROM">>, <<"GROUP", "BY">>, <<"ORDER", "BY">>, <<"ON">>, <<"SET">>,
     <<"VALUES">>, <<"WHEN">>, <<"WITH">>}
ListClauses ==
    {<<"SELECT">>, <<"GROUP", "BY">>, <<"ORDER", "BY">>, <<"SET">>, <<"VALUES">>, <<"WITH">>}

NoClause == <<>>

\* sqlPhraseAt: the clause that starts here.
SqlPhraseAt(text, i) ==
    LET word == text[i].value
        two == <<word, TokenAfter(text, i).value>>
    IN IF text[i].kind # "word" THEN NoClause
       ELSE IF two \in ClauseStarters THEN two
       ELSE IF <<word>> \in ClauseStarters THEN <<word>>
       ELSE NoClause

\* isPostgresqlContinuationString, of a string and the one before it.
ContinuesString(text, i, standard) ==
    standard /\ text[i].kind = "string" /\ TokenBefore(text, i).kind = "string"

SqlStart ==
    [w |-> EmptyWriter, indent |-> 0, deepest |-> 0, depth |-> 0, clause |-> NoClause,
     clauseDepth |-> 0, contexts |-> <<>>, skip |-> 0, failed |-> FALSE]

StartClause(s, text, i, phrase) ==
    LET indent == IF phrase \in {<<"ON">>, <<"WHEN">>} THEN s.indent + 1 ELSE s.indent
        line == IF s.w.pieces = <<>> THEN s.w ELSE Newline(s.w, indent)
        first == Put(line, text[i], FALSE)
    IN [s EXCEPT !.w = IF Len(phrase) = 2 THEN Put(first, text[i + 1], TRUE) ELSE first,
                 !.clause = phrase, !.clauseDepth = s.depth, !.skip = Len(phrase) - 1]

OpenParenthesis(s, text, i) ==
    LET before == TokenBefore(text, i)
        call == before.kind \in {"word", "identifier"} /\ before.value \notin SqlKeywords
        subquery == TokenAfter(text, i).value \in {"SELECT", "WITH"}
        written == Put(s.w, text[i], ~call /\ before.value # ".")
        opened == [s EXCEPT !.w = written, !.depth = @ + 1,
                     !.deepest = IF s.depth + 1 > @ THEN s.depth + 1 ELSE @,
                     !.contexts = Append(@, [subquery |-> subquery, clause |-> s.clause,
                                             clauseDepth |-> s.clauseDepth])]
    IN IF opened.depth > MaxNesting THEN Fail(s)
       ELSE IF ~subquery THEN opened
       ELSE [opened EXCEPT !.w = Newline(@, s.indent + 1), !.indent = @ + 1,
                           !.clause = NoClause, !.clauseDepth = opened.depth]

CloseParenthesis(s, text, i) ==
    LET context == Last(s.contexts)
        indent == IF context.subquery THEN s.indent - 1 ELSE s.indent
        line == IF context.subquery THEN Newline(s.w, indent) ELSE s.w
        closed == [s EXCEPT !.w = Put(line, text[i], FALSE), !.indent = indent,
                            !.depth = @ - 1, !.contexts = Front(@)]
    IN IF s.depth = 0 THEN Fail(s)
       ELSE IF context.subquery
       THEN [closed EXCEPT !.clause = context.clause, !.clauseDepth = context.clauseDepth]
       ELSE [closed EXCEPT !.clauseDepth = IF @ > closed.depth THEN closed.depth ELSE @]

PutComma(s, token) ==
    LET w == Put(s.w, token, FALSE)
        indent == IF s.clause = <<"WITH">> THEN s.indent ELSE s.indent + 1
    IN [s EXCEPT !.w = IF s.clause \in ListClauses /\ s.depth = s.clauseDepth
                       THEN Newline(w, indent) ELSE w]

EndStatement(s, token) ==
    [s EXCEPT !.w = Newline(Put(@, token, FALSE), 0), !.clause = NoClause,
              !.clauseDepth = 0, !.indent = 0]

PutValue(s, text, i, standard) ==
    LET line == IF text[i].breaks /\ ContinuesString(text, i, standard)
                THEN Newline(s.w, s.indent) ELSE s.w
    IN [s EXCEPT !.w = Put(line, text[i], TokenBefore(text, i).value \notin {"(", ".", ".."})]

SqlStep(s, text, i, standard) ==
    LET token == text[i]
        phrase == SqlPhraseAt(text, i)
    IN
    CASE s.failed -> s
      [] ~s.failed /\ s.skip > 0 -> [s EXCEPT !.skip = @ - 1]
      [] OTHER ->
           CASE token.kind = "comment" -> [s EXCEPT !.w = PutComment(@, token, s.indent)]
             [] phrase # NoClause /\ s.depth = s.clauseDepth -> StartClause(s, text, i, phrase)
             [] token.value = "(" -> OpenParenthesis(s, text, i)
             [] token.value = ")" -> CloseParenthesis(s, text, i)
             [] token.value = "," -> PutComma(s, token)
             [] token.value = ";" -> EndStatement(s, token)
             [] token.value \in {".", ".."} -> [s EXCEPT !.w = Put(@, token, FALSE)]
             [] token.kind = "operator" -> [s EXCEPT !.w = Put(@, token, TRUE)]
             [] OTHER -> PutValue(s, text, i, standard)

Formatted(s, complete) ==
    IF s.failed \/ ~complete THEN [failed |-> TRUE]
    ELSE [failed |-> FALSE, lines |-> Finish(s.w), deepest |-> s.deepest]

FormatSql(text, standard) ==
    LET s == FoldLeftDomain(LAMBDA done, i : SqlStep(done, text, i, standard), SqlStart, text)
    IN Formatted(s, s.depth = 0)

-------------------------------------------------------------------------------
(***************************************************************************)
(* formatGraphql.                                                          *)
(***************************************************************************)
\* graphqlBraceType
GraphqlBraceType(before) ==
    IF before.value \in {":", "=", "(", "["} THEN "object" ELSE "selection"

\* isGraphqlValueToken
IsGraphqlValueToken(token) ==
    token.kind \in {"word", "number", "string"} \/ token.value \in {")", "]", "}"}

GraphqlStart ==
    [w |-> EmptyWriter, stack |-> <<>>, indent |-> 0, deepest |-> 0, failed |-> FALSE]

PushContext(s, type, w) ==
    LET stack == Append(s.stack, type)
    IN IF Len(stack) > MaxNesting THEN Fail(s)
       ELSE [s EXCEPT !.stack = stack, !.w = w,
                      !.deepest = IF Len(stack) > @ THEN Len(stack) ELSE @]

PopContext(s, types, w) ==
    IF s.stack = <<>> \/ Last(s.stack) \notin types THEN Fail(s)
    ELSE [s EXCEPT !.stack = Front(@), !.w = w]

OpenBrace(s, text, i) ==
    LET before == TokenBefore(text, i)
        w == Put(s.w, text[i], before # NoToken /\ before.value \notin {"(", "[", ":", "="})
    IN [PushContext(s, GraphqlBraceType(before), Newline(w, s.indent + 1))
          EXCEPT !.indent = @ + 1]

CloseBrace(s, text, i) ==
    LET w == Put(Newline(s.w, s.indent - 1), text[i], FALSE)
        next == TokenAfter(text, i)
        goesOn == next = NoToken \/ next.value \in {")", "]", "}", "@"}
    IN [PopContext(s, {"selection", "object"}, IF goesOn THEN w ELSE Newline(w, s.indent - 1))
          EXCEPT !.indent = @ - 1]

\* A name in a selection that begins a line.
StartsSelection(s, text, i) ==
    LET before == TokenBefore(text, i)
    IN /\ s.stack # <<>> /\ Last(s.stack) = "selection"
       /\ s.w.pieces # <<>>
       /\ text[i].kind = "word" /\ IsGraphqlValueToken(before)
       /\ before.value \notin {"query", "fragment"}
       /\ TokenAfter(text, i).value # ":"

PutGraphql(s, text, i) ==
    LET line == IF StartsSelection(s, text, i) THEN Newline(s.w, s.indent) ELSE s.w
        before == TokenBefore(text, i)
        spaced == before # NoToken /\ before.value \notin {"(", "[", "{", "$", "@", "..."}
    IN [s EXCEPT !.w = Put(line, text[i], spaced)]

GraphqlStep(s, text, i) ==
    LET token == text[i]
        before == TokenBefore(text, i)
    IN
    CASE s.failed -> s
      [] ~s.failed /\ token.kind = "comment" ->
           [s EXCEPT !.w = PutComment(@, token, s.indent)]
      [] ~s.failed /\ token.value = "{" -> OpenBrace(s, text, i)
      [] ~s.failed /\ token.value = "}" -> CloseBrace(s, text, i)
      [] ~s.failed /\ token.value = "(" -> PushContext(s, "arguments", Put(s.w, token, FALSE))
      [] ~s.failed /\ token.value = ")" -> PopContext(s, {"arguments"}, Put(s.w, token, FALSE))
      [] ~s.failed /\ token.value = "[" -> PushContext(s, "list", Put(s.w, token, FALSE))
      [] ~s.failed /\ token.value = "]" -> PopContext(s, {"list"}, Put(s.w, token, FALSE))
      [] ~s.failed /\ token.value \in {":", "!", "..."} -> [s EXCEPT !.w = Put(@, token, FALSE)]
      [] ~s.failed /\ token.value = "$" -> [s EXCEPT !.w = Put(@, token, before.value = ":")]
      [] ~s.failed /\ token.value = "@" ->
           [s EXCEPT !.w = Put(@, token, before # NoToken /\ before.value \notin {"(", "[", "{"})]
      [] ~s.failed /\ token.value \in {"=", "|", "&"} -> [s EXCEPT !.w = Put(@, token, TRUE)]
      [] OTHER -> PutGraphql(s, text, i)

FormatGraphql(text) ==
    LET s == FoldLeftDomain(LAMBDA done, i : GraphqlStep(done, text, i), GraphqlStart, text)
    IN Formatted(s, s.stack = <<>>)

-------------------------------------------------------------------------------
(***************************************************************************)
(* Reading a text again: tokens that stand in one line without a space     *)
(* between them may be one token to the tokenizer.                         *)
(***************************************************************************)
NameLike == {"word", "number"}

\* tokenizeSql
SqlReadsAsOne(a, b) ==
    \/ a = LineComment
    \/ a.kind \in NameLike /\ b.kind \in NameLike \cup {"string"}
    \/ a.kind = "string" /\ b.kind = "string"
    \/ a.kind = "operator" /\ b.kind \in {"operator", "comment"}
    \/ a.kind = "number" /\ b.value = "."
    \/ a.value = "." /\ (b.kind = "number" \/ b.value \in {".", ".."})

\* tokenizeGraphql; a number with a point behind it is an error there.
GraphqlReadsAsOne(a, b) ==
    \/ a.kind = "comment"
    \/ a.kind \in NameLike /\ b.kind \in NameLike
    \/ a.kind = "string" /\ b.kind = "string"
    \/ a.kind = "number" /\ b.value = "..."

\* The tokens of lines, each first one of a line but the first after a line break.
ReadAgain(lines) ==
    FlattenSeq([l \in DOMAIN lines |-> [k \in DOMAIN lines[l].pieces |->
      IF k = 1 /\ l > 1 THEN OnNewLine(lines[l].pieces[k].token)
      ELSE lines[l].pieces[k].token]])

\* The pairs of tokens that stand side by side in a line.
SideBySide(lines) ==
    UNION {{<<l, k>> : k \in 2 .. Len(lines[l].pieces)} : l \in DOMAIN lines}

Apart(lines, ReadsAsOne(_, _)) ==
    \A at \in SideBySide(lines) :
      LET pieces == lines[at[1]].pieces
          a == pieces[at[2] - 1].token
          b == pieces[at[2]].token
      IN ReadsAsOne(a, b) => pieces[at[2]].space /\ a # LineComment

-------------------------------------------------------------------------------
\* SqlFormatterTool
SubmitSql ==
    \E text \in SqlTexts, standard \in BOOLEAN :
      /\ standard \/ \A i \in DOMAIN text : text[i].value # ".."
      /\ work' = [tool |-> "sql", text |-> text, standard |-> standard,
                   made |-> FormatSql(text, standard)]

\* GraphqlFormatterTool
SubmitGraphql ==
    \E text \in GraphqlTexts :
      work' = [tool |-> "graphql", text |-> text, made |-> FormatGraphql(text)]

\* How deep the brackets of a text are open after each of its tokens.
Depths(text, open, close) ==
    [n \in 0 .. Len(text) |->
       Cardinality({i \in 1 .. n : text[i].value \in open})
       - Cardinality({i \in 1 .. n : text[i].value \in close})]

Deepest(depths) == CHOOSE d \in {depths[n] : n \in DOMAIN depths} :
                     \A n \in DOMAIN depths : depths[n] <= d

\* Is each bracket of a text closed by one of its kind?
Balanced(text) ==
    LET pairs == {<<"(", ")">>, <<"[", "]">>, <<"{", "}">>}
        open == {p[1] : p \in pairs}
        close == {p[2] : p \in pairs}
        depths == Depths(text, open, close)
    IN /\ depths[Len(text)] = 0
       /\ \A i \in DOMAIN text : text[i].value \in close =>
            \E j \in 1 .. i - 1 :
              /\ <<text[j].value, text[i].value>> \in pairs
              /\ depths[j - 1] = depths[i]
              /\ \A n \in j .. i - 1 : depths[n] > depths[i]

\* A point beside a number or another point is no SQL; it is glued to it.
LonePoint(text) ==
    \E i \in DOMAIN text :
      /\ text[i].value = "."
      /\ \/ TokenBefore(text, i).kind = "number" \/ TokenAfter(text, i).kind = "number"
         \/ TokenAfter(text, i).value \in {".", ".."}

\* Nor is a number before a spread GraphQL.
SpreadAfterNumber(text) ==
    \E i \in DOMAIN text : text[i].value = "..." /\ TokenBefore(text, i).kind = "number"

(***************************************************************************)
(* Formatted SQL is the SQL it was: it has the same tokens in the same     *)
(* order, none of them glued to the next or swallowed by a comment, and    *)
(* strings that one literal is continued in stand on lines of their own    *)
(* just where they did; formatting it again changes nothing; and it is     *)
(* refused just when its parentheses do not match or nest too deep.        *)
(* formatSql, LineWriter.                                                  *)
(***************************************************************************)
SqlKeepsTokens ==
    work.tool = "sql" =>
      LET depths == Depths(work.text, {"("}, {")"})
          bad == ~Balanced(work.text) \/ Deepest(depths) > MaxNesting
          again == ReadAgain(work.made.lines)
      IN /\ work.made.failed = bad
         /\ ~bad =>
              /\ work.made.deepest = Deepest(depths)
              /\ Unbroken(again) = Unbroken(work.text)
              /\ LonePoint(work.text) \/ Apart(work.made.lines, SqlReadsAsOne)
              /\ \A i \in DOMAIN again : ContinuesString(again, i, work.standard) =>
                   again[i].breaks = work.text[i].breaks
              /\ FormatSql(again, work.standard) = work.made

(***************************************************************************)
(* Formatted GraphQL is the document it was: the same tokens, none of them *)
(* glued to the next or swallowed by a comment; each line is indented by   *)
(* the braces open around it; and a document is refused just when its      *)
(* brackets do not match or nest too deep.  formatGraphql.                 *)
(***************************************************************************)
GraphqlKeepsTokens ==
    work.tool = "graphql" =>
      LET depths == Depths(work.text, {"(", "[", "{"}, {")", "]", "}"})
          bad == ~Balanced(work.text) \/ Deepest(depths) > MaxNesting
          braces == Depths(work.text, {"{"}, {"}"})
          lines == work.made.lines
          upTo(l) == Len(ReadAgain(SubSeq(lines, 1, l - 1)))
          closes(l) == lines[l].pieces[1].token.value = "}"
      IN /\ work.made.failed = bad
         /\ ~bad =>
              /\ work.made.deepest = Deepest(depths)
              /\ Unbroken(ReadAgain(lines)) = Unbroken(work.text)
              /\ SpreadAfterNumber(work.text) \/ Apart(lines, GraphqlReadsAsOne)
              /\ \A l \in DOMAIN lines :
                   lines[l].indent = braces[upTo(l)] - (IF closes(l) THEN 1 ELSE 0)

FormattersKeepTokens == SqlKeepsTokens /\ GraphqlKeepsTokens
=================================================================================
