----------------------------- MODULE ContractTypes -----------------------------
(***************************************************************************)
(* Answers of the API as contracts: a contract says for each path into an  *)
(* answer which values may stand there.  A path names the fields from the  *)
(* outside in; "[]" stands for any element of a list.                      *)
(*                                                                         *)
(* A value is a pair: its form, and what the two sides tell apart of it.   *)
(* A value that another part of the same answer determines is written as   *)
(* what determines it, so that the side that computes it and the side that *)
(* checks it can be compared.                                              *)
(***************************************************************************)
EXTENDS Integers, Sequences, TLC

Null      == <<"null", 0>>
Undefined == <<"undefined", 0>>   \* a field that is not there
Object    == <<"object", 0>>

SizeOf(list)      == <<"size of", list>>          \* how many elements a list has
PlaceIn(list)     == <<"place in", list>>         \* where an element stands, from 0
NoLessThan(field) == <<"no less than", field>>    \* a number at least another one
SameAs(field)     == <<"same as", field>>         \* what stands in another field
PathTo(field)     == <<"path to", field>>         \* the address of what a field names
OtherThan(field)  == <<"other than", field>>      \* a number that is not another one
Those(list, kind) == <<"those", <<list, kind>>>>  \* how many elements are of a kind

Words(S)    == {"word"} \X S
Nullable(T) == T \cup {Null}
Optional(T) == T \cup {Undefined}

-------------------------------------------------------------------------------
\* What the program of the site calls a string, a number and so on.
Derived     == {"size of", "place in", "no less than", "same as", "other than"} \X STRING
               \cup {"those"} \X (STRING \X STRING)
Count       == {"number"} \X Nat \cup Derived
NonNegative == {"number", "between"} \X Nat \cup Derived  \* "between": up to the next
Integer     == {"number"} \X Int \cup Derived
Number      == {"number", "between"} \X Int \cup Derived
Positive    == {"number"} \X (Nat \ {0})
HttpStatus  == {"number"} \X (100 .. 599)
Boolean     == {"boolean"} \X BOOLEAN
Text        == {"word", "format", "same as", "path to"} \X STRING
               \cup {"text", "wide text"} \X Nat  \* "wide": no letter is a single code unit
Lists       == {"list", "list with repeats"} \X Nat
PublicUrl   == {<<"format", "URL without query">>}
Timestamp   == {<<"format", "timestamp">>}
Uuid        == {<<"format", "UUID">>}
Origin      == {<<"format", "origin">>}

\* A text of so many code units, and a list of so many elements.
boundedString(m, n) == {"text"} \X (m .. n)
Between(m, n)       == {"list", "list with repeats"} \X (m .. n)

-------------------------------------------------------------------------------
\* What the models of the API allow, from both ends of each range.
Many         == 2000000000
Ints(m, n)   == {"number"} \X {m, n}
Counts       == Ints(0, Many)
Positives    == Ints(1, Many)
HttpStatuses == Ints(100, 599)
Floats(m, n) == {<<"number", m>>, <<"between", m>>, <<"number", n>>}
Booleans     == {"boolean"} \X BOOLEAN
Texts        == {<<"text", 0>>, <<"text", Many>>}
Timestamps   == {<<"format", "timestamp">>}
RedactedUrls == {<<"format", "URL without query">>}
Sizes(m, n)  == {"list"} \X {m, n}
Chars(m, n)  == {"text"} \X {m, n} \cup {<<"wide text", n>>}

-------------------------------------------------------------------------------
\* Contracts are put together from parts with @@: what stands first counts.
Under(path, C) ==
    [p \in {path \o q : q \in DOMAIN C} |-> C[SubSeq(p, Len(path) + 1, Len(p))]]

Fields(names, T)      == [p \in {<<name>> : name \in names} |-> T]
Part(name, C)         == Fields({name}, {Object}) @@ Under(<<name>>, C)
NullablePart(name, C) == Fields({name}, {Object, Null}) @@ Under(<<name>>, C)

\* A field that may be missing.
OptionalPart(name, C) ==
    Fields({name}, {Object, Null, Undefined}) @@ Under(<<name>>, C)

ListsOf(names, T) ==
    Fields(names, Lists) @@ [p \in {<<name, "[]">> : name \in names} |-> T]

ListOf(name, C) ==
    Fields({name}, Lists) @@ (<<name, "[]">> :> {Object}) @@ Under(<<name, "[]">>, C)

\* Lists with bounds of their own on their sizes.
SizedLists(names, sizes, T) == Fields(names, sizes) @@ ListsOf(names, T)
SizedList(name, sizes, C)   == Fields({name}, sizes) @@ ListOf(name, C)

\* Mappings from any names to values.
MappingsOf(names, T) ==
    Fields(names, {Object}) @@ [p \in {<<name, "[]">> : name \in names} |-> T]

Contract(version) == Fields({"contract_version"}, Words({version}))

\* There are no fields but these.
Exactly(C) == C @@ (<<"*">> :> {})

\* A contract without some of its fields.
Without(C, names) == [p \in {q \in DOMAIN C : q[1] \notin names} |-> C[p]]

\* Some fields of a contract, with what is below them, under other names.
Renamed(C, names) ==
    LET below(name) == {q \in DOMAIN C : q[1] = names[name]}
    IN  [p \in UNION {{<<name>> \o Tail(q) : q \in below(name)} : name \in DOMAIN names}
           |-> C[<<names[p[1]]>> \o Tail(p)]]

\* What a contract says below a path.
Below(C, path) ==
    LET inside == {p \in DOMAIN C : Len(p) > Len(path) /\ SubSeq(p, 1, Len(path)) = path}
    IN  [p \in {SubSeq(q, Len(path) + 1, Len(q)) : q \in inside} |-> C[path \o p]]

\* A contract that does not look into the lists at some paths.
Unread(C, lists) ==
    [p \in DOMAIN C \ UNION {{l \o q : q \in DOMAIN Below(C, l)} : l \in lists} |-> C[p]]
===============================================================================
