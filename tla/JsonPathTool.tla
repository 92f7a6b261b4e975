----------------------------- MODULE JsonPathTool -----------------------------
(***************************************************************************)
(* The JSONPath tester of src/apps/web/src/features/tools/                 *)
(* structured-text-workbench.ts: the selectors of a path are applied one   *)
(* after the other to the nodes found so far.  A node is a value with its  *)
(* path in the document, a path a sequence of member names and indices.  A *)
(* string is a number, its place in the order of strings.                  *)
(***************************************************************************)
EXTENDS ToolWork, Integers
LOCAL INSTANCE Sequences
LOCAL INSTANCE FiniteSets
LOCAL INSTANCE SequencesExt
LOCAL INSTANCE Functions

CONSTANTS
    Documents,    \* JSON values to search
    JsonPaths,    \* sequences of selectors
    MaxVisits,    \* MAX_JSON_NODES
    MaxMatches    \* MAX_JSONPATH_MATCHES

ASSUME JsonPathAssumption == {MaxVisits, MaxMatches} \subseteq Nat

Member(name) == [name |-> name]
ElementAt(n)   == [index |-> n]

IsMember(step) == "name" \in DOMAIN step

\* What parseJsonPath tells apart.  A bound of a slice left out is <<>>.
Property(name) == [kind |-> "property", step |-> Member(name)]
Index(n)       == [kind |-> "index", step |-> ElementAt(n)]
Wildcard       == [kind |-> "wildcard"]
RecursiveProperty(name) == [kind |-> "recursive property", step |-> Member(name)]
RecursiveWildcard == [kind |-> "recursive wildcard"]
Union(items)   == [kind |-> "union", items |-> items]
SliceOf(start, end, step) == [kind |-> "slice", start |-> start, end |-> end, by |-> step]
FilterBy(path, operator, expected) ==
    [kind |-> "filter", path |-> path, operator |-> operator, expected |-> expected]

Node(value, path) == [value |-> value, path |-> path]

\* childNodes
ChildNodes(node) ==
    IF IsArray(node.value)
    THEN [i \in DOMAIN node.value.items |->
            Node(node.value.items[i], Append(node.path, ElementAt(i - 1)))]
    ELSE IF IsObject(node.value)
    THEN LET names == SetToSeq(DOMAIN node.value.of)
         IN [i \in DOMAIN names |->
               Node(node.value.of[names[i]], Append(node.path, Member(names[i])))]
    ELSE <<>>

\* All that is below a node, each node before what it holds.
RECURSIVE Descendants(_)
Descendants(node) ==
    LET children == ChildNodes(node)
    IN FlattenSeq([i \in DOMAIN children |-> <<children[i]>> \o Descendants(children[i])])

\* normalizedIndex
NormalizedIndex(index, length) == IF index < 0 THEN length + index ELSE index

Clamp(n, low, high) == IF n < low THEN low ELSE IF n > high THEN high ELSE n

\* Mutant: the default of a bound is normalised as well.
SliceBoundNormalized(bound, default, length) ==
    NormalizedIndex(IF bound = <<>> THEN default ELSE bound[1], length)

SliceBound(bound, default, length) ==
    IF bound = <<>> THEN default ELSE NormalizedIndex(bound[1], length)

\* start, start + step, ... before the end is reached.
Stride(start, end, step) ==
    LET span == IF step > 0 THEN end - start ELSE start - end
        stride == IF step > 0 THEN step ELSE -step
        count == IF span <= 0 THEN 0 ELSE ((span - 1) \div stride) + 1
    IN [k \in 1 .. count |-> start + (k - 1) * step]

\* The positions a slice selects of an array.
Slice(length, start, end, step) ==
    IF step > 0
    THEN Stride(Clamp(SliceBound(start, 0, length), 0, length),
                Clamp(SliceBound(end, length, length), 0, length), step)
    ELSE Stride(Clamp(SliceBound(start, length - 1, length), -1, length - 1),
                Clamp(SliceBound(end, -1, length), -1, length - 1), step)

\* The node one step below, as a sequence of at most one.
Below(node, step) ==
    LET i == NormalizedIndex(step.index, Len(node.value.items)) IN
    IF IsMember(step)
    THEN IF IsObject(node.value) /\ step.name \in DOMAIN node.value.of
         THEN <<Node(node.value.of[step.name], Append(node.path, step))>> ELSE <<>>
    ELSE IF IsArray(node.value) /\ i \in 0 .. Len(node.value.items) - 1
         THEN <<Node(node.value.items[i + 1], Append(node.path, ElementAt(i)))>> ELSE <<>>

\* resolveFilterValue, as a sequence of at most one node.
ResolveFilterValue(node, path) ==
    FoldLeft(LAMBDA found, step : IF found = <<>> THEN <<>> ELSE Below(found[1], step),
             <<node>>, path)

Rank(value) == IF value.kind = "number" THEN value.n ELSE value.text

Ordered(left, operator, right) ==
    CASE operator = "<" -> left < right
      [] operator = "<=" -> left <= right
      [] operator = ">" -> left > right
      [] operator = ">=" -> left >= right

\* filterMatches
FilterMatches(node, filter) ==
    LET found == ResolveFilterValue(node, filter.path)
        value == found[1].value
        comparable == value.kind = filter.expected.kind /\ value.kind \in {"number", "string"}
    IN found # <<>> /\
       CASE filter.operator = "exists" -> TRUE
         [] filter.operator = "==" -> value = filter.expected
         [] filter.operator = "!=" -> value # filter.expected
         [] OTHER -> comparable /\ Ordered(Rank(value), filter.operator, Rank(filter.expected))

\* Nodes selected, and nodes visited for them.
Found(nodes, visits) == [nodes |-> nodes, visits |-> visits]

Together(found) ==
    FoldLeft(LAMBDA sum, one : Found(sum.nodes \o one.nodes, sum.visits + one.visits),
             Found(<<>>, 0), found)

RECURSIVE SelectFrom(_, _)

\* applyJsonPathSelector, for one of the nodes.
SelectFrom(node, selector) ==
    LET kind == selector.kind
        pushed(nodes) == Found(nodes, Len(nodes))
        descendants == Descendants(node)
        named(n) == Last(n.path) = selector.step
    IN CASE kind \in {"property", "index"} -> pushed(Below(node, selector.step))
         [] kind = "wildcard" -> pushed(ChildNodes(node))
         [] kind = "recursive wildcard" -> pushed(descendants)
         [] kind = "recursive property" ->
              Found(SelectSeq(descendants, named), Len(descendants))
         [] kind = "union" ->
              Together([i \in DOMAIN selector.items |-> SelectFrom(node, selector.items[i])])
         [] kind = "slice" ->
              LET at == IF IsArray(node.value)
                        THEN Slice(Len(node.value.items), selector.start, selector.end, selector.by)
                        ELSE <<>>
              IN pushed([k \in DOMAIN at |-> Node(node.value.items[at[k] + 1],
                                                  Append(node.path, ElementAt(at[k])))])
         [] kind = "filter" ->
              Found(SelectSeq(ChildNodes(node), LAMBDA child : FilterMatches(child, selector)),
                    Len(ChildNodes(node)))

ApplyJsonPathSelector(nodes, selector) ==
    Together([i \in DOMAIN nodes |-> SelectFrom(nodes[i], selector)])

\* queryJsonPath; refused when the document, or what is visited, is too large.
QueryJsonPath(document, selectors) ==
    LET step(found, selector) ==
          LET next == ApplyJsonPathSelector(found.nodes, selector)
          IN Found(next.nodes, found.visits + next.visits)
        all == FoldLeft(step, Found(<<Node(document, <<>>)>>, 1), selectors)
        shown == IF Len(all.nodes) > MaxMatches THEN MaxMatches ELSE Len(all.nodes)
    IN IF all.visits > MaxVisits \/ Len(Descendants(Node(document, <<>>))) >= MaxVisits
       THEN [ok |-> FALSE, matches |-> <<>>, count |-> 0, visits |-> 0, truncated |-> FALSE]
       ELSE [ok |-> TRUE, matches |-> SubSeq(all.nodes, 1, shown), count |-> Len(all.nodes),
             visits |-> all.visits, truncated |-> Len(all.nodes) > MaxMatches]

\* JsonPathTesterTool
SubmitJsonPath ==
    \E document \in Documents, selectors \in JsonPaths :
      work' = [tool |-> "jsonpath", document |-> document, selectors |-> selectors,
               result |-> QueryJsonPath(document, selectors)]

-----------------------------------------------------------------------------
(***************************************************************************)
(* What a path selects, said of the document as a whole.                   *)
(***************************************************************************)
Everything(document) == <<Node(document, <<>>)>> \o Descendants(Node(document, <<>>))

\* An index may count from the end.
IsStep(parent, step, wanted) ==
    IF IsMember(wanted) THEN step = wanted
    ELSE /\ ~IsMember(step)
         /\ step.index = wanted.index \/ step.index = wanted.index + Len(parent.items)

\* Positions from the start on, in steps, up to the end.
InSlice(i, length, slice) ==
    LET at(bound) == IF bound[1] < 0 THEN length + bound[1] ELSE bound[1]
        by == slice.by
        from == IF slice.start = <<>> THEN (IF by > 0 THEN 0 ELSE length - 1)
                ELSE IF by > 0 /\ at(slice.start) < 0 THEN 0
                ELSE IF by < 0 /\ at(slice.start) >= length THEN length - 1
                ELSE at(slice.start)
    IN IF by > 0
       THEN from <= i /\ (slice.end = <<>> \/ i < at(slice.end)) /\ (i - from) % by = 0
       ELSE i <= from /\ (slice.end = <<>> \/ i > at(slice.end)) /\ (from - i) % (-by) = 0

\* The part of a path after a prefix that is a node's.
After(path, node) == SubSeq(path, Len(node.path) + 1, Len(path))

RECURSIVE Fits(_, _, _)
RECURSIVE Picks(_, _, _, _)

\* The node is reached from `from` by the selector.
Picks(all, from, node, selector) ==
    LET rest == After(node.path, from)
        child == Len(rest) = 1
        kind == selector.kind
    IN /\ IsPrefix(from.path, node.path)
       /\ CASE kind \in {"property", "index"} -> child /\ IsStep(from.value, rest[1], selector.step)
            [] kind = "wildcard" -> child
            [] kind = "recursive wildcard" -> rest # <<>>
            [] kind = "recursive property" -> rest # <<>> /\ Last(rest) = selector.step
            [] kind = "union" ->
                 \E i \in DOMAIN selector.items : Picks(all, from, node, selector.items[i])
            [] kind = "slice" ->
                 child /\ IsArray(from.value)
                 /\ InSlice(rest[1].index, Len(from.value.items), selector)
            [] kind = "filter" ->
                 child /\ \E found \in ToSet(Everything(node.value)) :
                   /\ Fits(ToSet(Everything(node.value)), found,
                           [i \in DOMAIN selector.path |->
                              [kind |-> "property", step |-> selector.path[i]]])
                   /\ LET left == found.value
                          right == selector.expected
                          same == left.kind = right.kind /\ left.kind \in {"number", "string"}
                      IN CASE selector.operator = "exists" -> TRUE
                           [] selector.operator = "==" -> left = right
                           [] selector.operator = "!=" -> left # right
                           [] OTHER -> same /\ Ordered(Rank(left), selector.operator, Rank(right))

\* The node is reached from the root by the selectors.
Fits(all, node, selectors) ==
    IF selectors = <<>> THEN node.path = <<>>
    ELSE \E from \in all : /\ Picks(all, from, node, Last(selectors))
                           /\ Fits(all, from, Front(selectors))

(***************************************************************************)
(* A path selects the nodes of the document that it describes, all of them *)
(* and no other, each under its own path and with the value found there,   *)
(* whatever indices, slices, unions, filters and recursive steps follow    *)
(* one another; what is below a selected node comes after it, and elements *)
(* of a slice come in the direction of its step.  Without recursive steps  *)
(* and unions no node is selected twice, and only too large a document is  *)
(* refused.  applyJsonPathSelector, queryJsonPath.                         *)
(***************************************************************************)
SelectionsAreRight ==
    work.tool = "jsonpath" =>
      LET all == ToSet(Everything(work.document))
          result == work.result
          once == \A i \in DOMAIN work.selectors :
                    work.selectors[i].kind \notin {"recursive property", "recursive wildcard", "union"}
          last == Last(work.selectors)
          right == {node \in all : Fits(all, node, work.selectors)}
      IN /\ once => (result.ok <=> Len(Everything(work.document)) <= MaxVisits)
         /\ result.ok =>
              /\ ToSet(result.matches) \subseteq right
              /\ result.truncated \/ right \subseteq ToSet(result.matches)
              /\ Len(result.matches) <= result.count
              /\ result.truncated <=> result.count > MaxMatches
              /\ \A l \in DOMAIN result.matches : \A k \in 1 .. l - 1 :
                   LET above == result.matches[l].path
                       below == result.matches[k].path
                   IN IsStrictPrefix(above, below) =>
                        \E j \in 1 .. k - 1 : result.matches[j].path = above
              /\ once => IsInjective(result.matches)
                         /\ result.count = Cardinality(right)
              /\ once /\ work.selectors # <<>> /\ last.kind = "slice" =>
                   \A k \in 1 .. Len(result.matches) - 1 :
                     LET here == result.matches[k].path
                         next == result.matches[k + 1].path
                     IN Front(here) = Front(next) =>
                          Last(next).index = Last(here).index + last.by
=============================================================================
