-------------------------------- MODULE XmlTool --------------------------------
(***************************************************************************)
(* The XML formatter of src/apps/web/src/features/tools/                   *)
(* structured-data-utilities.ts.  A document is a sequence of tags, texts, *)
(* comments, CDATA sections and processing instructions; what is inside of *)
(* one of them is told apart only where it makes a difference.             *)
(***************************************************************************)
EXTENDS ToolWork, Integers
LOCAL INSTANCE Sequences
LOCAL INSTANCE FiniteSets
LOCAL INSTANCE SequencesExt
LOCAL INSTANCE Functions

CONSTANTS
    XmlTexts,     \* documents to format
    MaxXmlDepth,  \* MAX_DEPTH
    MaxXmlNodes   \* MAX_XML_NODES

ASSUME XmlAssumption == {MaxXmlDepth, MaxXmlNodes} \subseteq Nat

\* A tag; an attribute is [name, value].
OpenTag(name, attributes) == [t |-> "open", name |-> name, attributes |-> attributes]
SelfTag(name, attributes) == [t |-> "self", name |-> name, attributes |-> attributes]
CloseTag(name) == [t |-> "close", name |-> name]
\* text: "blank", "solid", or "fault" for a text with an unknown entity or ]]>.
XmlText(text) == [t |-> "text", text |-> text]
BlankText    == XmlText("blank")
Comment  == [t |-> "comment"]
Cdata    == [t |-> "cdata"]
Instruction == [t |-> "pi"]
Declaration == [t |-> "declaration"]
\* A construct that is not closed, not allowed, or not well formed.
Mangled  == [t |-> "mangled"]

\* An element: what its start tag says, and its children in order.
Element(tag, children) ==
    [t |-> "element", name |-> tag.name, attributes |-> tag.attributes,
     self |-> tag.t = "self", children |-> children]

IsElement(node) == node.t = "element"
IsText(node)    == node.t = "text"
IsBlank(node)   == node = BlankText

\* parseStartTag: values with < or an unknown entity, and names used twice.
AttributesOK(attributes) ==
    /\ \A i \in DOMAIN attributes : attributes[i].value # "fault"
    /\ \A i, j \in DOMAIN attributes : attributes[i].name = attributes[j].name => i = j

-----------------------------------------------------------------------------
(***************************************************************************)
(* The scanner of validateAndFormatXml.  A frame of the stack is an open   *)
(* element with the children it has so far; the lowest frame is the        *)
(* document.                                                               *)
(***************************************************************************)
ScanStart == [stack |-> <<[tag |-> NoWork, children |-> <<>>]>>, faults |-> 0, nodes |-> 0,
              elements |-> 0, attributes |-> 0, depth |-> 0, roots |-> 0]

Open(s) == Len(s.stack) - 1

Fault(s, is) == [s EXCEPT !.faults = IF is THEN @ + 1 ELSE @]

\* append: past the limit a node is dropped.
AppendNode(s, node) ==
    IF s.nodes >= MaxXmlNodes THEN Fault([s EXCEPT !.nodes = @ + 1], TRUE)
    ELSE [s EXCEPT !.nodes = @ + 1, !.stack[Len(s.stack)].children = Append(@, node)]

\* A start tag counts before it is pushed or, if it closes itself, appended.
Counted(s, tag) ==
    [s EXCEPT !.elements = @ + 1, !.attributes = @ + Len(tag.attributes),
              !.roots = IF Open(s) = 0 THEN @ + 1 ELSE @]

PushTag(s, tag) ==
    LET pushed == [s EXCEPT !.stack = Append(@, [tag |-> tag, children |-> <<>>]),
                            !.nodes = @ + 1]
    IN Fault([pushed EXCEPT !.depth = IF Open(pushed) > @ THEN Open(pushed) ELSE @],
             Open(pushed) > MaxXmlDepth \/ pushed.nodes > MaxXmlNodes)

PopTag(s, name) ==
    IF Open(s) = 0 THEN Fault(s, TRUE)
    ELSE LET frame == Last(s.stack)
             below == Front(s.stack)
         IN Fault([s EXCEPT !.stack = [below EXCEPT ![Len(below)].children =
                                         Append(@, Element(frame.tag, frame.children))]],
                  frame.tag.name # name)

Scan(s, token, i) ==
    CASE token.t = "open" -> PushTag(Fault(Counted(s, token), ~AttributesOK(token.attributes)), token)
      [] token.t = "self" -> AppendNode(Fault(Counted(s, token), ~AttributesOK(token.attributes)),
                                        Element(token, <<>>))
      [] token.t = "close" -> PopTag(s, token.name)
      [] token.t = "text" ->
           AppendNode(Fault(s, token.text = "fault" \/ (Open(s) = 0 /\ ~IsBlank(token))), token)
      [] token.t = "cdata" -> AppendNode(Fault(s, Open(s) = 0), token)
      [] token.t = "declaration" -> AppendNode(Fault(s, i # 1), token)
      [] token.t \in {"comment", "pi"} -> AppendNode(s, token)
      [] token.t = "mangled" -> Fault(s, TRUE)

ParseXml(tokens) ==
    LET end == FoldLeftDomain(LAMBDA s, i : Scan(s, tokens[i], i), ScanStart, tokens)
    IN [valid |-> end.faults = 0 /\ Open(end) = 0 /\ end.roots = 1,
        nodes |-> end.stack[1].children,
        elements |-> end.elements, attributes |-> end.attributes, depth |-> end.depth]

-----------------------------------------------------------------------------
\* A double quote inside a value becomes an entity.
Escaped(attributes) ==
    [i \in DOMAIN attributes |->
       [attributes[i] EXCEPT !.value = IF @ = "quote" THEN "escaped quote" ELSE @]]

StartTag(node) == OpenTag(node.name, Escaped(node.attributes))

\* compactXml
RECURSIVE CompactXml(_)
CompactXml(node) ==
    IF ~IsElement(node) THEN <<node>>
    ELSE IF node.self THEN <<SelfTag(node.name, Escaped(node.attributes))>>
    ELSE <<StartTag(node)>>
         \o FlattenSeq([i \in DOMAIN node.children |-> CompactXml(node.children[i])])
         \o <<CloseTag(node.name)>>

\* Mutant: only text makes the content of an element one that is kept.
KeptOnOneLineLoosely(node) == \A i \in DOMAIN node.children : IsText(node.children[i])

\* formatXmlNode: mixed content and text stay on one line.
KeptOnOneLine(node) ==
    LET children == ToSet(node.children)
    IN \/ \A child \in children : IsText(child)
       \/ \E child \in children : IsText(child) /\ ~IsBlank(child)

\* formatXmlNode: the lines of a node, without their indent.
RECURSIVE FormatXmlNode(_)
FormatXmlNode(node) ==
    IF IsText(node) THEN IF IsBlank(node) THEN <<>> ELSE <<<<node>>>>
    ELSE IF ~IsElement(node) \/ KeptOnOneLine(node) THEN <<CompactXml(node)>>
    ELSE <<<<StartTag(node)>>>>
         \o FlattenSeq([i \in DOMAIN node.children |-> FormatXmlNode(node.children[i])])
         \o <<<<CloseTag(node.name)>>>>

\* The lines joined: a line break and an indent are a blank text.
FormatXml(nodes) ==
    LET lines == FlattenSeq([i \in DOMAIN nodes |-> FormatXmlNode(nodes[i])])
    IN FlattenSeq([i \in DOMAIN lines |-> (IF i = 1 THEN <<>> ELSE <<BlankText>>) \o lines[i]])

\* validateAndFormatXml
ValidateAndFormatXml(tokens) ==
    LET parsed == ParseXml(tokens)
    IN [valid |-> parsed.valid,
        formatted |-> IF parsed.valid THEN FormatXml(parsed.nodes) ELSE <<>>,
        elements |-> parsed.elements, attributes |-> parsed.attributes, depth |-> parsed.depth]

\* XmlFormatterValidatorTool
SubmitXml ==
    \E tokens \in XmlTexts :
      work' = [tool |-> "xml", tokens |-> tokens, result |-> ValidateAndFormatXml(tokens)]

-----------------------------------------------------------------------------
\* What is meant by a node: blanks do not count beside elements, unless
\* there is other text too.
RECURSIVE Meaning(_)
Meaning(nodes) ==
    LET kept == IF \E i \in DOMAIN nodes : IsText(nodes[i]) /\ ~IsBlank(nodes[i]) THEN nodes
                ELSE IF \A i \in DOMAIN nodes : IsText(nodes[i]) THEN nodes
                ELSE SelectSeq(nodes, LAMBDA node : ~IsBlank(node))
    IN [i \in DOMAIN kept |->
          IF IsElement(kept[i])
          THEN [kept[i] EXCEPT !.attributes = Escaped(@), !.children = Meaning(@)]
          ELSE kept[i]]

(***************************************************************************)
(* A document is found valid only if its tags are balanced by name, with   *)
(* one of them outermost; formatting it then keeps its elements, their     *)
(* attributes, and the text of mixed content; the result is valid again    *)
(* and formatting that changes nothing, unless its blanks are too many     *)
(* nodes.  (Blanks are put beside a CDATA section that has no text next to *)
(* it.)  validateAndFormatXml.                                             *)
(***************************************************************************)
XmlKeepsMeaning ==
    LET again == SelectSeq(work.result.formatted, LAMBDA token : token.t # "close")
    IN work.tool = "xml" /\ work.result.valid =>
      LET before == ParseXml(work.tokens)
          after == ParseXml(work.result.formatted)
          tags(kind) == {i \in DOMAIN work.tokens : work.tokens[i].t = kind}
      IN /\ Len(again) <= MaxXmlNodes =>
              /\ after.valid
              /\ Meaning(after.nodes) = Meaning(before.nodes)
              /\ FormatXml(after.nodes) = work.result.formatted
              /\ <<after.elements, after.attributes, after.depth>>
                   = <<work.result.elements, work.result.attributes, work.result.depth>>
         \* every start tag has its end tag: the first one that leaves
         \* as many ended as started since
         /\ Cardinality(tags("open")) = Cardinality(tags("close"))
         /\ \A i \in tags("open") :
              LET level(k) == Cardinality({j \in tags("open") : i <= j /\ j <= k})
                              - Cardinality({j \in tags("close") : i <= j /\ j <= k})
                  ends == {k \in tags("close") : k > i /\ level(k) = 0}
              IN \E k \in ends : /\ \A l \in ends : k <= l
                                 /\ work.tokens[k].name = work.tokens[i].name
=============================================================================
