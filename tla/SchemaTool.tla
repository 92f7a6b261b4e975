------------------------------ MODULE SchemaTool ------------------------------
(***************************************************************************)
(* The JSON Schema validator of src/apps/web/src/features/tools/           *)
(* structured-data-utilities.ts.  A JSON value is a record with its kind;  *)
(* a schema is a JSON value.  Numbers are counted in halves, so that some  *)
(* are not integers; a $ref is the path of its pointer, or NoPointer.      *)
(***************************************************************************)
EXTENDS ToolWork, Integers
LOCAL INSTANCE Sequences
LOCAL INSTANCE FiniteSets
LOCAL INSTANCE SequencesExt
LOCAL INSTANCE FiniteSetsExt

CONSTANTS
    Instances,       \* JSON values to validate
    Schemas,         \* JSON values to validate them against
    MaxSchemaDepth,  \* MAX_DEPTH
    MaxErrors        \* MAX_ERRORS

ASSUME SchemaAssumption == {MaxSchemaDepth, MaxErrors} \subseteq Nat \ {0}

Pointer(p) == [kind |-> "string", path |-> p]
NoPointer  == [kind |-> "string", path |-> <<"remote">>, remote |-> TRUE]

\* schema[keyword]
Says(schema, keyword) == keyword \in DOMAIN schema.of

\* A keyword with an argument of the kind its check asks for.
SaysA(schema, keyword, kind) ==
    Says(schema, keyword) /\ schema.of[keyword].kind = kind

\* schemaTypeMatches
SchemaTypeMatches(value, type) ==
    \/ type = value.kind
    \/ type = "integer" /\ value.kind = "number" /\ value.n % 2 = 0

TypesOf(argument) == IF IsArray(argument) THEN ToSet(argument.items) ELSE {argument}

(***************************************************************************)
(* collectSchemaMetadata: whether it finds nothing wrong with the schema   *)
(* itself.  Only what is reached through the keywords it follows is seen.  *)
(***************************************************************************)
Combinators == {"allOf", "anyOf", "oneOf"}
Counts == {"minItems", "maxItems", "minProperties", "maxProperties"}
Limits == {"minimum", "maximum", "exclusiveMinimum", "exclusiveMaximum", "multipleOf"}
TypeNames == {"null", "boolean", "object", "array", "number", "integer", "string"}

\* The argument of a keyword is of the kind the keyword takes.
ArgumentOK(keyword, argument) ==
    CASE keyword = "type" ->
           /\ TypesOf(argument) # {}
           /\ \A type \in TypesOf(argument) :
                type.kind = "string" /\ type.text \in TypeNames
      [] keyword \in {"required", "enum"} \cup Combinators -> IsArray(argument)
      [] keyword \in {"properties", "$defs"} -> IsObject(argument)
      [] keyword \in Counts ->
           argument.kind = "number" /\ argument.n >= 0 /\ argument.n % 2 = 0
      [] keyword = "multipleOf" -> argument.kind = "number" /\ argument.n > 0
      [] keyword \in Limits \ {"multipleOf"} -> argument.kind = "number"
      [] keyword \in {"items", "additionalProperties", "not"} ->
           argument.kind \in {"boolean", "object"}
      [] keyword = "uniqueItems" -> argument.kind = "boolean"
      [] keyword = "$ref" -> argument.kind = "string"
      [] OTHER -> TRUE

\* The schemas a keyword leads to.
Subschemas(keyword, argument) ==
    CASE keyword \in {"properties", "$defs"} /\ IsObject(argument) ->
           {argument.of[key] : key \in DOMAIN argument.of}
      [] keyword \in {"items", "additionalProperties", "not"}
           /\ argument.kind \in {"boolean", "object"} -> {argument}
      [] keyword \in Combinators /\ IsArray(argument) -> ToSet(argument.items)
      [] OTHER -> {}

RECURSIVE SchemaSound(_, _)
SchemaSound(schema, depth) ==
    /\ depth <= MaxSchemaDepth
    /\ \/ schema.kind = "boolean"
       \/ /\ IsObject(schema)
          /\ \A keyword \in DOMAIN schema.of :
               /\ ArgumentOK(keyword, schema.of[keyword])
               /\ \A child \in Subschemas(keyword, schema.of[keyword]) :
                    SchemaSound(child, depth + 1)

\* resolveLocalReference, one segment: UndefinedValue past the end of an array.
Segment(current, segment) ==
    IF IsArray(current)
    THEN IF segment + 1 \in DOMAIN current.items THEN current.items[segment + 1] ELSE UndefinedValue
    ELSE current.of[segment]

Resolves(current, segment) ==
    \/ IsArray(current) /\ segment \in Nat
    \/ IsObject(current) /\ segment \in DOMAIN current.of

\* <<>> when the reference is refused, <<what it names>> when not.
ResolveLocalReference(root, pointer) ==
    IF "remote" \in DOMAIN pointer THEN <<>>
    ELSE FoldLeft(LAMBDA at, segment :
                    IF at # <<>> /\ Resolves(at[1], segment)
                    THEN <<Segment(at[1], segment)>> ELSE <<>>,
                  <<root>>, pointer.path)

-----------------------------------------------------------------------------
(***************************************************************************)
(* validateAgainstSchema: how many errors it adds for a value at a place   *)
(* of the instance.  active holds the references being followed, each with *)
(* the place it is followed at.                                            *)
(***************************************************************************)
One(condition) == IF condition THEN 1 ELSE 0

Bound(schema, keyword) == schema.of[keyword].n

\* The checks of one kind of value that need no other schema.
NumberErrors(value, schema) ==
    LET fails(keyword, Test(_)) ==
            One(SaysA(schema, keyword, "number") /\ Test(Bound(schema, keyword)))
    IN IF value.kind # "number" THEN 0
       ELSE fails("minimum", LAMBDA n : value.n < n)
            + fails("maximum", LAMBDA n : value.n > n)
            + fails("exclusiveMinimum", LAMBDA n : value.n <= n)
            + fails("exclusiveMaximum", LAMBDA n : value.n >= n)
            + fails("multipleOf", LAMBDA n : n > 0 /\ value.n % n # 0)

\* minItems and maxItems, minProperties and maxProperties.
SizeErrors(size, schema, least, most) ==
    One(SaysA(schema, least, "number") /\ 2 * size < Bound(schema, least))
    + One(SaysA(schema, most, "number") /\ 2 * size > Bound(schema, most))

RepeatErrors(items, schema) ==
    One(/\ SaysA(schema, "uniqueItems", "boolean") /\ schema.of["uniqueItems"].is
        /\ \E i, j \in DOMAIN items : i < j /\ items[i] = items[j])

RequiredErrors(value, schema) ==
    IF ~SaysA(schema, "required", "array") THEN 0
    ELSE Cardinality({i \in DOMAIN schema.of["required"].items :
                        schema.of["required"].items[i].text \notin DOMAIN value.of})

ValueErrors(value, schema) ==
    One(/\ SaysA(schema, "enum", "array")
        /\ value \notin ToSet(schema.of["enum"].items))
    + One(Says(schema, "const") /\ schema.of["const"] # value)

\* The schema a property is validated against, if any.
PropertySchema(schema, key) ==
    IF SaysA(schema, "properties", "object") /\ key \in DOMAIN schema.of["properties"].of
    THEN schema.of["properties"].of[key]
    ELSE IF Says(schema, "additionalProperties")
    THEN schema.of["additionalProperties"]
    ELSE Bool(TRUE)

\* Mutant: a combinator is content when one branch fits.
BranchesFitLoosely(keyword, matches, branches) ==
    IF keyword = "allOf" THEN matches = branches ELSE matches >= 1

BranchesFit(keyword, matches, branches) ==
    CASE keyword = "allOf" -> matches = branches
      [] keyword = "anyOf" -> matches >= 1
      [] keyword = "oneOf" -> matches = 1

RECURSIVE CountErrors(_, _, _, _, _, _)

\* $ref: the other keywords beside it are checked too.
ReferenceErrors(root, value, schema, at, active, depth) ==
    LET reference == <<schema.of["$ref"], at>>
        target == ResolveLocalReference(root, schema.of["$ref"])
    IN IF ~SaysA(schema, "$ref", "string") THEN 0
       ELSE IF reference \in active \/ target = <<>> THEN 1
       ELSE CountErrors(root, value, target[1], at, active \cup {reference}, depth + 1)

\* allOf, anyOf, oneOf and not: errors of a branch stay with the branch.
BranchErrors(root, value, schema, at, active, depth) ==
    LET fits(branch) == CountErrors(root, value, branch, at, active, depth + 1) = 0
        fails(keyword) ==
          LET branches == schema.of[keyword].items
          IN /\ SaysA(schema, keyword, "array")
             /\ ~BranchesFit(keyword, Cardinality({i \in DOMAIN branches : fits(branches[i])}),
                             Len(branches))
    IN Cardinality({keyword \in Combinators : fails(keyword)})
       + One(Says(schema, "not") /\ fits(schema.of["not"]))

\* The members of an object and the items of an array.
MemberErrors(root, value, schema, at, active, depth) ==
    LET inside(member, child, key) ==
            CountErrors(root, member, child, Append(at, key), active, depth + 1)
    IN CASE IsObject(value) ->
              SizeErrors(Cardinality(DOMAIN value.of), schema, "minProperties", "maxProperties")
              + RequiredErrors(value, schema)
              + MapThenSumSet(
                  LAMBDA key : inside(value.of[key], PropertySchema(schema, key), key),
                  DOMAIN value.of)
         [] IsArray(value) ->
              SizeErrors(Len(value.items), schema, "minItems", "maxItems")
              + RepeatErrors(value.items, schema)
              + IF Says(schema, "items")
                THEN MapThenSumSet(LAMBDA i : inside(value.items[i], schema.of["items"], i),
                                   DOMAIN value.items)
                ELSE 0
         [] OTHER -> NumberErrors(value, schema)

TypeFits(value, schema) ==
    Says(schema, "type") =>
      \E type \in TypesOf(schema.of["type"]) : SchemaTypeMatches(value, type.text)

CountErrors(root, value, schema, at, active, depth) ==
    CASE depth > MaxSchemaDepth -> 1
      [] depth <= MaxSchemaDepth /\ schema.kind = "boolean" -> One(~schema.is)
      [] depth <= MaxSchemaDepth /\ IsObject(schema) ->
           ReferenceErrors(root, value, schema, at, active, depth)
           + IF ~TypeFits(value, schema) THEN 1
             ELSE ValueErrors(value, schema)
                  + BranchErrors(root, value, schema, at, active, depth)
                  + MemberErrors(root, value, schema, at, active, depth)
      [] OTHER -> 0

\* validateJsonSchema; addValidationError keeps no more than MaxErrors.
ValidateJsonSchema(value, schema) ==
    LET found == CountErrors(schema, value, schema, <<>>, {}, 0)
    IN IF ~SchemaSound(schema, 0)
       THEN [valid |-> FALSE, sound |-> FALSE, errors |-> 0, truncated |-> FALSE]
       ELSE [valid |-> found = 0, sound |-> TRUE,
             errors |-> IF found > MaxErrors THEN MaxErrors ELSE found,
             truncated |-> found > MaxErrors]

\* JsonSchemaValidatorTool
SubmitSchema ==
    \E value \in Instances, schema \in Schemas :
      work' = [tool |-> "schema", value |-> value, schema |-> schema,
               result |-> ValidateJsonSchema(value, schema)]

-----------------------------------------------------------------------------
(***************************************************************************)
(* What a schema demands, keyword by keyword and in no order: seen holds   *)
(* the references followed since the value was reached, and one that leads *)
(* back to itself there is never met.                                      *)
(***************************************************************************)
RECURSIVE Conforms(_, _, _, _)

Meets(root, value, schema, keyword, seen) ==
    LET argument == schema.of[keyword]
        fits(s) == Conforms(root, value, s, seen)
        within(inner, s) == Conforms(root, inner, s, {})
        named == IF SaysA(schema, "properties", "object")
                 THEN DOMAIN schema.of["properties"].of ELSE {}
        far == IF value.n < 0 THEN -value.n ELSE value.n
        size == IF IsObject(value) THEN Cardinality(DOMAIN value.of)
                ELSE IF IsArray(value) THEN Len(value.items) ELSE 0
    IN
    CASE keyword = "type" ->
           \E type \in TypesOf(argument) : SchemaTypeMatches(value, type.text)
      [] keyword = "$ref" ->
           LET target == ResolveLocalReference(root, argument)
           IN /\ target # <<>> /\ argument \notin seen
              /\ Conforms(root, value, target[1], seen \cup {argument})
      [] keyword = "const" -> value = argument
      [] keyword = "enum" -> \E i \in DOMAIN argument.items : argument.items[i] = value
      [] keyword = "not" -> ~fits(argument)
      [] keyword = "allOf" -> \A i \in DOMAIN argument.items : fits(argument.items[i])
      [] keyword = "anyOf" -> \E i \in DOMAIN argument.items : fits(argument.items[i])
      [] keyword = "oneOf" ->
           \E i \in DOMAIN argument.items :
             /\ fits(argument.items[i])
             /\ \A j \in DOMAIN argument.items : fits(argument.items[j]) => j = i
      [] keyword = "items" /\ IsArray(value) ->
           \A i \in DOMAIN value.items : within(value.items[i], argument)
      [] keyword = "properties" /\ IsObject(value) ->
           \A key \in named \cap DOMAIN value.of : within(value.of[key], argument.of[key])
      [] keyword = "additionalProperties" /\ IsObject(value) ->
           \A key \in DOMAIN value.of \ named : within(value.of[key], argument)
      [] keyword = "required" /\ IsObject(value) ->
           \A i \in DOMAIN argument.items : argument.items[i].text \in DOMAIN value.of
      [] keyword = "minItems" /\ IsArray(value) -> 2 * size >= argument.n
      [] keyword = "maxProperties" /\ IsObject(value) -> 2 * size <= argument.n
      [] keyword = "uniqueItems" /\ IsArray(value) ->
           argument.is => \A i, j \in DOMAIN value.items : value.items[i] = value.items[j] => i = j
      [] keyword = "minimum" /\ value.kind = "number" -> value.n >= argument.n
      [] keyword = "exclusiveMaximum" /\ value.kind = "number" -> value.n < argument.n
      [] keyword = "multipleOf" /\ value.kind = "number" ->
           \E k \in 0 .. far : k * argument.n = far
      [] OTHER -> TRUE

Conforms(root, value, schema, seen) ==
    \/ schema.kind \notin {"boolean", "object"}
    \/ schema = Bool(TRUE)
    \/ /\ IsObject(schema)
       /\ \A keyword \in DOMAIN schema.of : Meets(root, value, schema, keyword, seen)

(***************************************************************************)
(* The verdict on a value is what the schema demands, although the         *)
(* validator stops at a wrong type, counts errors of all branches, stops   *)
(* at references that lead back and caps what it reports; and it gives no  *)
(* verdict on a schema it finds wrong.  (A reference to something that is  *)
(* no schema is passed over.)  validateJsonSchema, validateAgainstSchema.  *)
(***************************************************************************)
SchemaVerdictIsRight ==
    work.tool = "schema" =>
      IF work.result.sound
      THEN /\ work.result.valid = Conforms(work.schema, work.value, work.schema, {})
           /\ work.result.errors <= MaxErrors
           /\ work.result.truncated => ~work.result.valid
      ELSE ~work.result.valid /\ work.result.errors = 0
=============================================================================
