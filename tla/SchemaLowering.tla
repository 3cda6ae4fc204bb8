---------------------------- MODULE SchemaLowering ----------------------------
(***************************************************************************)
(* The documents that TypeBox schemas become, with the counts and weights  *)
(* that SchemaQualification finds in them: TypeBoxSchema of the package,   *)
(* and the prototype of experiments/offline-action-authoring, which lowers *)
(* only the unions it knows and leaves every other keyword to the          *)
(* qualification.                                                          *)
(*                                                                         *)
(* The prototype takes schemas with members that are not enumerable: the   *)
(* member hidden is the set of them, <<keyword>> or <<keyword, name>>.     *)
(* Names and literal texts have the length one.                            *)
(***************************************************************************)
EXTENDS TypeBoxSchema, FiniteSets

LOCAL SE == INSTANCE SequencesExt
LOCAL GR == INSTANCE Graphs

CONSTANTS
  MaxNodes, SupportedKeywords,    \* of SchemaQualification
  MaxSchemaNodes, MaxSchemaDepth  \* 1024 and 64, of the prototype

Has(schema, keyword) == keyword \in DOMAIN schema

Maps == {"properties", "$defs"}

Hidden(schema) == IF Has(schema, "hidden") THEN schema.hidden ELSE {}

\* Object.keys of a schema, and of one of its maps.
Enumerable(schema) ==
  {keyword \in DOMAIN schema \ {"kind", "hidden"} : <<keyword>> \notin Hidden(schema)}

Shown(schema, map) == {name \in DOMAIN schema[map] : <<map, name>> \notin Hidden(schema)}

\* Every walk over schemas goes the same steps.
Steps(schema) ==
  IF schema = Malformed \/ IsBoolean(schema) THEN {}
  ELSE LET present == {keyword \in DOMAIN schema : schema[keyword] # Malformed} IN
    UNION {{<<map, name>> : name \in Shown(schema, map)} : map \in Maps \cap present}
      \cup {<<"prefixItems", i>> : i \in IF "prefixItems" \in present THEN DOMAIN schema.prefixItems ELSE {}}
      \cup {<<keyword>> : keyword \in {"items", "additionalProperties"} \cap DOMAIN schema}

Children(schema) == [step \in Steps(schema) |-> Located(schema, step)]

EveryChild(schema, Holds(_)) == \A step \in Steps(schema) : Holds(Children(schema)[step])

SumOfChildren(schema, Amount(_)) == SumOf(LAMBDA step : Amount(Children(schema)[step]), Steps(schema))

\* A copy with other children; what a map hides is not copied.
WithChildren(schema, New(_)) ==
  [keyword \in DOMAIN schema |->
     IF keyword \in Maps /\ schema[keyword] # Malformed
     THEN [name \in Shown(schema, keyword) |-> New(schema[keyword][name])]
     ELSE IF keyword = "prefixItems" /\ schema.prefixItems # Malformed
     THEN [i \in DOMAIN schema.prefixItems |-> New(schema.prefixItems[i])]
     ELSE IF keyword \in {"items", "additionalProperties"} THEN New(schema[keyword])
     ELSE schema[keyword]]
-----------------------------------------------------------------------------
(***************************************************************************)
(* lowerSupportedUnions                                                    *)
(***************************************************************************)
IsUnion(schema) == Has(schema, "anyOf") /\ schema.kind = "Union"

\* Members that are not enumerable are not looked for, but read.
LiteralFits(member) ==
  /\ member # Malformed /\ member.kind = "Literal"
  /\ Enumerable(member) = {"const", "type"}
  /\ member.type = "string" /\ IsText(member.const)

\* Mutation of UnionFits: the type of a union is not looked at.
UnionFits_AnyType(schema) ==
  /\ Enumerable(schema) \subseteq {"anyOf", "type"}
  /\ schema.anyOf # Malformed /\ Len(schema.anyOf) \in 2..MaxUnion
  /\ \A i \in DOMAIN schema.anyOf : LiteralFits(schema.anyOf[i])
  /\ SE!IsInjective(Literals(schema))

UnionFits(schema) ==
  /\ Enumerable(schema) \subseteq {"anyOf", "type"}
  /\ Has(schema, "type") => schema.type = "string"
  /\ schema.anyOf # Malformed /\ Len(schema.anyOf) \in 2..MaxUnion
  /\ \A i \in DOMAIN schema.anyOf : LiteralFits(schema.anyOf[i])
  /\ SE!IsInjective(Literals(schema))

RECURSIVE UnionsFit(_)
UnionsFit(schema) ==
  IF schema = Malformed THEN TRUE
  ELSE IF IsUnion(schema) THEN UnionFits(schema)
  ELSE EveryChild(schema, LAMBDA child : UnionsFit(child))

\* What visit() counts, and how deep it gets: the name in a map is a level too.
RECURSIVE Expanded(_)
Expanded(schema) ==
  IF schema = Malformed \/ IsUnion(schema) THEN 1
  ELSE 1 + SumOfChildren(schema, LAMBDA child : Expanded(child))

RECURSIVE WithinDepth(_, _)
WithinDepth(schema, depth) ==
  /\ depth <= MaxSchemaDepth
  /\ schema = Malformed \/ IsUnion(schema) \/ \A step \in Steps(schema) :
       WithinDepth(Children(schema)[step], depth + IF step[1] \in Maps THEN 2 ELSE 1)

\* The walk fails at the first node it does not take; which one that is, is left out.
LoweringError(schema) ==
  IF ~ UnionsFit(schema) THEN "unsupported_action_union"
  ELSE IF Expanded(schema) > MaxSchemaNodes \/ ~ WithinDepth(schema, 0)
  THEN "action_schema_complexity_exceeded" ELSE "none"

RECURSIVE LowerUnions(_)
LowerUnions(schema) ==
  IF schema = Malformed \/ IsBoolean(schema) THEN schema
  ELSE IF IsUnion(schema) THEN [kind |-> "None", type |-> "string", enum |-> UnionValues(schema)]
  ELSE WithChildren(schema, LAMBDA child : LowerUnions(child))
-----------------------------------------------------------------------------
(***************************************************************************)
(* validateSchemaShape and validateNestedObjects, which see hidden members *)
(***************************************************************************)
IsObject(json) == json # Malformed /\ Has(json, "type") /\ json.type = "object"

ClosedObject(json) ==
  /\ Has(json, "additionalProperties") /\ json.additionalProperties = JsonFalse
  /\ Has(json, "properties") /\ json.properties # Malformed

RECURSIVE NestedClosed(_)
NestedClosed(json) ==
  (IsObject(json) => ClosedObject(json)) /\ EveryChild(json, LAMBDA child : NestedClosed(child))

MisshapenRoot(json) ==
  IF ~ (IsObject(json) /\ ClosedObject(json)) THEN "action_schema_must_be_closed_object"
  ELSE IF Has(json, "$schema") \/ Has(json, "$id") THEN "unsupported_action_schema_metadata"
  ELSE IF ~ NestedClosed(json) THEN "action_schema_must_be_closed_object" ELSE "none"

\* A schema that is not lowered has no shape.
ShapeError(schema) ==
  IF LoweringError(schema) = "none" THEN MisshapenRoot(LowerUnions(schema)) ELSE "none"

\* JSON.stringify: what is hidden is lost, and what has no form becomes null.
JsonLiteral(literal) == IF literal = Unwritable THEN Null ELSE literal

RECURSIVE Serialized(_)
Serialized(schema) ==
  IF schema = Malformed \/ IsBoolean(schema) THEN schema
  ELSE LET json == WithChildren(schema, LAMBDA child : Serialized(child)) IN
    [keyword \in Enumerable(schema) |->
       IF keyword = "const" THEN JsonLiteral(json.const)
       ELSE IF keyword = "enum" /\ json.enum # Malformed
       THEN [i \in DOMAIN json.enum |-> JsonLiteral(json.enum[i])]
       ELSE json[keyword]]
-----------------------------------------------------------------------------
(***************************************************************************)
(* The qualification of a document. Subschemas are known by their paths.   *)
(***************************************************************************)
\* #visit, #visitMap, #visitArray and #weight find keywords they know, in form.
RECURSIVE Known(_)
Known(json) ==
  /\ json # Malformed
  /\ IsBoolean(json) \/ /\ DOMAIN json \subseteq SupportedKeywords
                        /\ \A keyword \in (Maps \cup {"prefixItems", "required", "enum", "$ref"}) \cap DOMAIN json :
                             json[keyword] # Malformed
  /\ EveryChild(json, LAMBDA child : Known(child))

RECURSIVE Places(_)
Places(json) ==
  {<<>>} \cup UNION {{step \o place : place \in Places(Children(json)[step])} : step \in Steps(json)}

References(root) ==
  {place \in Places(root) : ~ IsBoolean(Located(root, place)) /\ Has(Located(root, place), "$ref")}

\* What a subschema is evaluated with: its children, but definitions only where
\* they are referred to.
Applied(root, place) ==
  {place \o step : step \in {s \in Steps(Located(root, place)) : s[1] # "$defs"}}

Targets(root, place) ==
  IF place \in References(root) THEN {Located(root, place)["$ref"]} ELSE {}

Evaluating(root, place) == Applied(root, place) \cup Targets(root, place)

Circular(root) ==
  LET graph == [node |-> Places(root),
                edge |-> UNION {{<<p, q>> : q \in Evaluating(root, p)} : p \in Places(root)}] IN
  \E e \in graph.edge : GR!ConnectionsIn(graph)[e[2], e[1]]

\* Its limits on one document other than of nodes are SchemaQualification's.
Qualification(json) ==
  IF ~ Known(json) THEN "schema_keyword_unsupported"
  ELSE IF Cardinality(Places(json)) > MaxNodes THEN "schema_node_limit"
  ELSE IF \E p \in References(json) : Located(json, p)["$ref"] \notin Places(json)
  THEN "schema_reference_target_unsupported"
  ELSE IF References(json) # {} /\ Circular(json) THEN "schema_reference_cycle" ELSE "none"

LiteralUnits(literal) == IF literal = Null THEN 1 ELSE 2

SimpleAssertions == {"type", "properties", "additionalProperties", "items", "prefixItems"}

\* #weight of one subschema.
OwnWeight(json) ==
  IF IsBoolean(json) THEN 1
  ELSE 1 + Cardinality(SimpleAssertions \cap DOMAIN json)
         + (IF Has(json, "required") THEN 2 * Len(json.required) ELSE 0)
         + (IF Has(json, "properties") THEN Cardinality(DOMAIN json.properties) ELSE 0)
         + (IF Has(json, "enum") THEN 1 + SumOf(LAMBDA i : LiteralUnits(json.enum[i]), DOMAIN json.enum) ELSE 0)
         + (IF Has(json, "const") THEN LiteralUnits(json.const) ELSE 0)

\* #expansion: what is a child and a target is evaluated twice.
RECURSIVE Weight(_, _)
Weight(root, place) ==
  OwnWeight(Located(root, place))
    + SumOf(LAMBDA p : Weight(root, p), Applied(root, place))
    + SumOf(LAMBDA p : Weight(root, p), Targets(root, place))

RECURSIVE Reached(_, _)
Reached(root, place) == {place} \cup UNION {Reached(root, p) : p \in Evaluating(root, place)}

\* The engine is strict: it takes keywords of objects and of arrays only next to
\* their type, and requires only properties that are declared, each once.
Compiles(root) ==
  \A place \in Reached(root, <<>>) : LET json == Located(root, place) IN IsBoolean(json) \/
    /\ {"properties", "required", "additionalProperties"} \cap DOMAIN json # {} =>
         Has(json, "type") /\ json.type = "object"
    /\ {"items", "prefixItems"} \cap DOMAIN json # {} => Has(json, "type") /\ json.type = "array"
    /\ Has(json, "required") =>
         /\ SE!IsInjective(json.required)
         /\ SE!ToSet(json.required) \subseteq IF Has(json, "properties") THEN DOMAIN json.properties ELSE {}

\* A document is as long as it has subschemas; one that does not qualify is not
\* weighed.
Qualified(uri, json, nodes) ==
  [form |-> "schema", id |-> {uri}, bytes |-> nodes, qualification |-> "none",
   nodes |-> nodes, references |-> Cardinality(References(json)), weight |-> Weight(json, <<>>),
   compiles |-> Compiles(json), hash |-> <<uri, json>>, schema |-> json]

Unqualified(uri, json, error) ==
  [form |-> "schema", id |-> {uri}, bytes |-> 1, qualification |-> error,
   nodes |-> 1, references |-> 0, weight |-> 1, compiles |-> FALSE, hash |-> <<uri, json>>, schema |-> json]

DocumentOf(uri, json, error) ==
  IF error = "none" THEN Qualified(uri, json, Cardinality(Places(json))) ELSE Unqualified(uri, json, error)

SchemaDocument(uri, json) == DocumentOf(uri, json, Qualification(json))

\* The package's document of a schema, and the prototype's.
Lowered(uri, schema) == SchemaDocument(uri, Lower(schema))

Written(uri, schema) == SchemaDocument(uri, Serialized(LowerUnions(schema)))
=============================================================================
