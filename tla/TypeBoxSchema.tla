---------------------------- MODULE TypeBoxSchema ----------------------------
(***************************************************************************)
(* TypeBoxSchema of src/authoring/typebox-schema.ts: the TypeBox schemas   *)
(* of an action are lowered to a small closed part of JSON Schema.         *)
(*                                                                         *)
(* A TypeBox schema is a record of its own members, with the value of its  *)
(* only symbol as kind; one with other symbols is of an unknown kind. The  *)
(* properties of an object are a function from their names, a reference is *)
(* the path to its target, and a Boolean is a schema too. What is none of  *)
(* these, or no list where a list belongs, is Malformed.                   *)
(***************************************************************************)
EXTENDS Declarations

LOCAL SE == INSTANCE SequencesExt
LOCAL FS == INSTANCE FiniteSetsExt
LOCAL FN == INSTANCE Functions

CONSTANTS
  MaxTypeNodes, MaxTypeDepth, MaxUnion,  \* 1024, 64 and 32
  Null,         \* the literal null
  Unwritable    \* a literal that JSON has no form for: no finite number, or a hole

JsonBoolean(b) == [kind |-> "None", boolean |-> b]
JsonFalse == JsonBoolean(FALSE)
IsBoolean(json) == json # Malformed /\ "boolean" \in DOMAIN json

IsText(literal) == literal \notin {Malformed, Null, Unwritable}

SumOf(Amount(_), members) == FS!MapThenSumSet(Amount, members)

\* keys(): all that is required, and nothing else but what is optional.
Keys(schema, required, optional) ==
  LET own == DOMAIN schema \ {"kind"} IN
  required \subseteq own /\ own \subseteq required \cup optional

\* Every property is required, in any order.
AllRequired(schema) ==
  IF "required" \in DOMAIN schema
  THEN /\ schema.required # Malformed
       /\ SE!IsInjective(schema.required)
       /\ FN!Range(schema.required) = DOMAIN schema.properties
  ELSE DOMAIN schema.properties = {}

ObjectSound(schema) ==
  /\ Keys(schema, {"type", "properties", "additionalProperties"}, {"required"})
  /\ schema.properties # Malformed
  /\ schema.type = "object" /\ schema.additionalProperties = JsonFalse
  /\ AllRequired(schema)

LiteralSound(schema) ==
  Keys(schema, {"type", "const"}, {}) /\ schema.type = "string" /\ IsText(schema.const)

Literals(schema) == [i \in DOMAIN schema.anyOf |-> schema.anyOf[i].const]

UnionSound(schema) ==
  /\ Keys(schema, {"anyOf"}, {"type"})
  /\ "type" \in DOMAIN schema => schema.type = "string"
  /\ schema.anyOf # Malformed /\ Len(schema.anyOf) \in 2..MaxUnion
  /\ \A i \in DOMAIN schema.anyOf :
       /\ schema.anyOf[i] # Malformed /\ schema.anyOf[i].kind = "Literal"
       /\ LiteralSound(schema.anyOf[i])
  /\ SE!IsInjective(Literals(schema))

\* The walk fails at the first node it does not take; which one that is, is left out.
RECURSIVE Sound(_, _)
Sound(schema, depth) ==
  /\ schema # Malformed /\ depth <= MaxTypeDepth
  /\ \/ /\ schema.kind = "Object"
        /\ ObjectSound(schema)
        /\ \A name \in DOMAIN schema.properties : Sound(schema.properties[name], depth + 1)
     \/ schema.kind = "Number" /\ Keys(schema, {"type"}, {}) /\ schema.type = "number"
     \/ schema.kind = "String" /\ Keys(schema, {"type"}, {}) /\ schema.type = "string"
     \/ schema.kind = "Literal" /\ LiteralSound(schema)
     \/ schema.kind = "Union" /\ UnionSound(schema) /\ depth < MaxTypeDepth

RECURSIVE TypeNodes(_)
TypeNodes(schema) ==
  IF schema.kind = "Object"
  THEN 1 + SumOf(LAMBDA name : TypeNodes(schema.properties[name]), DOMAIN schema.properties)
  ELSE IF schema.kind = "Union" THEN 1 + Len(schema.anyOf) ELSE 1

\* document() does not throw.
Lowers(schema) ==
  /\ schema # Malformed /\ schema.kind = "Object"
  /\ Sound(schema, 0) /\ TypeNodes(schema) <= MaxTypeNodes

\* Mutation of UnionValues: the last literal is lost.
UnionValues_Short(schema) == SE!Front(Literals(schema))

\* A union of literals becomes their enumeration.
UnionValues(schema) == Literals(schema)

RECURSIVE Lower(_)
Lower(schema) ==
  IF schema.kind = "Object" THEN
    LET closed == [type |-> "object", additionalProperties |-> JsonFalse,
                   properties |-> [name \in DOMAIN schema.properties |-> Lower(schema.properties[name])]] IN
    IF "required" \in DOMAIN schema
    THEN [f \in DOMAIN closed \cup {"required"} |-> IF f = "required" THEN schema.required ELSE closed[f]]
    ELSE closed
  ELSE IF schema.kind = "Union" THEN [type |-> "string", enum |-> UnionValues(schema)]
  ELSE [f \in DOMAIN schema \ {"kind"} |-> schema[f]]
-----------------------------------------------------------------------------
(***************************************************************************)
(* What a value of a declared type is, and what JSON Schema admits. A JSON *)
(* value is a record of its type and itself.                               *)
(***************************************************************************)
RECURSIVE InType(_, _)
InType(schema, value) ==
  IF schema.kind = "Object" THEN
    /\ value.type = "object" /\ DOMAIN value.of = DOMAIN schema.properties
    /\ \A name \in DOMAIN value.of : InType(schema.properties[name], value.of[name])
  ELSE IF schema.kind = "Union" THEN \E i \in DOMAIN schema.anyOf : InType(schema.anyOf[i], value)
  ELSE value.type = schema.type /\ (schema.kind = "Literal" => value.of = schema.const)

\* The value a path leads to.
RECURSIVE Located(_, _)
Located(value, path) == IF path = <<>> THEN value ELSE Located(value[Head(path)], Tail(path))

\* What holds of a value by the keywords of a schema, in a root for references;
\* other keywords say nothing.
RECURSIVE Allows(_, _, _)
Allows(root, json, value) ==
  IF IsBoolean(json) THEN json.boolean ELSE
  /\ "type" \in DOMAIN json => value.type = json.type
  /\ "const" \in DOMAIN json => value.of = json.const
  /\ "enum" \in DOMAIN json => value.of \in FN!Range(json.enum)
  /\ "anyOf" \in DOMAIN json => \E i \in DOMAIN json.anyOf : Allows(root, json.anyOf[i], value)
  /\ "$ref" \in DOMAIN json => Allows(root, Located(root, json["$ref"]), value)
  /\ value.type = "array" =>
       LET first == IF "prefixItems" \in DOMAIN json THEN DOMAIN json.prefixItems ELSE {} IN
       /\ \A i \in DOMAIN value.of \cap first : Allows(root, json.prefixItems[i], value.of[i])
       /\ "items" \in DOMAIN json =>
            \A i \in DOMAIN value.of \ first : Allows(root, json.items, value.of[i])
  /\ value.type = "object" =>
       LET known == IF "properties" \in DOMAIN json THEN DOMAIN json.properties ELSE {} IN
       /\ "required" \in DOMAIN json => FN!Range(json.required) \subseteq DOMAIN value.of
       /\ \A name \in DOMAIN value.of \cap known : Allows(root, json.properties[name], value.of[name])
       /\ "additionalProperties" \in DOMAIN json =>
            \A name \in DOMAIN value.of \ known : Allows(root, json.additionalProperties, value.of[name])

Admits(json, value) == Allows(json, json, value)
=============================================================================
