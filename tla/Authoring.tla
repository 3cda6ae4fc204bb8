------------------------------- MODULE Authoring -------------------------------
(***************************************************************************)
(* Everything that an author of actions meets: the inventory of the        *)
(* package and the catalog of its prototype, with the capture of objects   *)
(* and the lowering of schemas they are built on, resource sets, data      *)
(* classes and JSON texts. The objects share nothing but the code: each    *)
(* makes the catalog and the resource set it needs itself.                 *)
(***************************************************************************)
EXTENDS ActionCatalog, SchemaLowering, CapturedDeclarations, JsonText

\* A document is judged by the declared TypeBox type of its action and direction
\* and by nothing else, through lowering, hashes, URIs and the shared set.
JudgedAsDeclared ==
  judged # NoInventory =>
    LET d == Declaration(kept.list, judged.id)
        type == IF judged.direction = "input" THEN d.input ELSE d.output IN
    /\ judged.error = "none" => InType(type, judged.sample.value)
    /\ judged.error = "schema_instance_invalid" => ~ InType(type, judged.sample.value)

\* What is captured keeps every bound, and what is well within them is captured;
\* so does the prototype's copy, which takes more.
CapturesExactly == CaptureExact(FALSE, source.heap) /\ CaptureExact(TRUE, source.heap)

\* Nothing of a schema is hidden, and it has no literal without a form in JSON.
RECURSIVE WrittenPlainly(_)
WrittenPlainly(schema) ==
  schema = Malformed \/
    /\ Hidden(schema) = {}
    /\ Has(schema, "const") => schema.const # Unwritable
    /\ Has(schema, "enum") /\ schema.enum # Malformed =>
         \A i \in DOMAIN schema.enum : schema.enum[i] # Unwritable
    /\ Has(schema, "anyOf") /\ schema.anyOf # Malformed =>
         \A i \in DOMAIN schema.anyOf : WrittenPlainly(schema.anyOf[i])
    /\ EveryChild(schema, LAMBDA child : WrittenPlainly(child))

\* The prototype's documents are judged as JSON Schema understands the TypeBox
\* schema its developer wrote: lowering its unions, wherever they are, changes
\* nothing. This says nothing of schemas that are not written plainly: the copy
\* takes them, and JSON.stringify then drops what is hidden and writes null for
\* what has no form, so that they may judge otherwise than written.
CheckedAsWritten ==
  checked # NoInventory =>
    LET d == Declaration(held.list, checked.id)
        schema == IF checked.direction = "input" THEN d.input ELSE d.output IN
    WrittenPlainly(schema) =>
      /\ checked.error = "none" => Admits(schema, checked.sample.value)
      /\ checked.error = "schema_instance_invalid" => ~ Admits(schema, checked.sample.value)

\* A schema that both entry points take is the same document, with the same hash.
LoweredAlike ==
  \A i \in DOMAIN held.list : LET d == held.list[i] IN
    d \notin {Foreign, Malformed} => \A schema \in {d.input, d.output} :
      Lowers(schema) /\ LoweringError(schema) = "none" /\ ShapeError(schema) = "none" =>
        Serialized(LowerUnions(schema)) = Lower(schema)

\* Documents are judged by the schema declared for their action and direction,
\* and by nothing else, on both entry points (of the prototype's, where the
\* schema is written plainly).
JudgedBySchema == JudgedAsDeclared /\ CheckedAsWritten /\ LoweredAlike

\* What comes in from outside is bounded: developers' objects and JSON texts.
BoundsAreExact == CapturesExactly /\ TextsExact
=============================================================================
