--------------------------- MODULE ActionInventory ---------------------------
(***************************************************************************)
(* OfflineActionInventory of src/authoring/offline-action-inventory.ts: a  *)
(* developer's action declarations, captured when the inventory is made,   *)
(* prepared for one base URI as a whole or not at all, with the schemas of *)
(* all actions in one resource set that judges inputs and outputs.         *)
(*                                                                         *)
(* A declaration is the error its shape or metadata has before its id, its *)
(* id, the error the rest of its metadata has, its exposure and the two    *)
(* TypeBox schemas. How objects are captured and schemas are lowered is    *)
(* given by operators, which CapturedDeclarations and SchemaLowering define.*)
(***************************************************************************)
EXTENDS SchemaResources, DataClasses

CONSTANTS
  Sources,            \* what inventories are made from: a catalog, objects and
                      \* the declarations they denote
  SourceEdits,        \* what their developer makes of them afterwards
  Spellings,          \* the base URIs prepare() is called with
  NormalBase(_),      \* what they are normalized to, or Malformed
  Samples,            \* documents handed to validateInput and validateOutput
  Capturable(_),      \* whether a heap of objects is captured
  Lowerable(_),       \* whether TypeBoxSchema.document takes a schema
  LoweredTo(_, _),    \* the document that it makes of it for a URI
  Admitted(_, _),     \* whether the engine finds that a schema admits a value
  MaxDeclarations,    \* 8
  NoInventory

VARIABLES
  source,       \* what the developer has
  kept,         \* #dataClasses and #declarations
  inventory,    \* #prepared, with #base
  answer,       \* what the last prepare() that returned was asked, and returned
  judged        \* the last document that was judged

authored == <<source, kept, inventory, answer, judged>>
-----------------------------------------------------------------------------
(***************************************************************************)
(* The documents an action is lowered to.                                  *)
(***************************************************************************)
Bases == {NormalBase(spelling) : spelling \in Spellings} \ {Malformed}

\* encodeURIComponent and URL resolution keep names apart.
Derived(base, id, direction) == <<base, id, direction>>

\* The developer's objects denote values, and a lowered schema is a document.
ASSUME AuthoringAssumption == \A s \in Sources :
  /\ CatalogValue(s.classes)
  /\ s.list \in Seq({s.list[i] : i \in DOMAIN s.list}) /\ s.list # Malformed
  /\ \A i \in DOMAIN s.list : LET d == s.list[i] IN d.form = "none" =>
       /\ ExposureValue(d.exposure)
       /\ \A base \in Bases :
            /\ Lowerable(d.input) => MeasuredDocument(LoweredTo(Derived(base, d.id, "input"), d.input))
            /\ Lowerable(d.output) => MeasuredDocument(LoweredTo(Derived(base, d.id, "output"), d.output))
  /\ MaxDeclarations \in Nat

\* Mutation of Staged: both directions get one schema.
Staged_OneSchema(base, d) ==
  [input |-> [uri |-> Derived(base, d.id, "input"), document |-> LoweredTo(Derived(base, d.id, "input"), d.input)],
   output |-> [uri |-> Derived(base, d.id, "output"), document |-> LoweredTo(Derived(base, d.id, "output"), d.input)]]

Staged(base, d) ==
  [input |-> [uri |-> Derived(base, d.id, "input"), document |-> LoweredTo(Derived(base, d.id, "input"), d.input)],
   output |-> [uri |-> Derived(base, d.id, "output"), document |-> LoweredTo(Derived(base, d.id, "output"), d.output)]]
-----------------------------------------------------------------------------
(***************************************************************************)
(* prepare()                                                               *)
(***************************************************************************)
DeclarationError(names, sum, d) ==
  IF d.form # "none" THEN d.form
  ELSE FirstError(<<
    <<d.id = Malformed, "invalid_action_id">>,
    <<d.metadata # "none", d.metadata>>,
    <<ExposureError(names, d.exposure) # "none", ExposureError(names, d.exposure)>>,
    <<d.id \in DOMAIN sum.actions, "duplicate_action_id">>,
    <<~ Lowerable(d.input), "unsupported_action_schema">>,
    <<~ Lowerable(d.output), "unsupported_action_schema">> >>)

\* A declaration is refused with an error, or is collected with its resources.
Gather(sum, error, d, s) ==
  IF error # "none" THEN [sum EXCEPT !.error = error]
  ELSE [error |-> "none",
        documents |-> Append(sum.documents, [id |-> d.id, exposure |-> d.exposure]),
        resources |-> sum.resources \o <<s.input, s.output>>,
        actions |-> [id \in DOMAIN sum.actions \cup {d.id} |->
                       IF id = d.id
                       THEN [input |-> s.input.uri, inputHash |-> s.input.document.hash, output |-> s.output.uri]
                       ELSE sum.actions[id]]]

NothingDeclared == [error |-> "none", documents |-> <<>>, resources |-> <<>>, actions |-> <<>>]

\* One turn of the loop.
Declare(names, base, sum, d) ==
  IF sum.error # "none" THEN sum
  ELSE Gather(sum, DeclarationError(names, sum, d), d, Staged(base, d))

\* What is collected after each number of turns.
Declares(names, base, list) ==
  LET after[i \in 0..Len(list)] ==
        IF i = 0 THEN NothingDeclared ELSE Declare(names, base, after[i-1], list[i]) IN
  after

\* The walk over the captured declarations, and the set of their schemas.
Declared(capture, base) ==
  LET list == capture.list
      error == IF list = Malformed THEN "authoring_capture_invalid"
               ELSE IF Len(list) > MaxDeclarations THEN "schema_resource_count_limit"
               ELSE CatalogError(capture.classes) IN
  IF error # "none" THEN [NothingDeclared EXCEPT !.error = error]
  ELSE LET sum == Declares(Names(capture.classes), base, list)[Len(list)] IN
       IF sum.error # "none" THEN sum
       ELSE [sum EXCEPT !.error = Preparation(sum.resources).error]

\* What prepare() would throw for a base it accepts.
InventoryError(capture, base) == Declared(capture, base).error

Prepared(base, sum) ==
  [base |-> base, documents |-> sum.documents, resources |-> sum.resources,
   actions |-> sum.actions, schemas |-> Preparation(sum.resources).staged]

\* The constructor captures what it is given.
Keep(s) ==
  [classes |-> s.classes, list |-> IF Capturable(s.heap) THEN s.list ELSE Malformed]

AuthoringInit ==
  /\ source \in Sources
  /\ kept = Keep(source)
  /\ inventory = NoInventory /\ answer = NoInventory /\ judged = NoInventory

\* The developer goes on using the objects.
EditSource ==
  /\ source' \in SourceEdits
  /\ UNCHANGED <<kept, inventory, answer, judged>>

PrepareInventory(spelling) ==
  LET base == NormalBase(spelling) IN
  /\ inventory = NoInventory
  /\ base # Malformed
  /\ InventoryError(kept, base) = "none"
  /\ inventory' = Prepared(base, Declared(kept, base))
  /\ answer' = [spelling |-> spelling, returned |-> inventory']
  /\ UNCHANGED <<source, kept, judged>>

\* Mutation of SameBase: any base is answered.
SameBase_Any(spelling) == NormalBase(spelling) # Malformed

\* Otherwise schema_base_uri_changed.
SameBase(spelling) == NormalBase(spelling) = inventory.base

PrepareAgain(spelling) ==
  /\ inventory # NoInventory
  /\ SameBase(spelling)
  /\ answer' = [spelling |-> spelling, returned |-> inventory]
  /\ UNCHANGED <<source, kept, inventory, judged>>
-----------------------------------------------------------------------------
(***************************************************************************)
(* The prepared inventory                                                  *)
(***************************************************************************)
\* The engine, once it runs, tells what the schema admits from what it does not.
Answers(document, sample) ==
  LET codes == ValidationErrors(document, sample) IN
  IF codes # Engine THEN codes
  ELSE {"schema_engine_failure",
        IF Admitted(document.schema, sample.value) THEN "none" ELSE "schema_instance_invalid"}

Judge(id, direction, uri, sample) ==
  /\ \E code \in Answers(inventory.schemas[uri], sample) :
       judged' = [id |-> id, direction |-> direction, sample |-> sample, error |-> code]
  /\ UNCHANGED <<source, kept, inventory, answer>>

\* Inputs are judged by the very schema whose hash the action declares.
ValidateInput(id, sample) ==
  LET action == inventory.actions[id] IN
  /\ inventory.schemas[action.input].hash = action.inputHash
  /\ Judge(id, "input", action.input, sample)

ValidateOutput(id, sample) == Judge(id, "output", inventory.actions[id].output, sample)

AuthoringNext ==
  \/ EditSource
  \/ \E spelling \in Spellings : PrepareInventory(spelling) \/ PrepareAgain(spelling)
  \/ inventory # NoInventory /\ \E id \in DOMAIN inventory.actions, sample \in Samples :
       ValidateInput(id, sample) \/ ValidateOutput(id, sample)

AuthoringSpec == AuthoringInit /\ [][AuthoringNext]_authored
-----------------------------------------------------------------------------
(***************************************************************************)
(* Properties                                                              *)
(***************************************************************************)
Ids(list) == {list[i].id : i \in DOMAIN list}
Declaration(list, id) == list[CHOOSE i \in DOMAIN list : list[i].id = id]

\* The inputs and outputs of a list of actions, one after the other.
Directed(pairs) == SQ!FlattenSeq([i \in DOMAIN pairs |-> <<pairs[i].input, pairs[i].output>>])

ResourcesOf(base, list) == Directed([i \in DOMAIN list |-> Staged(base, list[i])])

\* Sound declarations of distinct actions over a whole catalog, whose schemas
\* keep the limits of one resource set together.
AdmissibleSource(capture, base) ==
  LET list == capture.list IN
  /\ list # Malformed /\ Len(list) <= MaxDeclarations
  /\ WholeCatalog(capture.classes)
  /\ \A i \in DOMAIN list : LET d == list[i] IN
       /\ d.form = "none" /\ d.id # Malformed /\ d.metadata = "none"
       /\ IsExposure(Names(capture.classes), d.exposure)
       /\ Lowerable(d.input) /\ Lowerable(d.output)
       /\ \A j \in DOMAIN list : list[j].id = d.id => j = i
  /\ Admissible(ResourcesOf(base, list))

InventoryOf(base, list) ==
  [base |-> base, ids |-> Ids(list), schemas |-> View(ResourcesOf(base, list))]

Inventories(capture) ==
  {InventoryOf(base, capture.list) : base \in {b \in Bases : AdmissibleSource(capture, b)}}

Retained ==
  IF inventory = NoInventory THEN NoInventory
  ELSE [base |-> inventory.base, ids |-> DOMAIN inventory.actions, schemas |-> inventory.schemas]

\* Whoever asks for a base gets documents for that base or none at all, also
\* under another spelling, and after other bases were asked for or refused.
AnswersForBase ==
  answer # NoInventory =>
    \A id \in DOMAIN answer.returned.actions : LET action == answer.returned.actions[id] IN
      \A uri \in {action.input, action.output} :
        uri[1] = NormalBase(answer.spelling)

\* An inventory is prepared from what was captured, whole, for one base, and
\* stays what it is, whatever becomes of the developer's objects.
PI == INSTANCE PrepareOnce WITH
        Values <- Inventories, captured <- kept, retained <- Retained, Nothing <- NoInventory

PreparesOneInventory == PI!POSpec /\ []AnswersForBase

\* No inventory that keeps all the rules is ever refused.
SoundSourcesPrepared ==
  inventory = NoInventory => \A base \in Bases :
    AdmissibleSource(kept, base) => InventoryError(kept, base) = "none"

\* Nothing sound is refused, neither an inventory nor a set of resources.
RefusalsAreJustified == RefusalsJustified /\ SoundSourcesPrepared

=============================================================================
