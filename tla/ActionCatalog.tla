---------------------------- MODULE ActionCatalog ----------------------------
(***************************************************************************)
(* The prototype of experiments/offline-action-authoring: definitions of   *)
(* actions that copy their declaration when they are made, and a catalog   *)
(* of them that is prepared for one base. Unlike the inventory of the      *)
(* package it lowers only the unions it knows, and leaves every other      *)
(* keyword to the qualification of the documents that come out.            *)
(*                                                                         *)
(* A declaration is as in ActionInventory; a TypeBox schema may have any   *)
(* members, and the exposure is as it is serialized. A definition knows    *)
(* its declaration, or is Malformed when the copy failed; an entry of the  *)
(* list that is no definition is Foreign. What is copied is given by an    *)
(* operator of CapturedDeclarations; what is said of a schema, and the     *)
(* document that is made of it, by operators of SchemaLowering.            *)
(***************************************************************************)
EXTENDS ActionInventory

CONSTANTS
  AllowLists,         \* a catalog text and a list of definitions being made
  OfferEdits,         \* what the caller makes of its list afterwards
  Copyable(_),        \* whether snapshotDeclaration copies a heap of objects
  Unlowered(_),       \* the error of lowering a schema, or "none"
  Misshapen(_),       \* the error of its shape once it is lowered, or "none"
  WrittenTo(_, _),    \* the document that is made of it for a URI
  Foreign

VARIABLES
  offer,       \* the caller's data classes and definitions
  held,        \* #dataClasses and #definitions
  catalog,     \* #prepared, with #preparedBaseUri
  reply,       \* what the last prepare() that returned was asked, and returned
  checked      \* the last document that was checked

catalogued == <<offer, held, catalog, reply, checked>>

Fit(schema) == Unlowered(schema) = "none" /\ Misshapen(schema) = "none"

\* The definitions denote values, and a schema without an error is a document.
ASSUME CatalogueAssumption == \A o \in AllowLists :
  /\ CatalogValue(o.classes)
  /\ o.list \in Seq({o.list[i] : i \in DOMAIN o.list})
  /\ \A i \in DOMAIN o.list : o.list[i] # Foreign => LET d == o.list[i].declaration IN
       /\ ExposureValue(d.exposure)
       /\ \A base \in Bases :
            /\ Fit(d.input) => MeasuredDocument(WrittenTo(Derived(base, d.id, "input"), d.input))
            /\ Fit(d.output) => MeasuredDocument(WrittenTo(Derived(base, d.id, "output"), d.output))

-----------------------------------------------------------------------------
(***************************************************************************)
(* OfflineActionDefinition                                                 *)
(***************************************************************************)
\* The constructor copies, and keeps nothing when the copy fails.
Define(entry) ==
  IF entry = Foreign THEN Foreign
  ELSE IF Copyable(entry.heap) THEN entry.declaration ELSE Malformed

NoId == ""

IdOf(definition) == IF definition = Malformed THEN NoId ELSE definition.id

DefinitionError(definition) ==
  IF definition = Malformed THEN "invalid_action_definition"
  ELSE FirstError(<<
    <<definition.form # "none", definition.form>>,
    <<definition.id = Malformed, "invalid_action_id">>,
    <<definition.metadata # "none", definition.metadata>>,
    <<Unlowered(definition.input) # "none", Unlowered(definition.input)>>,
    <<Unlowered(definition.output) # "none", Unlowered(definition.output)>>,
    <<Misshapen(definition.input) # "none", Misshapen(definition.input)>>,
    <<Misshapen(definition.output) # "none", Misshapen(definition.output)>> >>)

WrittenFor(uri, schema) == [uri |-> uri, document |-> WrittenTo(uri, schema)]

\* Mutation of FragmentOf: the documents change places.
FragmentOf_Swapped(base, d) ==
  [input |-> WrittenFor(Derived(base, d.id, "input"), d.output),
   output |-> WrittenFor(Derived(base, d.id, "output"), d.input)]

FragmentOf(base, d) ==
  [input |-> WrittenFor(Derived(base, d.id, "input"), d.input),
   output |-> WrittenFor(Derived(base, d.id, "output"), d.output)]
-----------------------------------------------------------------------------
(***************************************************************************)
(* OfflineActionCatalog                                                    *)
(***************************************************************************)
EntryRefusal(names, sum, definition) ==
  IF definition = Foreign THEN "invalid_action_definition"
  ELSE IF IdOf(definition) \in DOMAIN sum.actions THEN "duplicate_action_id"
  ELSE IF DefinitionError(definition) # "none" THEN DefinitionError(definition)
  ELSE IF ExposureError(names, definition.exposure) # "none" THEN ExposureError(names, definition.exposure)
  ELSE "none"

\* One turn of the loop over the allow-list.
Collect(names, base, sum, definition) ==
  IF sum.error # "none" THEN sum
  ELSE Gather(sum, EntryRefusal(names, sum, definition), definition, FragmentOf(base, definition))

Collects(names, base, list) ==
  LET after[i \in 0..Len(list)] ==
        IF i = 0 THEN NothingDeclared ELSE Collect(names, base, after[i-1], list[i]) IN
  after

Collected(capture, base) ==
  LET list == capture.list IN
  IF CatalogError(capture.classes) # "none"
  THEN [NothingDeclared EXCEPT !.error = CatalogError(capture.classes)]
  ELSE LET sum == Collects(Names(capture.classes), base, list)[Len(list)] IN
       IF sum.error # "none" THEN sum
       ELSE [sum EXCEPT !.error = Preparation(sum.resources).error]

\* The definitions are made, and the catalog copies their list.
OfferInit ==
  /\ offer \in AllowLists
  /\ held = [classes |-> offer.classes, list |-> [i \in DOMAIN offer.list |-> Define(offer.list[i])]]
  /\ catalog = NoInventory /\ reply = NoInventory /\ checked = NoInventory

EditOffer ==
  /\ offer' \in OfferEdits
  /\ UNCHANGED <<held, catalog, reply, checked>>

\* Mutation of PrepareCatalog: what was collected before a refusal is retained.
PrepareCatalog_Partial(spelling) ==
  LET base == NormalBase(spelling) IN
  /\ catalog = NoInventory
  /\ base # Malformed
  /\ catalog' = Prepared(base, Collected(held, base))
  /\ reply' = [spelling |-> spelling, returned |-> catalog']
  /\ UNCHANGED <<offer, held, checked>>

PrepareCatalog(spelling) ==
  LET base == NormalBase(spelling) IN
  /\ catalog = NoInventory
  /\ base # Malformed
  /\ Collected(held, base).error = "none"
  /\ catalog' = Prepared(base, Collected(held, base))
  /\ reply' = [spelling |-> spelling, returned |-> catalog']
  /\ UNCHANGED <<offer, held, checked>>

\* Otherwise schema_base_uri_changed.
AnswerAgain(spelling) ==
  /\ catalog # NoInventory
  /\ NormalBase(spelling) = catalog.base
  /\ reply' = [spelling |-> spelling, returned |-> catalog]
  /\ UNCHANGED <<offer, held, catalog, checked>>

Check(id, direction, uri, sample) ==
  /\ \E code \in Answers(catalog.schemas[uri], sample) :
       checked' = [id |-> id, direction |-> direction, sample |-> sample, error |-> code]
  /\ UNCHANGED <<offer, held, catalog, reply>>

\* validateSelectedSchema of an input and of an output
CheckInput(id, sample) ==
  LET action == catalog.actions[id] IN
  /\ catalog.schemas[action.input].hash = action.inputHash
  /\ Check(id, "input", action.input, sample)

CheckOutput(id, sample) == Check(id, "output", catalog.actions[id].output, sample)

CatalogueNext ==
  \/ EditOffer
  \/ \E spelling \in Spellings : PrepareCatalog(spelling) \/ AnswerAgain(spelling)
  \/ catalog # NoInventory /\ \E id \in DOMAIN catalog.actions, sample \in Samples :
       CheckInput(id, sample) \/ CheckOutput(id, sample)

CatalogueSpec == OfferInit /\ [][CatalogueNext]_catalogued
-----------------------------------------------------------------------------
(***************************************************************************)
(* Properties                                                              *)
(***************************************************************************)
FragmentsOf(base, list) == Directed([i \in DOMAIN list |-> FragmentOf(base, list[i])])

\* Definitions of distinct actions, sound by themselves, whose documents pass as
\* one set.
SoundOffer(capture, base) ==
  LET list == capture.list IN
  /\ WholeCatalog(capture.classes)
  /\ \A i \in DOMAIN list : LET d == list[i] IN
       /\ d # Foreign /\ d # Malformed
       /\ d.form = "none" /\ d.id # Malformed /\ d.metadata = "none"
       /\ IsExposure(Names(capture.classes), d.exposure)
       /\ Fit(d.input) /\ Fit(d.output)
       /\ \A j \in DOMAIN list : list[j] \notin {Foreign, Malformed} /\ list[j].id = d.id => j = i
  /\ Admissible(FragmentsOf(base, list))

CatalogOf(base, list) ==
  [base |-> base, ids |-> Ids(list), schemas |-> View(FragmentsOf(base, list))]

Catalogs(capture) ==
  {CatalogOf(base, capture.list) : base \in {b \in Bases : SoundOffer(capture, b)}}

Published ==
  IF catalog = NoInventory THEN NoInventory
  ELSE [base |-> catalog.base, ids |-> DOMAIN catalog.actions, schemas |-> catalog.schemas]

\* A reply is for the base it was asked for, in any of its spellings.
ReplyForBase ==
  reply # NoInventory =>
    \A id \in DOMAIN reply.returned.actions : LET action == reply.returned.actions[id] IN
      \A uri \in {action.input, action.output} : uri[1] = NormalBase(reply.spelling)

\* An allow-list is prepared whole, for one base, from what its definitions
\* copied and the catalog retained, and stays what it is.
PC == INSTANCE PrepareOnce WITH
        Values <- Catalogs, captured <- held, retained <- Published, Nothing <- NoInventory

PreparesOneCatalog == PC!POSpec /\ []ReplyForBase

\* Both entry points prepare once and whole: the inventory of the package and the
\* catalog of its prototype, whatever becomes of what they were made from and
\* whichever bases they are asked for in between.
ActionsPreparedOnce == PreparesOneInventory /\ PreparesOneCatalog

\* No sound allow-list is refused.
SoundOffersPrepared ==
  catalog = NoInventory => \A base \in Bases :
    SoundOffer(held, base) => Collected(held, base).error = "none"

\* Nothing sound is refused: no inventory, catalog or set of resources.
NothingSoundRefused == RefusalsAreJustified /\ SoundOffersPrepared

=============================================================================
