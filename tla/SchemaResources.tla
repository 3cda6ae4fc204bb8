--------------------------- MODULE SchemaResources ---------------------------
(***************************************************************************)
(* OfflineSchemaResources of src/offline-schema-resources.ts: a set of     *)
(* host-supplied schemas that is prepared as a whole or not at all, the    *)
(* exact-key resolution of its members, and the bound on the work one      *)
(* evaluation of an instance may cost.                                     *)
(*                                                                         *)
(* A schema document is what the checks tell apart: its size, whether it   *)
(* parses to a Draft 2020-12 object, the set of its $id, what              *)
(* SchemaQualification says of it (its counts and weight, or an error),    *)
(* and the hash of its canonical content.                                  *)
(***************************************************************************)
EXTENDS Naturals, Sequences, Checks

CONSTANTS
  Uri,          \* the strings that validResourceUri accepts
  Lists,        \* the arrays handed to the constructor
  Edits,        \* what their owner makes of such an array afterwards
  Instances,    \* the documents handed to validate
  Hashes,       \* the digests handed to resolveInput
  MaxResources, MaxResourceBytes, MaxAggregateBytes,
  MaxAggregateNodes, MaxAggregateReferences,
  MaxInstanceBytes, MaxInstanceNodes, MaxInstanceDepth, MaxInstanceWork,
  NoSet,        \* the set is not prepared
  NoPin,        \* resolved without a hash
  NoHandle      \* nothing resolved yet

\* What the engine may answer: it may also fail.
Engine == {"none", "schema_instance_invalid", "schema_engine_failure"}

\* Sizes and counts are lengths, and a document that qualifies weighs something.
MeasuredDocument(d) ==
  /\ {d.bytes, d.nodes, d.references} \subseteq Nat
  /\ d.qualification = "none" => d.weight \in Nat \ {0}
  /\ d.form # "none"

Measured(list) ==
  /\ list \in Seq({list[i] : i \in DOMAIN list})
  /\ \A i \in DOMAIN list : MeasuredDocument(list[i].document)

\* No error is called "none", and that of a text is none of the engine's.
ASSUME ResourcesAssumption ==
  /\ \A l \in Lists : Measured(l)
  /\ \A instance \in Instances :
       /\ {instance.bytes, instance.nodes, instance.depth, instance.text} \subseteq Nat
       /\ instance.form \notin Engine \cup {"schema_instance_work_limit"}
  /\ {MaxResources, MaxResourceBytes, MaxAggregateBytes, MaxAggregateNodes,
      MaxAggregateReferences, MaxInstanceBytes, MaxInstanceNodes, MaxInstanceDepth,
      MaxInstanceWork} \subseteq Nat

VARIABLES
  listed,       \* the caller's array
  captured,     \* #resources
  prepared,     \* #prepared
  refusal,      \* what the last refused prepare() threw
  handle,       \* the last schema resolved
  validation    \* the last call of validate

resources == <<listed, captured, prepared, refusal, handle, validation>>

NotCalled == [error |-> "not called"]

\* The constructor looks at one entry more than it will ever accept.
Capture(list) ==
  SubSeq(list, 1, IF Len(list) > MaxResources THEN MaxResources + 1 ELSE Len(list))

ResourcesInit ==
  /\ listed \in Lists
  /\ captured = Capture(listed)
  /\ prepared = NoSet
  /\ refusal = "none"
  /\ handle = NoHandle
  /\ validation = NotCalled

\* The caller goes on using the array.
EditList ==
  /\ listed' \in Edits
  /\ UNCHANGED <<captured, prepared, refusal, handle, validation>>
-----------------------------------------------------------------------------
(***************************************************************************)
(* prepare()                                                               *)
(***************************************************************************)
\* Mutation of ResourceTests: the aggregate byte limit is refused when it is met.
ResourceTests_Strict(sum, r) ==
  LET d == r.document IN <<
    <<d.form = "foreign", "invalid_schema_resource">>,
    <<r.uri \notin Uri, "invalid_schema_resource_uri">>,
    <<r.uri \in DOMAIN sum.staged, "duplicate_schema_resource">>,
    <<d.bytes > MaxResourceBytes, "schema_resource_byte_limit">>,
    <<sum.bytes + d.bytes >= MaxAggregateBytes, "schema_aggregate_byte_limit">>,
    <<d.form # "schema", d.form>>,
    <<~ (d.id \subseteq {r.uri}), "schema_id_mismatch">>,
    <<d.qualification # "none", d.qualification>>,
    <<sum.nodes + d.nodes > MaxAggregateNodes, "schema_aggregate_node_limit">>,
    <<sum.references + d.references > MaxAggregateReferences, "schema_aggregate_reference_limit">>,
    <<~ d.compiles, "schema_invalid">> >>

\* The tests of one resource, in order, after the resources before it.
ResourceTests(sum, r) ==
  LET d == r.document IN <<
    <<d.form = "foreign", "invalid_schema_resource">>,
    <<r.uri \notin Uri, "invalid_schema_resource_uri">>,
    <<r.uri \in DOMAIN sum.staged, "duplicate_schema_resource">>,
    <<d.bytes > MaxResourceBytes, "schema_resource_byte_limit">>,
    <<sum.bytes + d.bytes > MaxAggregateBytes, "schema_aggregate_byte_limit">>,
    <<d.form # "schema", d.form>>,
    <<~ (d.id \subseteq {r.uri}), "schema_id_mismatch">>,
    <<d.qualification # "none", d.qualification>>,
    <<sum.nodes + d.nodes > MaxAggregateNodes, "schema_aggregate_node_limit">>,
    <<sum.references + d.references > MaxAggregateReferences, "schema_aggregate_reference_limit">>,
    <<~ d.compiles, "schema_invalid">> >>

ResourceError(sum, r) == FirstError(ResourceTests(sum, r))

\* One turn of the loop: an error ends it, with what was staged so far lost.
Stage(sum, r) ==
  IF sum.error # "none" THEN sum
  ELSE IF ResourceError(sum, r) # "none" THEN [sum EXCEPT !.error = ResourceError(sum, r)]
  ELSE [error |-> "none",
        staged |-> [uri \in DOMAIN sum.staged \cup {r.uri} |->
                      IF uri = r.uri THEN r.document ELSE sum.staged[uri]],
        bytes |-> sum.bytes + r.document.bytes,
        nodes |-> sum.nodes + r.document.nodes,
        references |-> sum.references + r.document.references]

Empty == [error |-> "none", staged |-> <<>>, bytes |-> 0, nodes |-> 0, references |-> 0]

\* The sums after each number of turns.
Stages(list) ==
  LET after[i \in 0..Len(list)] == IF i = 0 THEN Empty ELSE Stage(after[i-1], list[i]) IN
  after

Preparation(list) ==
  IF Len(list) > MaxResources THEN [Empty EXCEPT !.error = "schema_resource_count_limit"]
  ELSE Stages(list)[Len(list)]

\* Mutation of Retain: what was staged before an error is kept.
Retain_Partial(outcome) ==
  /\ prepared' = outcome.staged
  /\ refusal' = IF outcome.error = "none" THEN refusal ELSE outcome.error

\* Only a whole set is retained.
Retain(outcome) ==
  /\ prepared' = IF outcome.error = "none" THEN outcome.staged ELSE NoSet
  /\ refusal' = IF outcome.error = "none" THEN refusal ELSE outcome.error

\* Once prepared, the call answers with what it has and changes nothing.
Prepare ==
  /\ prepared = NoSet
  /\ Retain(Preparation(captured))
  /\ UNCHANGED <<listed, captured, handle, validation>>
-----------------------------------------------------------------------------
(***************************************************************************)
(* Resolution and evaluation of the prepared set.                          *)
(***************************************************************************)
Resolve(uri) ==
  /\ prepared # NoSet /\ uri \in DOMAIN prepared
  /\ handle' = [uri |-> uri, pin |-> NoPin, document |-> prepared[uri]]
  /\ UNCHANGED <<listed, captured, prepared, refusal, validation>>

ResolveInput(uri, hash) ==
  /\ prepared # NoSet /\ uri \in DOMAIN prepared
  /\ hash = prepared[uri].hash
  /\ handle' = [uri |-> uri, pin |-> hash, document |-> prepared[uri]]
  /\ UNCHANGED <<listed, captured, prepared, refusal, validation>>

\* instanceUnits: one for each value, and the length of each text and key.
Units(instance) == instance.nodes + instance.text

\* Its traversal stops at the first limit that is passed, and which one that is
\* depends on where in the instance it stands.
Overruns(instance) ==
  {code \in {"schema_instance_node_limit", "schema_instance_depth_limit", "schema_instance_work_limit"} :
     \/ code = "schema_instance_node_limit" /\ instance.nodes > MaxInstanceNodes
     \/ code = "schema_instance_depth_limit" /\ instance.depth > MaxInstanceDepth
     \/ code = "schema_instance_work_limit" /\ Units(instance) > MaxInstanceWork}

\* Mutation of Affordable: the quotient is rounded up.
Affordable_RoundedUp(document, instance) ==
  Units(instance) <= (MaxInstanceWork + document.weight - 1) \div document.weight

Affordable(document, instance) ==
  Units(instance) <= MaxInstanceWork \div document.weight

\* What validate may throw.
ValidationErrors(document, instance) ==
  IF instance.form = "foreign" THEN {"invalid_schema_instance"}
  ELSE IF instance.bytes > MaxInstanceBytes THEN {"schema_instance_byte_limit"}
  ELSE IF instance.form # "json" THEN {instance.form}
  ELSE IF Overruns(instance) # {} THEN Overruns(instance)
  ELSE IF ~ Affordable(document, instance) THEN {"schema_instance_work_limit"}
  ELSE Engine

Validate(instance) ==
  /\ handle # NoHandle
  /\ \E code \in ValidationErrors(handle.document, instance) :
       validation' = [document |-> handle.document, instance |-> instance, error |-> code]
  /\ UNCHANGED <<listed, captured, prepared, refusal, handle>>

ResourcesNext ==
  \/ EditList
  \/ Prepare
  \/ \E uri \in Uri : Resolve(uri) \/ \E hash \in Hashes : ResolveInput(uri, hash)
  \/ \E instance \in Instances : Validate(instance)

ResourcesSpec == ResourcesInit /\ [][ResourcesNext]_resources
-----------------------------------------------------------------------------
(***************************************************************************)
(* What a caller relies on, stated on the captured list as a whole.        *)
(***************************************************************************)
UpTo(amounts) ==
  LET total[i \in 0..Len(amounts)] == IF i = 0 THEN 0 ELSE total[i-1] + amounts[i] IN
  total

Total(amounts) == UpTo(amounts)[Len(amounts)]

BytesOf(list) == [i \in DOMAIN list |-> list[i].document.bytes]
NodesOf(list) == [i \in DOMAIN list |-> list[i].document.nodes]
ReferencesOf(list) == [i \in DOMAIN list |-> list[i].document.references]

\* Each member is fine by itself, and all of them fit together.
Admissible(list) ==
  /\ Len(list) <= MaxResources
  /\ \A i \in DOMAIN list : LET r == list[i] d == list[i].document IN
       /\ r.uri \in Uri /\ d.form = "schema" /\ d.id \subseteq {r.uri}
       /\ d.qualification = "none" /\ d.compiles
       /\ d.bytes <= MaxResourceBytes
       /\ \A j \in DOMAIN list : list[j].uri = r.uri => j = i
  /\ Total(BytesOf(list)) <= MaxAggregateBytes
  /\ Total(NodesOf(list)) <= MaxAggregateNodes
  /\ Total(ReferencesOf(list)) <= MaxAggregateReferences

Member(list, uri) == (CHOOSE i \in DOMAIN list : list[i].uri = uri)

View(list) ==
  [uri \in {list[i].uri : i \in DOMAIN list} |-> list[Member(list, uri)].document]

Views(list) == IF Admissible(list) THEN {View(list)} ELSE {}

\* The types of the variables, and the bound on what the constructor reads.
ResourcesTypeOK ==
  /\ listed \in Lists \cup Edits
  /\ Measured(captured) /\ Len(captured) <= MaxResources + 1
  /\ handle # NoHandle => handle.uri \in Uri /\ handle.pin \in Hashes \cup {NoPin}

\* What is prepared is the whole view of the captured list, and what was resolved
\* is a member of it.
PreparedWhole == prepared # NoSet => prepared \in Views(captured)

ResolvedInSet ==
  handle # NoHandle =>
    /\ prepared # NoSet /\ handle.uri \in DOMAIN prepared
    /\ handle.document = prepared[handle.uri]

\* A set is prepared as a whole or not at all: what is retained is every member
\* of the captured list, and only of a list that keeps every limit in total,
\* whichever resource an attempt gave up at; and it stays for good.
PO == INSTANCE PrepareOnce WITH
        Values <- Views, Nothing <- NoSet, retained <- prepared

PreparesWholeSet == PO!POSpec

\* The limits are exact: no set that keeps them all is ever refused, although
\* the loop judges by running sums and stops early.
RefusalsJustified == refusal # "none" => ~ Admissible(captured)

\* The engine only runs when the schema's weight, once for each unit of the
\* instance, stays within the work bound, and nothing within it is refused.
WorkBounded ==
  validation # NotCalled =>
    LET work == Units(validation.instance) * validation.document.weight IN
    /\ validation.error \in Engine =>
         /\ work <= MaxInstanceWork
         /\ validation.instance.nodes <= MaxInstanceNodes
         /\ validation.instance.depth <= MaxInstanceDepth
         /\ validation.instance.bytes <= MaxInstanceBytes
    /\ validation.error = "schema_instance_work_limit" => work > MaxInstanceWork

\* In every state the variables have their types, what is prepared is whole, no
\* refusal was unjust, and the engine ran within the work bound.
ResourcesInv ==
  ResourcesTypeOK /\ PreparedWhole /\ ResolvedInSet /\ RefusalsJustified /\ WorkBounded
=============================================================================
