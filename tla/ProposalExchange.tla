--------------------------- MODULE ProposalExchange ---------------------------
(***************************************************************************)
(* The proposal exchange experiment: a request that is checked and         *)
(* retained before it is sent, results that are correlated with it, and    *)
(* the runtime's and the application's receipts that are checked against   *)
(* both (src/experiments/offline-proposal-exchange/src), in its ordinary   *)
(* form and with the receipts carried inside the messages.                 *)
(*                                                                         *)
(* Whatever a counterpart or a transport presents is a document: its       *)
(* length and the value it parses to. The length is that of the source     *)
(* text, or of its rendering if that is longer and the document a request  *)
(* or an inline message. A member outside its grammar is Malformed; a      *)
(* closed object of one or two identifiers is one value. SHA-256 over      *)
(* canonical JSON is taken to be injective: a digest is the hashed view    *)
(* itself under its domain.                                                *)
(***************************************************************************)
EXTENDS Timestamps, FiniteSets

CONSTANTS
  RequestDocuments, ResultDocuments,      \* the documents presented as messages
  Presentations,                          \* a context and two receipts presented together
  InlineOffers,                           \* what an inline exchange is constructed with
  InlineResults,
  InputAnswer(_), OutputAnswer(_),        \* what the schemas' validate does with a value
  ByteLimit,
  MaxRules,
  Exchanges,                              \* exchanges as honest parties carry them out
  Nothing

VARIABLES
  retained,     \* the request of the RetainedExchange
  inline,       \* what RetainedInlineExchange holds beside it, and was made from
  pending,      \* the EvidencePending of the last result that was correlated
  checked       \* the last exchange whose receipts passed

exchange == <<retained, inline, pending, checked>>

Hash(domain, view) == [domain |-> domain, view |-> view]

\* Documents are Malformed or members by name.
IsRecord(value) == value = Malformed \/ value = [f \in DOMAIN value |-> value[f]]

ASSUME ExchangeAssumption ==
  /\ \A d \in ResultDocuments \cup InlineResults : d.value # Malformed => IsRecord(d.value.payload)
  /\ \A d \in InlineResults :
       d.value # Malformed /\ d.value.carrier # Malformed => IsRecord(d.value.carrier.receipt)
  /\ \A o \in InlineOffers :
       o.document.value # Malformed /\ o.document.value.carrier # Malformed =>
         IsRecord(o.document.value.carrier.receipt)
  /\ \A p \in Presentations \cup InlineOffers :
       /\ IsRecord(p.context)
       /\ p.context # Malformed => IsRecord(p.context.policies)
  /\ \A p \in Presentations : IsRecord(p.runtime) /\ IsRecord(p.app)

Without(record, field) == [f \in DOMAIN record \ {field} |-> record[f]]
-----------------------------------------------------------------------------
(***************************************************************************)
(* ProposalWire: the closed grammar of messages.                           *)
(***************************************************************************)
CorrelationFields ==
  {"session_id", "session_generation", "grant_id", "grant_hash", "surface_hash", "action_id",
   "idempotency_key", "trace_id", "execution_hash"}

CommonFields ==
  {"session_id", "session_generation", "grant_id", "grant_hash", "surface_hash", "action_id",
   "idempotency_key", "trace_id", "execution_hash", "span_id", "execution"}
RequestFields == CommonFields \cup {"parent_receipt_hash", "input_hash", "input"}
ResultFields == CommonFields \cup {"result", "output", "receipt_id", "receipt_hash"}

Closed(value, fields) == value # Malformed /\ DOMAIN value = fields

WellFormed(record, fields) == \A f \in fields : record[f] # Malformed

Payload(message, type, fields) ==
  /\ message # Malformed
  /\ message.type = type
  /\ Closed(message.payload, fields)
  /\ WellFormed(message.payload, CommonFields)
  /\ message.payload.session_generation > 0
  /\ message.payload.execution.mode = "propose"

IsRequest(message) ==
  /\ Payload(message, "action.request", RequestFields)
  /\ WellFormed(message.payload, {"input_hash", "parent_receipt_hash"})

IsResult(message) ==
  /\ Payload(message, "action.result", ResultFields)
  /\ message.payload.result = "success"
  /\ WellFormed(message.payload, {"receipt_id", "receipt_hash"})

\* A schema that throws, or answers anything but undefined, a promise too,
\* has not accepted the value.
Accepts(answer) == answer = "undefined"
-----------------------------------------------------------------------------
(***************************************************************************)
(* OfflineProposalExchange.prepare and RetainedExchange.correlate          *)
(***************************************************************************)
RequestAccepted(document) ==
  /\ document.bytes <= ByteLimit
  /\ IsRequest(document.value)
  /\ LET p == document.value.payload IN
     /\ Accepts(InputAnswer(p.input))
     /\ p.input_hash = Hash("action-input", p.input)
     /\ p.execution_hash = Hash("action-execution", p.execution)

\* Mutation of Correlates: an answer in the span of the request is required.
Correlates_SameSpan(request, document) ==
  /\ document.bytes <= ByteLimit
  /\ IsResult(document.value)
  /\ LET p == document.value.payload IN
     /\ \A f \in CorrelationFields : request[f] = p[f]
     /\ request.execution = p.execution
     /\ request.span_id = p.span_id
     /\ Accepts(OutputAnswer(p.output))

\* Mutation of Correlates: a retry under another key is not told apart.
Correlates_Keyless(request, document) ==
  /\ document.bytes <= ByteLimit
  /\ IsResult(document.value)
  /\ LET p == document.value.payload IN
     /\ \A f \in CorrelationFields \ {"idempotency_key"} : request[f] = p[f]
     /\ request.execution = p.execution
     /\ request.span_id # p.span_id
     /\ Accepts(OutputAnswer(p.output))

Correlates(request, document) ==
  /\ document.bytes <= ByteLimit
  /\ IsResult(document.value)
  /\ LET p == document.value.payload IN
     /\ \A f \in CorrelationFields : request[f] = p[f]
     /\ request.execution = p.execution
     /\ request.span_id # p.span_id
     /\ Accepts(OutputAnswer(p.output))

\* The evidence keeps both messages and the hash of the output it was given.
Evidence(request, result) ==
  [request |-> request, result |-> result, output_hash |-> Hash("action-output", result.output)]
-----------------------------------------------------------------------------
(***************************************************************************)
(* ProposalReceiptPair                                                     *)
(***************************************************************************)
ContextFields ==
  CorrelationFields \cup
    {"span_id", "input_hash", "execution", "app_id", "surface_version", "runtime",
     "actor_agent", "subject", "policies"}

ReceiptFields ==
  (ContextFields \ {"policies"}) \cup
    {"receipt_id", "receipt_type", "receipt_hash", "policy_decision", "policy_decision_hash",
     "timestamp", "result"}

DecisionFields ==
  {"type", "decision_id", "enforcer", "outcome", "policy", "reason_code", "matched_rules",
   "safe_to_show", "evaluated_at", "policy_decision_hash"}

IsContext(context) ==
  /\ Closed(context, ContextFields)
  /\ WellFormed(context, ContextFields)
  /\ context.session_generation > 0
  /\ context.execution.mode = "propose"
  /\ Closed(context.policies, {"runtime", "application"})
  /\ WellFormed(context.policies, {"runtime", "application"})

RequestBound == CorrelationFields \cup {"span_id", "input_hash", "execution"}

\* The host's context is about the request.
ContextFits(context, request) ==
  IsContext(context) /\ \A f \in RequestBound : context[f] = request[f]

\* Who decides in a role, and under which of the policies the host selected.
SelectedRole(role) == IF role = "runtime" THEN "runtime" ELSE "application"
EnforcerId(role, context) == IF role = "runtime" THEN context.runtime ELSE context.app_id

DecisionHash(decision) == Hash("policy-decision", Without(decision, "policy_decision_hash"))

\* Mutation of DecisionStands: what was decided later is taken as well.
DecisionStands_Timeless(receipt, role, context) ==
  LET decision == receipt.policy_decision IN
  /\ Closed(decision, DecisionFields)
  /\ decision.type = "policy.decision" /\ decision.outcome = "allow"
  /\ decision.reason_code = "policy_allowed"
  /\ decision.enforcer = <<SelectedRole(role), EnforcerId(role, context)>>
  /\ WellFormed(decision, {"decision_id", "safe_to_show", "policy", "matched_rules", "policy_decision_hash"})
  /\ decision.policy = context.policies[SelectedRole(role)]
  /\ Len(decision.matched_rules) <= MaxRules
  /\ \A i, j \in DOMAIN decision.matched_rules :
       decision.matched_rules[i] = decision.matched_rules[j] => i = j
  /\ IsUtc(decision.evaluated_at)
  /\ decision.policy_decision_hash = DecisionHash(decision)
  /\ receipt.policy_decision_hash = DecisionHash(decision)

\* The decision recorded in a receipt: allowed by the enforcer of the role, under
\* the policy the host selected, and not after the receipt.
DecisionStands(receipt, role, context) ==
  LET decision == receipt.policy_decision IN
  /\ Closed(decision, DecisionFields)
  /\ decision.type = "policy.decision" /\ decision.outcome = "allow"
  /\ decision.reason_code = "policy_allowed"
  /\ decision.enforcer = <<SelectedRole(role), EnforcerId(role, context)>>
  /\ WellFormed(decision, {"decision_id", "safe_to_show", "policy", "matched_rules", "policy_decision_hash"})
  /\ decision.policy = context.policies[SelectedRole(role)]
  /\ Len(decision.matched_rules) <= MaxRules
  /\ \A i, j \in DOMAIN decision.matched_rules :
       decision.matched_rules[i] = decision.matched_rules[j] => i = j
  /\ IsUtc(decision.evaluated_at)
  /\ ~ TextAfter(UtcText(decision.evaluated_at), UtcText(receipt.timestamp))
  /\ decision.policy_decision_hash = DecisionHash(decision)
  /\ receipt.policy_decision_hash = DecisionHash(decision)

ReceiptHash(receipt) == Hash("receipt", Without(receipt, "receipt_hash"))

FieldsOf(role) ==
  IF role = "runtime" THEN ReceiptFields
  ELSE ReceiptFields \cup {"parent_receipt_hash", "output_hash"}

ResultOf(role) == IF role = "runtime" THEN "authorized_for_forwarding" ELSE "success"

ContextBound == ContextFields \ {"span_id", "policies"}

\* Mutation of ReceiptStands: the hash is not computed again.
ReceiptStands_Unhashed(receipt, role, context) ==
  /\ Closed(receipt, FieldsOf(role))
  /\ WellFormed(receipt, FieldsOf(role) \ {"policy_decision", "timestamp"})
  /\ receipt.receipt_type = role /\ receipt.result = ResultOf(role)
  /\ \A f \in ContextBound : receipt[f] = context[f]
  /\ IsUtc(receipt.timestamp)
  /\ DecisionStands(receipt, role, context)

\* A receipt by itself: of its role, about the host's context, and intact. One
\* with receipt_signatures is not closed.
ReceiptStands(receipt, role, context) ==
  /\ Closed(receipt, FieldsOf(role))
  /\ WellFormed(receipt, FieldsOf(role) \ {"policy_decision", "timestamp"})
  /\ receipt.receipt_type = role /\ receipt.result = ResultOf(role)
  /\ \A f \in ContextBound : receipt[f] = context[f]
  /\ IsUtc(receipt.timestamp)
  /\ DecisionStands(receipt, role, context)
  /\ receipt.receipt_hash = ReceiptHash(receipt)

\* checkRuntime: the request names the runtime's receipt as its parent.
RuntimeChecks(request, context, runtime) ==
  /\ ContextFits(context, request)
  /\ ReceiptStands(runtime, "runtime", context)
  /\ runtime.receipt_hash = request.parent_receipt_hash
  /\ runtime.span_id = request.span_id

\* Mutation of PairChecks: the application's receipt may be about any output.
PairChecks_OutputUnbound(evidence, context, runtime, app) ==
  /\ RuntimeChecks(evidence.request, context, runtime)
  /\ ReceiptStands(app, "app", context)
  /\ app.parent_receipt_hash = runtime.receipt_hash
  /\ app.receipt_id = evidence.result.receipt_id
  /\ app.receipt_hash = evidence.result.receipt_hash
  /\ app.span_id = evidence.result.span_id
  /\ runtime.receipt_id # app.receipt_id /\ runtime.span_id # app.span_id

\* check: the application's receipt continues the runtime's, and is the one the
\* result names, about its output.
PairChecks(evidence, context, runtime, app) ==
  /\ RuntimeChecks(evidence.request, context, runtime)
  /\ ReceiptStands(app, "app", context)
  /\ app.parent_receipt_hash = runtime.receipt_hash
  /\ app.receipt_id = evidence.result.receipt_id
  /\ app.receipt_hash = evidence.result.receipt_hash
  /\ app.span_id = evidence.result.span_id
  /\ app.output_hash = evidence.output_hash
  /\ runtime.receipt_id # app.receipt_id /\ runtime.span_id # app.span_id
-----------------------------------------------------------------------------
(***************************************************************************)
(* InlineMessage and OfflineInlineProposalExchange: the receipts travel in *)
(* a member of the payload, which is taken out before the rest is read.    *)
(***************************************************************************)
InlineProfile == "http-inline-receipts/v1"

\* The message without its carrier, and the receipt of the carrier.
Carries(document, type) ==
  /\ document.bytes <= ByteLimit
  /\ document.value # Malformed
  /\ document.value.type = type
  /\ document.value.carrier # Malformed
  /\ document.value.carrier.profile = InlineProfile

Message(document) ==
  [bytes |-> document.bytes,
   value |-> [type |-> document.value.type, payload |-> document.value.payload]]

\* Mutation of SelectedFor: the grant of another surface is taken.
SelectedFor_AnyGrant(manifest, grant, request, context) ==
  /\ manifest.delivery = [profile |-> InlineProfile, action_ids |-> <<manifest.action_id>>]
  /\ request.action_id = manifest.action_id
  /\ request.surface_hash = manifest.surface_hash
  /\ context.surface_hash = manifest.surface_hash
  /\ context.app_id = manifest.app_id /\ context.surface_version = manifest.surface_version

\* The request and the host's context are about the manifest and the grant, the
\* grant is for the manifest, which selected this delivery for its one action.
SelectedFor(manifest, grant, request, context) ==
  /\ grant.surface_hash = manifest.surface_hash
  /\ manifest.delivery = [profile |-> InlineProfile, action_ids |-> <<manifest.action_id>>]
  /\ request.action_id = manifest.action_id
  /\ request.surface_hash = manifest.surface_hash /\ request.grant_hash = grant.hash
  /\ context.grant_hash = grant.hash /\ context.surface_hash = manifest.surface_hash
  /\ context.app_id = manifest.app_id /\ context.surface_version = manifest.surface_version
-----------------------------------------------------------------------------
(***************************************************************************)
(* Calls, in any order and as often as the host likes. A refused call      *)
(* throws and changes nothing.                                             *)
(***************************************************************************)
Init == retained = Nothing /\ inline = Nothing /\ pending = Nothing /\ checked = Nothing

Prepare(document) ==
  /\ retained = Nothing
  /\ RequestAccepted(document)
  /\ retained' = document.value.payload
  /\ UNCHANGED <<inline, pending, checked>>

Correlate(document) ==
  /\ retained # Nothing /\ inline = Nothing
  /\ Correlates(retained, document)
  /\ pending' = Evidence(retained, document.value.payload)
  /\ UNCHANGED <<retained, inline, checked>>

\* An exchange as its receipts were checked.
Chain(evidence, context, runtime, app) ==
  [asked |-> evidence.request, answered |-> evidence.result, context |-> context,
   runtime |-> runtime, app |-> app]

CheckReceipts(p) ==
  /\ pending # Nothing
  /\ PairChecks(pending, p.context, p.runtime, p.app)
  /\ checked' = Chain(pending, p.context, p.runtime, p.app)
  /\ UNCHANGED <<retained, inline, pending>>

\* The inline form prepares the ordinary exchange, and checks the runtime's
\* receipt that came with the request.
OfferAccepted(offer) ==
  LET document == offer.document IN
  /\ Carries(document, "action.request")
  /\ RequestAccepted(Message(document))
  /\ SelectedFor(offer.manifest, offer.grant, document.value.payload, offer.context)
  /\ RuntimeChecks(document.value.payload, offer.context, document.value.carrier.receipt)

PrepareInline(offer) ==
  /\ retained = Nothing
  /\ OfferAccepted(offer)
  /\ retained' = offer.document.value.payload
  /\ inline' = [context |-> offer.context, runtime |-> offer.document.value.carrier.receipt,
                offer |-> offer]
  /\ UNCHANGED <<pending, checked>>

\* Correlation and the check of the pair in one call.
InlineChecks(document) ==
  /\ Carries(document, "action.result")
  /\ Correlates(retained, Message(document))
  /\ PairChecks(Evidence(retained, document.value.payload), inline.context, inline.runtime,
                document.value.carrier.receipt)

CheckInline(document) ==
  /\ retained # Nothing /\ inline # Nothing
  /\ InlineChecks(document)
  /\ checked' = Chain(Evidence(retained, document.value.payload), inline.context, inline.runtime,
                      document.value.carrier.receipt)
  /\ UNCHANGED <<retained, inline, pending>>

Next ==
  \/ \E document \in RequestDocuments : Prepare(document)
  \/ \E document \in ResultDocuments : Correlate(document)
  \/ \E p \in Presentations : CheckReceipts(p)
  \/ \E offer \in InlineOffers : PrepareInline(offer)
  \/ \E document \in InlineResults : CheckInline(document)

Spec == Init /\ [][Next]_exchange
-----------------------------------------------------------------------------
(***************************************************************************)
(* Properties                                                              *)
(***************************************************************************)

\* The evidence is about the request that was retained, and an inline exchange
\* keeps no evidence of its own.
TypeOK ==
  /\ pending # Nothing => inline = Nothing /\ pending.request = retained
  /\ checked # Nothing => checked.asked = retained

\* What passes is one whole exchange that its parties carried out: the request
\* that was retained, the result, the host's context and both receipts belong
\* together, and none of them was altered, repeated for another request or
\* taken from another exchange, retry or role. In the inline form so do the
\* manifest and the grant, before anything is sent.
OnlyWholePasses ==
  /\ checked # Nothing =>
       \E e \in Exchanges : \A part \in DOMAIN checked : e[part] = checked[part]
  /\ inline # Nothing => \E e \in Exchanges : e.offer = inline.offer

\* No call that is given the documents of one exchange, in their order, is
\* refused, whatever was presented before.
WholeIsNeverRefused ==
  \A e \in Exchanges :
    /\ retained = Nothing => RequestAccepted(e.request) /\ OfferAccepted(e.offer)
    /\ retained = e.asked => Correlates(retained, e.result)
    /\ pending # Nothing /\ pending = Evidence(e.asked, e.answered) =>
         PairChecks(pending, e.context, e.runtime, e.app)
    /\ inline # Nothing /\ retained = e.asked /\ inline.offer = e.offer =>
         InlineChecks(e.inlineResult)

\* A decision that passes was not made after the receipt that records it, as
\* instants and not as texts, in both roles.
DecisionPrecedesReceipt ==
  checked # Nothing =>
    \A receipt \in {checked.runtime, checked.app} :
      ~ Later(Instant(receipt.policy_decision.evaluated_at), Instant(receipt.timestamp))

\* The request that was retained names one runtime receipt for good, and the
\* receipt hash of a result settles everything else: no second context, output
\* or receipt ever passes for it.
OneExchangePerReceipt ==
  [][checked # Nothing /\ checked' # Nothing =>
       /\ checked'.asked = checked.asked /\ checked'.runtime = checked.runtime
       /\ checked'.answered.receipt_hash = checked.answered.receipt_hash => checked' = checked]_exchange
=============================================================================
