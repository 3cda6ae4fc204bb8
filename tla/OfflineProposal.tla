--------------------------- MODULE OfflineProposal ---------------------------
(***************************************************************************)
(* The offline proposal package: manifests that are prepared against a     *)
(* shared set of schema resources (src/offline-proposal-manifest.ts),      *)
(* semantic grant requests and selected grants that are checked against a  *)
(* prepared manifest and the facts a host expects                          *)
(* (src/offline-semantic-grant-request.ts, src/offline-selected-grant.ts), *)
(* and the composition of a request with a grant                           *)
(* (src/offline-request-grant-composition.ts).                             *)
(*                                                                         *)
(* A document is the value it parses to. SHA-256 over canonical JSON is    *)
(* taken to be injective, so that a hash is the hashed view itself under   *)
(* its domain. The closed grammar of a declaration is one member that      *)
(* holds "ok" or the error it is refused with; what is compared between    *)
(* documents is a member of its own.                                       *)
(***************************************************************************)
EXTENDS SchemaResources, Integers, FiniteSets

CONSTANTS
  Manifest,          \* objects of class OfflineProposalManifest
  Offers,            \* what such an object is constructed with
  Expected,          \* what a host may expect of its counterparts
  RequestDocuments, GrantDocuments,
  Identifiers,       \* the actions somebody may ask a manifest about
  Pairs,             \* the requests and grants that are composed
  NoHash,            \* a hash member that is absent
  NoDelivery,        \* receipt_delivery that is absent
  Forged,            \* an object that only looks like a prepared manifest
  Nothing,           \* not prepared
  FractionDigits     \* the longest fraction of a second in any document

Timestamp(t) ==
  /\ t.local \in Int /\ t.offset \in Int
  /\ t.fraction \in Seq(0..9) /\ Len(t.fraction) <= FractionDigits

Evident(evidence) == evidence.form \in {"ok", "incompatible", "invalid"}

\* No error of a declaration is called "none", or what only the composition
\* throws; and what a host expects has its five members.
Reserved == {"none", "grant_expiry_exceeds_request"}

RequestGrammar(r) ==
  /\ Reserved \cap {r.form, r.fields, r.terms} = {}
  /\ Evident(r.evidence) /\ Timestamp(r.expires_at)

GrantGrammar(g) ==
  /\ Reserved \cap {g.form, g.view.fields, g.view.method, g.view.terms} = {}
  /\ Evident(g.view.evidence) /\ Evident(g.view.binding.evidence) /\ Timestamp(g.view.expires_at)

ASSUME OfflineAssumption ==
  /\ FractionDigits \in Nat
  /\ \A offer \in Offers, m \in Manifest : LET d == offer[m].document IN
       "none" \notin {d.form, d.view.head, d.view.body, d.view.exposure}
  /\ \A host \in Expected :
       host = [subject |-> host.subject, runtime |-> host.runtime, agent |-> host.agent,
               evidence |-> host.evidence, audience |-> host.audience] /\ Evident(host.evidence)
  /\ \A document \in RequestDocuments \cup {pair[1] : pair \in Pairs} :
       \A r \in document.parses \cup {document.text} : RequestGrammar(r)
  /\ \A document \in GrantDocuments \cup {pair[2] : pair \in Pairs} : GrantGrammar(document.text)

VARIABLES
  offered,           \* what each manifest object captured
  retained,          \* its #prepared
  expectations,      \* the host's current expectations, an object it may change
  object             \* the request, grant or composition in use

offline == <<offered, retained, expectations, object>>
vars == <<resources, offline>>

Endpoint == {"surface", "introspection", "revocation", "action", "session", "event", "management"}
-----------------------------------------------------------------------------
(***************************************************************************)
(* OfflineProposalManifest.prepare                                         *)
(***************************************************************************)
ManifestHash(view) == [domain |-> "manifest", view |-> view]

Paths(view) == {view.path[e] : e \in Endpoint}

\* Receipts are only delivered inline for the one action, and if its inputs are
\* hashed under the profile.
Deliverable(view) ==
  view.delivery # NoDelivery => view.delivery = <<view.action.id>> /\ view.action.profiled

\* Mutation of ManifestTests: the supplied hash is not compared.
ManifestTests_HashUnchecked(m, entry) ==
  LET v == m.view IN <<
    <<m.form # "object", m.form>>,
    <<m.surface_hash = NoHash, "surface_hash_required">>,
    <<v.head # "ok", v.head>>,
    <<v.entry # entry, "identity_profile_mismatch">>,
    <<v.body # "ok", v.body>>,
    <<~ Deliverable(v), "surface_incompatible">>,
    <<Cardinality(Paths(v)) # Cardinality(Endpoint), "surface_incompatible">>,
    <<v.audience.origin = v.issuer /\ v.audience.path \in Paths(v), "surface_incompatible">>,
    <<v.action.scope # v.scope, "surface_incompatible">>,
    <<v.exposure # "ok", v.exposure>> >>

\* In order: the document, its integrity, the declarations up to the identity
\* entry, those after it, the relations between them, and the exposure.
ManifestTests(m, entry) ==
  LET v == m.view IN <<
    <<m.form # "object", m.form>>,
    <<m.surface_hash = NoHash, "surface_hash_required">>,
    <<m.surface_hash # ManifestHash(v), "surface_hash_mismatch">>,
    <<v.head # "ok", v.head>>,
    <<v.entry # entry, "identity_profile_mismatch">>,
    <<v.body # "ok", v.body>>,
    <<~ Deliverable(v), "surface_incompatible">>,
    <<Cardinality(Paths(v)) # Cardinality(Endpoint), "surface_incompatible">>,
    <<v.audience.origin = v.issuer /\ v.audience.path \in Paths(v), "surface_incompatible">>,
    <<v.action.scope # v.scope, "surface_incompatible">>,
    <<v.exposure # "ok", v.exposure>> >>

ManifestError(m, entry) == FirstError(ManifestTests(m, entry))

References(view) ==
  {view.action.input_schema, view.action.output_schema, view.event.schema, view.receipt_schema}

\* resolveInput pins the input schema by its hash, resolve only names the others.
SchemasResolve(view, set) ==
  /\ References(view) \subseteq DOMAIN set
  /\ set[view.action.input_schema].hash = view.action.input_schema_hash

\* What is retained: the document, its hash, and the four schemas.
RetainedManifest(m, set) ==
  [view |-> m.view, surfaceHash |-> ManifestHash(m.view),
   schema |-> [uri \in References(m.view) |-> set[uri]]]

\* The shared resource set, prepared by the first manifest that gets so far.
PreparedResources ==
  IF prepared # NoSet THEN [Empty EXCEPT !.staged = prepared] ELSE Preparation(captured)

\* A manifest whose schemas do not resolve leaves the resource set prepared.
PrepareManifest(m) ==
  /\ retained[m] = Nothing
  /\ ManifestError(offered[m].document, offered[m].entry) = "none"
  /\ LET set == PreparedResources document == offered[m].document IN
     /\ Retain(set)
     /\ retained' =
          IF set.error = "none" /\ SchemasResolve(document.view, set.staged)
          THEN [retained EXCEPT ![m] = RetainedManifest(document, set.staged)]
          ELSE retained
  /\ UNCHANGED <<listed, captured, handle, validation, offered, expectations, object>>

\* Mutation of SchemaFor: any schema of the manifest will do.
SchemaFor_Output(m, direction) == retained[m].schema[retained[m].view.action.output_schema]

\* The schema objects were resolved once, the input's under its hash.
SchemaFor(m, direction) ==
  LET action == retained[m].view.action IN
  retained[m].schema[IF direction = "input" THEN action.input_schema ELSE action.output_schema]

\* validateInput and validateOutput of a prepared manifest
JudgeDocument(m, direction, id, instance) ==
  /\ retained[m] # Nothing
  /\ id = retained[m].view.action.id
  /\ \E code \in ValidationErrors(SchemaFor(m, direction), instance) :
       validation' = [document |-> SchemaFor(m, direction), instance |-> instance, error |-> code,
                      manifest |-> m, direction |-> direction]
  /\ UNCHANGED <<listed, captured, prepared, refusal, handle, offline>>
-----------------------------------------------------------------------------
(***************************************************************************)
(* What requests and grants have in common: offline-proposal-semantics.ts  *)
(***************************************************************************)
\* Mutation of ResourceServer: the surface is hashed in the domain of grants.
ResourceServer_OtherDomain(view) ==
  [app_id |-> view.app_id, issuer |-> view.issuer, surface_version |-> view.surface_version,
   surface_hash |-> [domain |-> "grant", view |-> view]]

ResourceServer(view) ==
  [app_id |-> view.app_id, issuer |-> view.issuer,
   surface_version |-> view.surface_version, surface_hash |-> ManifestHash(view)]

ActionUrl(view) == [origin |-> view.issuer, path |-> view.path["action"]]

\* projectExposure of a prepared manifest, which declares no resources, one
\* action and one control event: the sources in the order of their kinds.
Projection(view) ==
  <<[kind |-> "action", id |-> view.action.id, data_exposure |-> view.action.data_exposure],
    [kind |-> "event", id |-> "grant.revoked", data_exposure |-> view.event.data_exposure]>>

\* validateIdentityEvidence: well formed, and of an advertised profile.
EvidenceError(evidence, entry, errors) ==
  FirstError(<<
    <<evidence.form # "ok", errors[evidence.form]>>,
    <<evidence.profile \notin entry, errors.mismatch>> >>)

RequestErrors ==
  [ok |-> "none", incompatible |-> "grant_request_incompatible",
   invalid |-> "grant_request_identity_invalid", mismatch |-> "grant_request_identity_mismatch"]

GrantErrors ==
  [ok |-> "none", incompatible |-> "grant_incompatible",
   invalid |-> "grant_identity_invalid", mismatch |-> "grant_identity_mismatch"]

\* What a document that is not a JSON object within its byte limit throws.
FormError(document, oversized, incompatible) ==
  IF document.form = "object" THEN "none"
  ELSE IF document.form = "oversized" THEN oversized
  ELSE IF document.form = "not an object" THEN incompatible
  ELSE document.form
-----------------------------------------------------------------------------
(***************************************************************************)
(* OfflineSemanticGrantRequest.prepare                                     *)
(***************************************************************************)
RequestHash(request) == [domain |-> "grant-request", view |-> request]

\* The tests after the manifest was read, in order.
RequestTests(r, host, view) ==
  LET expected == EvidenceError(host.evidence, view.entry, RequestErrors)
      requested == EvidenceError(r.evidence, view.entry, RequestErrors) IN <<
    <<expected # "none", expected>>,
    <<r.fields # "ok", r.fields>>,
    <<r.runtime # host.runtime \/ r.agent # host.agent, "grant_request_binding_mismatch">>,
    <<requested # "none", requested>>,
    <<r.evidence # host.evidence, "grant_request_identity_mismatch">>,
    <<r.resource_server # ResourceServer(view), "grant_request_binding_mismatch">>,
    <<r.location # ActionUrl(view), "grant_request_locations_mismatch">>,
    <<r.action # view.action.id, "grant_request_actions_mismatch">>,
    <<r.scope # view.scope, "grant_request_scopes_mismatch">>,
    <<r.terms # "ok", r.terms>> >>

RequestError(r, manifest, host) ==
  LET form == FormError(r, "grant_request_byte_limit", "grant_request_incompatible") IN
  IF form # "none" THEN form
  ELSE IF manifest = Forged THEN "invalid_manifest_binding"
  ELSE FirstError(RequestTests(r, host, retained[manifest].view))
-----------------------------------------------------------------------------
(***************************************************************************)
(* OfflineSelectedGrant.prepare                                            *)
(***************************************************************************)
GrantHash(view) == [domain |-> "grant", view |-> view]

\* The tests after the manifest was read, in order.
GrantTests(g, host, view) ==
  LET expected == EvidenceError(host.evidence, view.entry, GrantErrors)
      delegated == EvidenceError(g.evidence, view.entry, GrantErrors)
      bound == EvidenceError(g.binding.evidence, view.entry, GrantErrors) IN <<
    <<expected # "none", expected>>,
    <<g.fields # "ok", g.fields>>,
    <<g.subject # host.subject, "grant_binding_mismatch">>,
    <<g.runtime # host.runtime \/ g.agent # host.agent, "grant_binding_mismatch">>,
    <<g.resource_server # ResourceServer(view), "grant_binding_mismatch">>,
    <<view.audience # host.audience, "grant_audience_mismatch">>,
    <<g.location # ActionUrl(view), "grant_locations_mismatch">>,
    <<g.action # view.action.id, "grant_actions_mismatch">>,
    <<g.scope # view.scope, "grant_scopes_mismatch">>,
    <<g.method # "ok", g.method>>,
    <<g.binding.runtime # host.runtime \/ g.binding.agent # host.agent, "grant_binding_mismatch">>,
    <<delegated # "none", delegated>>,
    <<bound # "none", bound>>,
    <<g.binding.evidence # host.evidence, "grant_identity_mismatch">>,
    <<g.evidence # g.binding.evidence, "grant_identity_mismatch">>,
    <<g.terms # "ok", g.terms>>,
    <<g.data_exposure # Projection(view), "grant_data_exposure_mismatch">> >>

GrantError(grant, manifest, host) ==
  LET form == FormError(grant, "grant_byte_limit", "grant_incompatible") IN
  IF form # "none" THEN form
  ELSE IF grant.grant_hash = NoHash THEN "grant_hash_required"
  ELSE IF grant.grant_hash # GrantHash(grant.view) THEN "grant_hash_mismatch"
  ELSE IF manifest = Forged THEN "invalid_manifest_binding"
  ELSE FirstError(GrantTests(grant.view, host, retained[manifest].view))
-----------------------------------------------------------------------------
(***************************************************************************)
(* OfflineRequestGrantComposition: expiries. A timestamp is its local time *)
(* in seconds, the offset of its zone, and the digits of its fraction.     *)
(***************************************************************************)
\* Date.parse of the text without its fraction.
Whole(t) == t.local - t.offset

PadEnd(digits, width) == digits \o [i \in 1..(width - Len(digits)) |-> 0]

\* The order of texts of equal length.
TextAfter(a, b) == \E i \in DOMAIN a : a[i] > b[i] /\ \A j \in 1..(i - 1) : a[j] = b[j]

\* Mutation of LaterThan: fractions end at milliseconds, as Date.parse reads them.
LaterThan_Milliseconds(selected, requested) ==
  LET milliseconds(t) == SubSeq(PadEnd(t.fraction, FractionDigits), 1, 3) IN
  IF Whole(selected) # Whole(requested) THEN Whole(selected) > Whole(requested)
  ELSE TextAfter(milliseconds(selected), milliseconds(requested))

LaterThan(selected, requested) ==
  IF Whole(selected) # Whole(requested) THEN Whole(selected) > Whole(requested)
  ELSE LET width == FSX!Max({Len(selected.fraction), Len(requested.fraction)}) IN
       TextAfter(PadEnd(selected.fraction, width), PadEnd(requested.fraction, width))

\* Mutation of Snapshot: the snapshot is what the document's own parse answers.
Snapshot_Overridable(document) == CHOOSE value \in document.parses : TRUE

\* snapshot() reads the source text, whatever the document's own parse answers.
Snapshot(document) == document.text

\* What validate() throws: sizes before texts, then the request, the grant,
\* and their expiries.
CompositionTests(request, grant, manifest, host) ==
  LET r == Snapshot(request) g == Snapshot(grant) IN <<
    <<"oversized" \in {r.form, g.form}, "json_byte_limit">>,
    <<r.form \notin {"object", "not an object"}, r.form>>,
    <<g.form \notin {"object", "not an object"}, g.form>>,
    <<RequestError(r, manifest, host) # "none", RequestError(r, manifest, host)>>,
    <<GrantError(g, manifest, host) # "none", GrantError(g, manifest, host)>>,
    <<LaterThan(g.view.expires_at, r.expires_at), "grant_expiry_exceeds_request">> >>

CompositionError(request, grant, manifest, host) ==
  FirstError(CompositionTests(request, grant, manifest, host))
-----------------------------------------------------------------------------
(***************************************************************************)
(* Objects over time. A document is its source text, which is what it is   *)
(* when a genuine JsonDocument parses it, and the values its own parse may *)
(* answer: a subclass can answer something else at every call. The host's  *)
(* expectations are a mutable object that constructors read once.          *)
(***************************************************************************)
Handles == {m \in Manifest : retained[m] # Nothing} \cup {Forged}

NewRequest(document, manifest) ==
  object' = [kind |-> "request", document |-> document, manifest |-> manifest,
             host |-> expectations, prepared |-> Nothing, checked |-> "not called"]

\* Grants are genuine documents: their text is parsed anew at each use.
NewGrant(document, manifest) ==
  /\ document.parses = {document.text}
  /\ object' = [kind |-> "grant", document |-> document, manifest |-> manifest,
                host |-> expectations, prepared |-> Nothing, bound |-> {}]

NewComposition(request, grant, manifest) ==
  object' = [kind |-> "composition", request |-> request, grant |-> grant,
             manifest |-> manifest, host |-> expectations, outcome |-> "not called"]

Construct ==
  /\ object.kind = "none"
  /\ \E manifest \in Handles :
       \/ \E document \in RequestDocuments : NewRequest(document, manifest)
       \/ \E document \in GrantDocuments : NewGrant(document, manifest)
       \/ \E pair \in Pairs : NewComposition(pair[1], pair[2], manifest)
  /\ UNCHANGED <<resources, offered, retained, expectations>>

\* Mutation of RetainedRequest: the caller's document is retained.
RetainedRequest_Document(r, o) ==
  [document |-> o.document, hash |-> RequestHash(r),
   exposure |-> Projection(retained[o.manifest].view)]

\* What is retained is a document made from the value that was validated.
RetainedRequest(r, o) ==
  [document |-> [text |-> r, parses |-> {r}], hash |-> RequestHash(r),
   exposure |-> Projection(retained[o.manifest].view)]

\* The caller's document is parsed once; a refusal leaves the object as it was.
PrepareRequest ==
  /\ object.kind = "request" /\ object.prepared = Nothing
  /\ \E r \in object.document.parses :
       /\ RequestError(r, object.manifest, object.host) = "none"
       /\ object' = [object EXCEPT !.prepared = RetainedRequest(r, object)]
  /\ UNCHANGED <<resources, offered, retained, expectations>>

\* validate() and hash() of the prepared request: the hash is computed anew.
CheckRequest ==
  /\ object.kind = "request" /\ object.prepared # Nothing
  /\ \E r \in object.prepared.document.parses :
       object' = [object EXCEPT !.checked =
                   IF RequestHash(r) = object.prepared.hash THEN "none"
                   ELSE "grant_request_hash_mismatch"]
  /\ UNCHANGED <<resources, offered, retained, expectations>>

RetainedGrant(o) ==
  [document |-> o.document, hash |-> GrantHash(o.document.text.view),
   exposure |-> Projection(retained[o.manifest].view)]

PrepareGrant ==
  /\ object.kind = "grant" /\ object.prepared = Nothing
  /\ GrantError(object.document.text, object.manifest, object.host) = "none"
  /\ object' = [object EXCEPT !.prepared = RetainedGrant(object)]
  /\ UNCHANGED <<resources, offered, retained, expectations>>

\* validateFor compares what binds a grant to a surface with any prepared manifest.
ValidateFor(m) ==
  /\ object.kind = "grant" /\ object.prepared # Nothing
  /\ m \in Handles \ {Forged}
  /\ object.prepared.document.text.view.resource_server = ResourceServer(retained[m].view)
  /\ object' = [object EXCEPT !.bound = @ \cup {m}]
  /\ UNCHANGED <<resources, offered, retained, expectations>>

\* Mutation of Compose: the host's object is read when it is needed.
Compose_LiveHost ==
  /\ object.kind = "composition"
  /\ object' = [object EXCEPT !.outcome =
                  CompositionError(object.request, object.grant, object.manifest, expectations)]
  /\ UNCHANGED <<resources, offered, retained, expectations>>

Compose ==
  /\ object.kind = "composition"
  /\ object' = [object EXCEPT !.outcome =
                  CompositionError(object.request, object.grant, object.manifest, object.host)]
  /\ UNCHANGED <<resources, offered, retained, expectations>>

\* The host changes its object.
ChangeExpectations ==
  /\ expectations' \in Expected
  /\ UNCHANGED <<resources, offered, retained, object>>

Init ==
  /\ ResourcesInit
  /\ offered \in Offers
  /\ retained = [m \in Manifest |-> Nothing]
  /\ expectations \in Expected
  /\ object = [kind |-> "none"]

Next ==
  \/ Prepare /\ UNCHANGED offline
  \/ \E m \in Manifest : PrepareManifest(m) \/ ValidateFor(m)
  \/ \E m \in Manifest, direction \in {"input", "output"}, id \in Identifiers, instance \in Instances :
       JudgeDocument(m, direction, id, instance)
  \/ Construct
  \/ PrepareRequest \/ CheckRequest \/ PrepareGrant \/ Compose
  \/ ChangeExpectations

Spec == Init /\ [][Next]_vars
-----------------------------------------------------------------------------
(***************************************************************************)
(* Properties                                                              *)
(***************************************************************************)

\* The manifest an object was made for was prepared, unless it only looks so.
Usable(manifest) == manifest # Forged => manifest \in Manifest /\ retained[manifest] # Nothing

\* The types of the variables.
TypeOK ==
  /\ Measured(captured)
  /\ offered \in Offers /\ expectations \in Expected
  /\ retained = [m \in Manifest |-> retained[m]]
  /\ object.kind \in {"none", "request", "grant", "composition"}
  /\ object.kind # "none" => Usable(object.manifest) /\ object.host \in Expected
  /\ object.kind = "request" =>
       /\ object = [kind |-> "request", document |-> object.document, manifest |-> object.manifest,
                    host |-> object.host, prepared |-> object.prepared, checked |-> object.checked]
       /\ object.document \in RequestDocuments
  /\ object.kind = "grant" =>
       /\ object = [kind |-> "grant", document |-> object.document, manifest |-> object.manifest,
                    host |-> object.host, prepared |-> object.prepared, bound |-> object.bound]
       /\ object.document \in GrantDocuments
  /\ object.kind = "composition" =>
       /\ object = [kind |-> "composition", request |-> object.request, grant |-> object.grant,
                    manifest |-> object.manifest, host |-> object.host, outcome |-> object.outcome]
       /\ \E pair \in Pairs : object.request = pair[1] /\ object.grant = pair[2]

\* A manifest and the list behind its resource set that fit each other.
Sound(offer, list) ==
  LET m == offer.document v == offer.document.view IN
  /\ m.form = "object" /\ m.surface_hash = ManifestHash(v)
  /\ v.head = "ok" /\ v.body = "ok" /\ v.exposure = "ok"
  /\ v.entry = offer.entry
  /\ v.action.scope = v.scope
  /\ v.delivery # NoDelivery =>
       v.action.profiled /\ Len(v.delivery) = 1 /\ v.delivery[1] = v.action.id
  /\ \A e, f \in Endpoint : v.path[e] = v.path[f] => e = f
  /\ v.audience.origin = v.issuer => \A e \in Endpoint : v.audience.path # v.path[e]
  /\ Admissible(list)
  /\ \A uri \in References(v) : \E i \in DOMAIN list : list[i].uri = uri
  /\ View(list)[v.action.input_schema].hash = v.action.input_schema_hash

ManifestValues(capture) ==
  IF Sound(capture[1], capture[2])
  THEN {RetainedManifest(capture[1].document, View(capture[2]))} ELSE {}

MP(m) == INSTANCE PrepareOnce WITH
           Values <- ManifestValues,
           captured <- <<offered[m], captured>>, retained <- retained[m]

\* The schemas of a retained manifest are those of the resource set, which is
\* prepared by then, and both are whole.
ManifestsWhole ==
  \A m \in Manifest : retained[m] # Nothing =>
    /\ prepared = View(captured)
    /\ retained[m] \in ManifestValues(<<offered[m], captured>>)

\* A manifest is retained as a whole, with the hash of its content and schemas
\* that resolve in the shared set, or not at all, and then for good, whoever
\* prepared that set and whatever attempts failed before.
ManifestsPrepareOnce ==
  [][\A m \in Manifest : MP(m)!POPrepare \/ retained'[m] = retained[m]]_vars

\* A prepared request stands: whatever the caller's document answers later,
\* validate() of the retained request never fails, and its hash and exposure
\* are those of a value that passes against the manifest.
RequestStands ==
  object.kind = "request" =>
    /\ object.checked \in {"not called", "none"}
    /\ object.prepared # Nothing => LET r == object.prepared.hash.view IN
       /\ r.resource_server.surface_hash = retained[object.manifest].surfaceHash
       /\ r.evidence = object.host.evidence

\* A document is judged for a manifest by the very schemas it declares: an input
\* by the content the surface hash pins, and either within the work bound.
JudgedByDeclared ==
  validation # NotCalled =>
    LET v == offered[validation.manifest].document.view IN
    /\ validation.direction = "input" => validation.document.hash = v.action.input_schema_hash
    /\ \E i \in DOMAIN captured :
         /\ captured[i].document = validation.document
         /\ captured[i].uri = IF validation.direction = "input" THEN v.action.input_schema ELSE v.action.output_schema
    /\ WorkBounded

\* What an object retains, or answers, is of documents that passed every test
\* against the manifest and the expectations it was made with, and a grant is
\* bound to manifests of its resource server only.
ObjectsPassed ==
  /\ object.kind = "request" /\ object.prepared # Nothing =>
       \E r \in object.document.parses :
         /\ RequestError(r, object.manifest, object.host) = "none"
         /\ object.prepared = RetainedRequest(r, object)
  /\ object.kind = "grant" =>
       /\ object.prepared # Nothing =>
            /\ GrantError(object.document.text, object.manifest, object.host) = "none"
            /\ object.prepared = RetainedGrant(object)
       /\ object.bound # {} => object.prepared # Nothing
       /\ \A m \in object.bound :
            /\ m \in Manifest /\ retained[m] # Nothing
            /\ object.document.text.view.resource_server = ResourceServer(retained[m].view)
  /\ object.kind = "composition" =>
       object.outcome \in {"not called", CompositionError(object.request, object.grant,
                                                         object.manifest, object.host)}

\* In every state the variables have their types, retained manifests hold
\* schemas of the shared set and judge by them, no resource set was refused
\* unjustly, what objects hold has passed, and prepared requests stand.
Inv ==
  /\ TypeOK /\ PreparedWhole /\ RefusalsJustified /\ ManifestsWhole /\ JudgedByDeclared
  /\ ObjectsPassed /\ RequestStands

\* Four compared members bind a grant to the whole surface: two manifests that
\* both take one grant are equal in everything they declare.
GrantBindsSurface ==
  object.kind = "grant" => \A m \in object.bound :
    /\ retained[m].view = retained[object.manifest].view
    /\ object.prepared.exposure = Projection(retained[m].view)

\* What passes as a composition is one agreement: both texts name the same
\* delegate, surface, action and scope, the ones of the manifest and of what
\* the host expected when it made the composition, and the grant exposes what
\* the manifest declares.
ComposedAgree ==
  object.kind = "composition" /\ object.outcome = "none" =>
    LET r == object.request.text g == object.grant.text.view v == retained[object.manifest].view IN
    /\ \A field \in {"runtime", "agent", "evidence", "resource_server", "location", "action", "scope"} :
         r[field] = g[field]
    /\ g.resource_server.surface_hash = ManifestHash(v)
    /\ g.data_exposure = Projection(v)
    /\ object.host = [subject |-> g.subject, runtime |-> g.binding.runtime, agent |-> g.binding.agent,
                      evidence |-> g.binding.evidence, audience |-> v.audience]

\* Neither a grant that is bound nor a composition that passes leaves anything
\* to another agreement.
AgreementsBind == GrantBindsSurface /\ ComposedAgree

\* The instant a timestamp names, in the smallest unit that is written: the
\* whole seconds, and then one digit after the other.
Digit(t, i) == IF i \in DOMAIN t.fraction THEN t.fraction[i] ELSE 0

Scaled(t) ==
  LET upTo[i \in 0..FractionDigits] == IF i = 0 THEN Whole(t) ELSE 10 * upTo[i-1] + Digit(t, i) IN
  upTo

Instant(t) == Scaled(t)[FractionDigits]

\* A grant never outlasts its request by any fraction of a second, in whatever
\* zones and widths the two are written, and is refused for it only if it does.
ExpiryNeverExtended ==
  object.kind = "composition" =>
    LET r == object.request.text g == object.grant.text.view IN
    /\ object.outcome = "none" => Instant(g.expires_at) <= Instant(r.expires_at)
    /\ object.outcome = "grant_expiry_exceeds_request" => Instant(g.expires_at) > Instant(r.expires_at)
=============================================================================
