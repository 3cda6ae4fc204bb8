-------------------------- MODULE MCOfflineProposal --------------------------
(***************************************************************************)
(* An instance of OfflineProposal for TLC: two manifest objects, two       *)
(* versions of a surface, one document of each kind that agrees with each  *)
(* version, and one for each way a document may fail to.                   *)
(***************************************************************************)
EXTENDS OfflineProposal

Names == {"input", "output", "event", "receipt"}

Schema(hash) ==
  [form |-> "schema", id |-> {}, bytes |-> 1, qualification |-> "none",
   nodes |-> 1, references |-> 0, weight |-> 1, compiles |-> TRUE, hash |-> hash]

Complete ==
  <<[uri |-> "input", document |-> [Schema("h1") EXCEPT !.weight = 2]], [uri |-> "output", document |-> Schema("h2")],
    [uri |-> "event", document |-> Schema("h2")], [uri |-> "receipt", document |-> Schema("h2")]>>

SomeLists ==
  {Complete, SubSeq(Complete, 1, 3),
   [Complete EXCEPT ![4].document.qualification = "schema_reference_cycle"]}

\* Two versions that differ in their number and in what the action exposes.
Surface(version) ==
  [head |-> "ok", body |-> "ok", exposure |-> "ok",
   app_id |-> "app", issuer |-> "https://app", surface_version |-> version,
   entry |-> {"passport"}, scope |-> "scope",
   path |-> [e \in Endpoint |-> e], audience |-> [origin |-> "https://app", path |-> "api"],
   action |-> [id |-> "action", scope |-> "scope", input_schema |-> "input",
               input_schema_hash |-> "h1", output_schema |-> "output", profiled |-> TRUE, data_exposure |-> version],
   delivery |-> NoDelivery,
   event |-> [schema |-> "event", data_exposure |-> "none"],
   receipt_schema |-> "receipt"]

Document(view) == [form |-> "object", surface_hash |-> ManifestHash(view), view |-> view]

V1 == Surface("v1")
V2 == Surface("v2")

\* A surface of the same version that exposes something else, and delivers
\* receipts.
V1Wider == [V1 EXCEPT !.action.data_exposure = "v2", !.delivery = <<"action">>]

Offer(document) == [document |-> document, entry |-> {"passport"}]

BadViews ==
  {[V1 EXCEPT !.head = "surface_incompatible"],
   [V1 EXCEPT !.entry = {"other"}],
   [V1 EXCEPT !.body = "resource_inventory_unsupported"],
   [V1 EXCEPT !.delivery = <<>>],
   [V1 EXCEPT !.delivery = <<"other">>],
   [V1 EXCEPT !.delivery = <<"action", "action">>],
   [V1 EXCEPT !.delivery = <<"action">>, !.action.profiled = FALSE],
   [V1 EXCEPT !.path["session"] = "action"],
   [V1 EXCEPT !.audience.path = "management"],
   [V1 EXCEPT !.scope = "other"],
   [V1 EXCEPT !.exposure = "invalid_data_exposure"],
   [V1 EXCEPT !.action.input_schema_hash = "h2"],
   [V1 EXCEPT !.receipt_schema = "missing"]}

BadOffers ==
  {Offer(Document(v)) : v \in BadViews}
    \cup {Offer([Document(V1) EXCEPT !.surface_hash = NoHash]),
          Offer([Document(V1Wider) EXCEPT !.surface_hash = ManifestHash(V1)]),
          Offer([Document(V1) EXCEPT !.form = "manifest_byte_limit"])}

\* Two manifests that are equal, that differ in their version, or only in what
\* they expose; and each defect in the first of two.
SomeOffers ==
  {[m \in Manifest |-> IF m = first THEN Offer(Document(v)) ELSE Offer(Document(V1))] :
     first \in {CHOOSE m \in Manifest : TRUE}, v \in {V1, V2, V1Wider}}
    \cup {[m \in Manifest |-> IF m = first THEN bad ELSE Offer(Document(V1))] :
            first \in {CHOOSE m \in Manifest : TRUE}, bad \in BadOffers}

Evidence == [form |-> "ok", profile |-> "passport", subject |-> "agent"]

Host == [subject |-> "user", runtime |-> "runtime", agent |-> "agent",
         evidence |-> Evidence, audience |-> V1.audience]

\* What the host expects can change in any of its members.
SomeExpected ==
  {Host, [Host EXCEPT !.subject = "other"], [Host EXCEPT !.evidence.subject = "other"]}

\* Expiries around one instant: other zones, widths and the smallest digit.
Time(local, offset, fraction) == [local |-> local, offset |-> offset, fraction |-> fraction]
Noon == Time(60, 0, <<5>>)
OtherTimes ==
  {Time(60, 0, <<5, 0>>), Time(60, 0, <<5, 0, 0, 1>>), Time(60, 0, <<>>), Time(60, 0, <<4, 9, 9, 9>>),
   Time(120, 60, <<5, 0, 0>>), Time(60, 60, <<9>>), Time(60, -60, <<>>)}

Request(view) ==
  [form |-> "object", fields |-> "ok", terms |-> "ok",
   runtime |-> "runtime", agent |-> "agent", evidence |-> Evidence,
   resource_server |-> ResourceServer(view), location |-> ActionUrl(view),
   action |-> view.action.id, scope |-> view.scope, expires_at |-> Noon]

Genuine(value) == [text |-> value, parses |-> {value}]

\* A document whose own parse answers differ from its text and from each other.
Changing(text, parses) == [text |-> text, parses |-> parses]

R1 == Request(V1)
SomeRequests ==
  {Genuine(r) : r \in
     {R1, Request(V2),
      [R1 EXCEPT !.form = "oversized"], [R1 EXCEPT !.form = "not an object"],
      [R1 EXCEPT !.fields = "grant_request_incompatible"],
      [R1 EXCEPT !.agent = "other"], [R1 EXCEPT !.evidence.subject = "other"], [R1 EXCEPT !.evidence.form = "invalid"],
      [R1 EXCEPT !.location.path = "session"], [R1 EXCEPT !.action = "other"], [R1 EXCEPT !.scope = "other"],
      [R1 EXCEPT !.terms = "grant_request_constraints_invalid"]}}
   \cup {Changing(R1, {R1, Request(V2)}), Changing([R1 EXCEPT !.form = "duplicate_json_member"], {R1})}

GrantView(view) ==
  [fields |-> "ok", method |-> "ok", terms |-> "ok", subject |-> "user",
   runtime |-> "runtime", agent |-> "agent", evidence |-> Evidence,
   binding |-> [runtime |-> "runtime", agent |-> "agent", evidence |-> Evidence],
   resource_server |-> ResourceServer(view), location |-> ActionUrl(view),
   action |-> view.action.id, scope |-> view.scope, expires_at |-> Noon,
   data_exposure |-> Projection(view)]

GrantOf(view) == [form |-> "object", grant_hash |-> GrantHash(view), view |-> view]

G1 == GrantView(V1)
SomeGrants ==
  {Genuine(GrantOf(g)) : g \in
     {G1, GrantView(V2), GrantView(V1Wider),
      [G1 EXCEPT !.subject = "other"], [G1 EXCEPT !.runtime = "other"],
      [G1 EXCEPT !.binding.agent = "other"], [G1 EXCEPT !.binding.evidence.subject = "other"],
      [G1 EXCEPT !.action = "other"], [G1 EXCEPT !.data_exposure = Projection(V2)],
      [G1 EXCEPT !.method = "grant_incompatible"]}}
   \cup {Genuine([GrantOf(G1) EXCEPT !.grant_hash = NoHash]),
         Genuine([GrantOf(G1) EXCEPT !.view.subject = "other"]),
         Genuine([GrantOf(G1) EXCEPT !.form = "oversized"]),
         Changing(GrantOf([G1 EXCEPT !.scope = "other"]), {GrantOf(G1)})}

\* Every request with a grant that agrees, every grant with such a request, and
\* every expiry with two of them.
SomePairs ==
  (SomeRequests \X {Genuine(GrantOf(G1))})
    \cup ({Genuine(R1), Genuine(Request(V2))} \X SomeGrants)
    \cup {<<Genuine([R1 EXCEPT !.expires_at = r]), Genuine(GrantOf([G1 EXCEPT !.expires_at = g]))>> :
            r \in {Noon, Time(60, 0, <<5, 0, 0, 1>>)}, g \in OtherTimes \cup {Noon}}

\* An instance that only the output schema can afford, and one too deep.
SomeInstances ==
  {[form |-> "json", bytes |-> 1, nodes |-> n, depth |-> d, text |-> 0] : n \in {1, 2}, d \in {0, 2}}

\* Judging a document changes nothing else: no object is in use meanwhile, and
\* it ends a behaviour.
MCNext ==
  /\ validation = NotCalled
  /\ Next
  /\ validation' # NotCalled => object.kind = "none"

MCSpec == Init /\ [][MCNext]_vars
=============================================================================
