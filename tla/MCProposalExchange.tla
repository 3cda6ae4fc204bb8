------------------------- MODULE MCProposalExchange -------------------------
(***************************************************************************)
(* Instances of ProposalExchange for TLC: one exchange in full, others     *)
(* that differ from it in one respect each, and documents of the first one *)
(* with one member altered, its hashes recomputed or not.                  *)
(***************************************************************************)
EXTENDS ProposalExchange

LOCAL TLCX == INSTANCE TLC

\* What an honest exchange is free to choose.
Base ==
  [session_id |-> "a", session_generation |-> 1, grant_id |-> "a", grant_hash |-> "a",
   surface_hash |-> "a", action_id |-> "a", idempotency_key |-> "a", trace_id |-> "a",
   mode |-> "propose", execution_id |-> "a", span_id |-> "a", input |-> "a", app_id |-> "a", surface_version |-> "a",
   runtime |-> "a", actor_agent |-> "a", subject |-> "a",
   runtime_policy |-> "a", application_policy |-> "a",
   runtime_receipt |-> "ra", app_receipt |-> "aa", runtime_times |-> "a", app_times |-> "a",
   app_span |-> "x", output |-> "a"]

Alternative(f) ==
  CASE f = "session_generation" -> 2
    [] f = "runtime_receipt" -> "rb" [] f = "app_receipt" -> "ab"
    [] f = "app_span" -> "y" [] f = "mode" -> "propose"
    [] OTHER -> "b"

Vary(p, fields) == [f \in DOMAIN p |-> IF f \in fields THEN Alternative(f) ELSE p[f]]

\* A second exchange with nothing in common, retries of the first one by the
\* application, and one exchange for each other choice.
Others ==
  {Vary(Base, {f}) : f \in DOMAIN Base \ {"mode"}}
    \cup {Vary(Base, {"app_receipt", "output"}), Vary(Base, {"app_receipt", "app_times", "app_span"})}
    \cup {[Base EXCEPT !.runtime_times = "equal"], [Base EXCEPT !.app_times = "equal"]}
Choices == {Base} \cup Others
Stranger == Vary(Base, DOMAIN Base)

\* Exchanges whose parties do what they must not.
Flawed ==
  {[Base EXCEPT !.runtime_times = t] : t \in {"late", "no day", "leap second"}}
    \cup {[Base EXCEPT !.app_times = t] : t \in {"late", "yesterday", "too fine", "none"}}
    \cup {[Base EXCEPT !.app_span = "a"], [Base EXCEPT !.app_receipt = "ra"],
          [Base EXCEPT !.session_generation = 0], [Base EXCEPT !.mode = "commit"],
          [Base EXCEPT !.input = "z"], [Base EXCEPT !.output = "c"], [Base EXCEPT !.output = "z"]}

Utc(year, month, day, hour, minute, second, fraction) ==
  [year |-> year, month |-> month, day |-> day, hour |-> hour, minute |-> minute,
   second |-> second, fraction |-> fraction]

\* When a decision was made and its receipt written: over a turn of the year and
\* in fractions of different width, or in a leap day and at the same instant.
Moments(times) ==
  CASE times = "a" -> <<Utc(2023, 12, 31, 23, 59, 59, <<9, 5>>), Utc(2024, 1, 1, 0, 0, 0, <<>>)>>
    [] times = "b" -> <<Utc(2024, 2, 29, 12, 0, 0, <<2, 5>>), Utc(2024, 2, 29, 12, 0, 0, <<5>>)>>
    [] times = "equal" -> <<Utc(2024, 2, 29, 12, 0, 0, <<5, 0>>), Utc(2024, 2, 29, 12, 0, 0, <<5>>)>>
    [] times = "late" -> <<Utc(2024, 2, 29, 12, 0, 0, <<5>>), Utc(2024, 2, 29, 12, 0, 0, <<2, 5>>)>>
    [] times = "yesterday" -> <<Utc(2024, 3, 1, 0, 0, 0, <<>>), Utc(2024, 2, 29, 23, 59, 59, <<9>>)>>
    [] times = "no day" -> <<Utc(2023, 2, 28, 0, 0, 0, <<>>), Utc(2023, 2, 29, 0, 0, 0, <<>>)>>
    [] times = "leap second" -> <<Utc(2023, 2, 28, 0, 0, 0, <<>>), Utc(2023, 2, 28, 23, 59, 60, <<>>)>>
    [] times = "too fine" -> <<Utc(2023, 2, 28, 0, 0, 0, <<>>), Utc(2023, 2, 28, 1, 0, 0, <<0, 0, 0, 0, 0, 0, 0, 0, 0, 1>>)>>
    [] times = "none" -> <<Utc(2023, 2, 28, 0, 0, 0, <<>>), Malformed>>

Execution(p) == [mode |-> p.mode, execution_id |-> p.execution_id]
InputHash(p) == Hash("action-input", p.input)
ExecutionHash(p) == Hash("action-execution", Execution(p))

\* The members every document repeats.
Shared(p) ==
  [session_id |-> p.session_id, session_generation |-> p.session_generation,
   grant_id |-> p.grant_id, grant_hash |-> p.grant_hash, surface_hash |-> p.surface_hash,
   action_id |-> p.action_id, idempotency_key |-> p.idempotency_key, trace_id |-> p.trace_id,
   execution_hash |-> ExecutionHash(p), execution |-> Execution(p)]

Scope(p) ==
  [input_hash |-> InputHash(p), app_id |-> p.app_id, surface_version |-> p.surface_version,
   runtime |-> p.runtime, actor_agent |-> p.actor_agent, subject |-> p.subject]

Merge(f, g) == TLCX!@@(f, g)

Decision(role, p, evaluated) ==
  LET view == [type |-> "policy.decision", decision_id |-> p.span_id,
               enforcer |-> <<SelectedRole(role), IF role = "runtime" THEN p.runtime ELSE p.app_id>>,
               outcome |-> "allow",
               policy |-> IF role = "runtime" THEN p.runtime_policy ELSE p.application_policy,
               reason_code |-> "policy_allowed", matched_rules |-> <<"r1", "r2">>,
               safe_to_show |-> "shown", evaluated_at |-> evaluated] IN
  Merge(view, [policy_decision_hash |-> Hash("policy-decision", view)])

Sealed(view) == Merge(view, [receipt_hash |-> Hash("receipt", view)])

RuntimeView(p) ==
  LET decision == Decision("runtime", p, Moments(p.runtime_times)[1]) IN
  Merge(Merge(Shared(p), Scope(p)),
    [span_id |-> p.span_id, receipt_id |-> p.runtime_receipt, receipt_type |-> "runtime",
     result |-> "authorized_for_forwarding", policy_decision |-> decision,
     policy_decision_hash |-> decision.policy_decision_hash, timestamp |-> Moments(p.runtime_times)[2]])

Runtime(p) == Sealed(RuntimeView(p))

AppView(p) ==
  LET decision == Decision("app", p, Moments(p.app_times)[1]) IN
  Merge(Merge(Shared(p), Scope(p)),
    [span_id |-> p.app_span, receipt_id |-> p.app_receipt, receipt_type |-> "app",
     result |-> "success", policy_decision |-> decision,
     policy_decision_hash |-> decision.policy_decision_hash, timestamp |-> Moments(p.app_times)[2],
     parent_receipt_hash |-> Runtime(p).receipt_hash, output_hash |-> Hash("action-output", p.output)])

App(p) == Sealed(AppView(p))

Context(p) ==
  Merge(Merge(Shared(p), Scope(p)),
    [span_id |-> p.span_id,
     policies |-> [runtime |-> p.runtime_policy, application |-> p.application_policy]])

Asked(p) ==
  Merge(Shared(p),
    [span_id |-> p.span_id, parent_receipt_hash |-> Runtime(p).receipt_hash,
     input_hash |-> InputHash(p), input |-> p.input])

Answered(p) ==
  Merge(Shared(p),
    [span_id |-> p.app_span, result |-> "success", output |-> p.output,
     receipt_id |-> p.app_receipt, receipt_hash |-> App(p).receipt_hash])

Document(value) == [bytes |-> 1, value |-> value]
Request(payload) == [type |-> "action.request", payload |-> payload]
Result(payload) == [type |-> "action.result", payload |-> payload]

Carry(message, profile, receipt) ==
  Document(Merge(message, [carrier |-> [profile |-> profile, receipt |-> receipt]]))
InlineRequest(p) == Carry(Request(Asked(p)), InlineProfile, Runtime(p))
InlineResult(p) == Carry(Result(Answered(p)), InlineProfile, App(p))

ManifestOf(p) ==
  [surface_hash |-> p.surface_hash, action_id |-> p.action_id, app_id |-> p.app_id,
   surface_version |-> p.surface_version,
   delivery |-> [profile |-> InlineProfile, action_ids |-> <<p.action_id>>]]
GrantOf(p) == [hash |-> p.grant_hash, surface_hash |-> p.surface_hash]

Offer(manifest, grant, document, context) ==
  [manifest |-> manifest, grant |-> grant, document |-> document, context |-> context]
HonestOffer(p) == Offer(ManifestOf(p), GrantOf(p), InlineRequest(p), Context(p))

Whole(p) ==
  [request |-> Document(Request(Asked(p))), asked |-> Asked(p),
   result |-> Document(Result(Answered(p))), answered |-> Answered(p), context |-> Context(p),
   runtime |-> Runtime(p), app |-> App(p), offer |-> HonestOffer(p), inlineResult |-> InlineResult(p)]

\* The schemas take the inputs and outputs of honest exchanges.
SomeInputAnswer(input) == IF input \in {"a", "b"} THEN "undefined" ELSE "throws"
SomeOutputAnswer(output) ==
  CASE output \in {"a", "b"} -> "undefined" [] output = "c" -> "promise" [] OTHER -> "throws"

\* One member is another exchange's, or none the grammar knows.
Altered(record, other) == {[record EXCEPT ![f] = other[f]] : f \in DOMAIN record}
Broken(record) ==
  {[record EXCEPT ![f] = Malformed] : f \in DOMAIN record}
    \cup {Without(record, "execution"), Merge(record, [extra |-> "a"]), Malformed}

\* Receipts that were altered after they were sealed, and sealed ones that say
\* what a receipt of that role must not.
AlteredReceipts(receipt, other) ==
  Altered(receipt, other) \cup Broken(receipt)
    \cup {[receipt EXCEPT !.policy_decision = d] :
            d \in Altered(receipt.policy_decision, other.policy_decision)}

Redecided(view, outcome, rules, policy) ==
  LET old == view.policy_decision
      new == Without([old EXCEPT !.outcome = outcome, !.matched_rules = rules, !.policy = policy],
                     "policy_decision_hash") IN
  Sealed([view EXCEPT !.policy_decision = Merge(new, [policy_decision_hash |-> Hash("policy-decision", new)]),
                      !.policy_decision_hash = Hash("policy-decision", new)])

Missealed(view) ==
  {Sealed(v) : v \in Broken(view) \ {Malformed}}
    \cup {Sealed([view EXCEPT !.receipt_type = "app"]), Sealed([view EXCEPT !.receipt_type = "runtime"]),
          Sealed([view EXCEPT !.result = "denied"]),
          Redecided(view, "deny", <<>>, "a"), Redecided(view, "allow", <<>>, "b"),
          Redecided(view, "allow", <<"r1", "r1">>, "a"),
          Redecided(view, "allow", <<"r1", "r2", "r3">>, "a")}

Together(context, runtime, app) == [context |-> context, runtime |-> runtime, app |-> app]

AllPresentations ==
  {Together(Context(p), Runtime(p), App(p)) : p \in Choices \cup Flawed}
    \cup {Together(c, Runtime(Base), App(Base)) :
            c \in {Context(p) : p \in Others} \cup Broken(Context(Base))}
    \cup {Together(Context(Base), r, App(Base)) :
            r \in {Runtime(p) : p \in Others} \cup AlteredReceipts(Runtime(Base), Runtime(Stranger))
                    \cup Missealed(RuntimeView(Base))}
    \cup {Together(Context(Base), Runtime(Base), a) :
            a \in {App(p) : p \in Others} \cup AlteredReceipts(App(Base), App(Stranger))
                    \cup Missealed(AppView(Base))}
    \cup {Together(Context(Base), App(Base), Runtime(Base))}

Oversized(document) == [document EXCEPT !.bytes = ByteLimit + 1]

AllRequests ==
  {Document(Request(Asked(p))) : p \in Choices \cup Flawed}
    \cup {Document(Request(a)) : a \in Altered(Asked(Base), Asked(Stranger)) \cup Broken(Asked(Base))}
    \cup {Oversized(Document(Request(Asked(Base)))), Document(Malformed), Document(Result(Answered(Base)))}

AllResults ==
  {Document(Result(Answered(p))) : p \in Choices \cup Flawed}
    \cup {Document(Result(a)) : a \in Altered(Answered(Base), Answered(Stranger)) \cup Broken(Answered(Base))}
    \cup {Oversized(Document(Result(Answered(Base)))), Document(Malformed), Document(Request(Asked(Base))),
          Document(Result([Answered(Base) EXCEPT !.result = "failure"]))}

AllOffers ==
  {HonestOffer(p) : p \in Choices \cup Flawed}
    \cup {[HonestOffer(Base) EXCEPT !.document = Carry(Request(Asked(Base)), InlineProfile, r)] :
            r \in {Runtime(p) : p \in Others} \cup AlteredReceipts(Runtime(Base), Runtime(Stranger))}
    \cup {[HonestOffer(Base) EXCEPT !.document = Oversized(InlineRequest(Base))],
          [HonestOffer(Base) EXCEPT !.document = Carry(Request(Asked(Base)), "other", Runtime(Base))],
          [HonestOffer(Base) EXCEPT !.document.value.carrier = Malformed],
          [HonestOffer(Base) EXCEPT !.document = InlineResult(Base)],
          [HonestOffer(Base) EXCEPT !.document = Document(Malformed)],
          [HonestOffer(Base) EXCEPT !.manifest.delivery.profile = "other"],
          [HonestOffer(Base) EXCEPT !.grant.surface_hash = "b"]}
    \cup {[HonestOffer(Base) EXCEPT !.context = Context(p)] : p \in Others}
    \cup {[HonestOffer(Base) EXCEPT !.manifest = ManifestOf(p), !.grant = GrantOf(p)] : p \in Others}

AllInlineResults ==
  {InlineResult(p) : p \in Choices \cup Flawed}
    \cup {Carry(Result(Answered(p)), InlineProfile, App(Base)) : p \in Others}
    \cup {Carry(Result(Answered(Base)), InlineProfile, a) :
            a \in {App(p) : p \in Others} \cup AlteredReceipts(App(Base), App(Stranger))}
    \cup {Carry(Result(Answered(Base)), "other", App(Base)), InlineRequest(Base), Oversized(InlineResult(Base))}

AllExchanges == {Whole(p) : p \in Choices}

\* TLC keeps the value of a definition, but not of one that replaces a constant.
SomePresentations == AllPresentations
SomeRequests == AllRequests
SomeResults == AllResults
SomeOffers == AllOffers
SomeInlineResults == AllInlineResults
HonestExchanges == AllExchanges
=============================================================================
