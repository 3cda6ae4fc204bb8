# TLA+ models of agent-surface-js

These modules model the parts of agent-surface-js whose correctness depends on
order, on remembered state or on more than one actor, and the algorithms whose
limits are easy to get wrong. Every definition translates code of the
repository; `PROJECT.json` maps each one to its lines. `tlc -config X.cfg M`
checks a run, `tlapm M.tla` a module of proofs.

## The system

The package (`src/`) is an offline SDK: synchronous, deterministic functions that
turn untrusted JSON text into *prepared* values that only the SDK can make.
Constructors capture, `prepare()` validates once and caches a success. Around it
the repository keeps experiments with durable hosts (two Go fences over SQLite),
an experimental proposal exchange, a prototype of action authoring, and three
executable models of host contracts that its tests qualify.

| Component | State it keeps | Operations | Interacts with | What makes it correct |
| --- | --- | --- | --- | --- |
| SQLite host fence (`experiments/sqlite-host-fence`) | tables account, session, candidate, publication; references in memory | Retain, Attempt, SessionWithdrawal, AccountChange, SessionRotation | other goroutines and hosts over one database file | one publication per account, only under current authority; drift is flagged; an ended attempt closes the account |
| Memos storage fence (`experiments/memos-storage-fence`) | the same, beside Memos's user and user_setting tables; withdrawals; a revision counter | retain, attempt, beginWithdrawal, resumeWithdrawal, removeSession, reconcileWithdrawal, addSession, triggers | Memos itself, whose writers and caches know nothing of it | one open publication per user; frozen accounts publish nothing; withdrawn sessions stay away; a removal can be retried; reconciliation is earned |
| Schema qualification (`src/offline-schema-resources.ts`, class SchemaQualification) | nodes, edges, counters of one walk | qualify | called per resource; its weight bounds every later instance | cycles and only cycles are rejected; limits exact; weight complete; it ends |
| Schema resource sets (same file) | the prepared set | prepare, resolve, resolveInput, validate | qualification, the Ajv engine, every prepared manifest | a set is prepared whole or not at all, and only resolved by exact key and hash; limits exact; work bounded |
| JSON text boundary (`json-document.ts`, `canonical-object-hash.ts`, `surface-snapshot.ts`) | the text | parse, digest, hash | everything | nesting bounded before any recursion, whatever texts contain; no duplicate member; no number or text is lost |
| Data classes and exposure (`data-class-catalog.ts`, `data-exposure.ts`, `manifest-exposure-declarations.ts`) | set of known ids, once valid | validate, validateClasses, validation of a manifest's declarations | manifests, inventories | a catalog is published whole, in strict code point order; every declared exposure names published classes |
| Offline proposal manifest | cached prepared value; a WeakSet of its own values | prepare, hash, validateInput, validateOutput | schema resources; requests, grants | retained whole, with its hash and schemas that resolve, or not at all; only values it made are accepted |
| Offline request, grant, composition | cached prepared values | prepare, validate, validateFor | manifest | what was validated is what is retained; both bind the same manifest and host; the grant does not outlive the request |
| Action authoring (`src/authoring`) | captured declarations, prepared inventory and its base | prepare, validateInput, validateOutput | data classes, schema resources | captured once and within exact bounds; prepared whole, for one base for good; lowering a schema changes nothing it means |
| Action authoring prototype (`experiments/offline-action-authoring`) | definitions, the prepared catalog and its base | constructors, prepare, validateInput, validateOutput | the same | the same, though it lowers only unions and leaves the rest to qualification |
| Proposal exchange (`experiments/offline-proposal-exchange`) | the retained request, and beside it the inline message | prepare, correlate, checkReceiptIntegrity, the inline forms | schemas; the host, the transport and both receipt issuers | request, result and both receipts form one chain, and only such a chain passes |
| Host issuance contract (`tests/fixtures`) | sources, records, decisions, epoch, clock | approve, consent, commit with hooks, deliver, revoke, invalidate, recover | hooks that re-enter; the host's clock and sources | authority that stands is current; doubt blocks the host; nothing is delivered across a restart |
| Finalization outcome (`tests/fixtures`) | records in lineages, quarantine, deliveries | approve, replace, finalize, settle, reconcile, confirmRevocation, deliver | a commit whose outcome is seen late | lineages do not fork; answers stay true |
| Proposal dispatch (`tests/fixtures`) | accesses with quotas, clock | provision, invoke, revoke, rotate, retire, identity | callbacks that re-enter; prepared manifests | quota conserved; nothing enters after authority ended |

Hard behaviours: transactions of several goroutines and hosts interleave, and one
stays open across a hook and a second clock read; a COMMIT fails with either
outcome and acknowledgements are lost; hosts stop and their references are gone;
rows captured earlier are used after others have changed them; a writer restores
what its cache still holds; callbacks re-enter the object that runs them, throw,
or outlive a restart; outcomes arrive after they were asked for; expansions grow
exponentially against fixed limits; objects are edited after they were handed
over; sound parts of different exchanges are presented together. `PROJECT.json` lists each hazard at its line.

## Modules

Names follow the code. An action is a whole handler up to the point where it
gives up control; a transaction that takes SQLite's write lock when it begins
(`_txlock=immediate`) and never leaves the database is one action.

**SqliteFence** (`fence.go`). The candidate's state column is `state`, the
columns Retain writes once are `captured`, the rows of publication are a set.
Attempt is three actions and their failures: `Claim` (first transaction),
`BeginPublication` (second transaction up to the hook), `DeadlineGuard` (second
clock read), `CommitPublication`; each may instead end in `Return*`,
`AbandonPublication`, `FailPublication` or an uncertain COMMIT, which the model
gives both outcomes. `writer` is the lock. `owner` is the process memory: a
`Restart` loses references and running calls. Raw SQL behind the fence is
`BypassWithdrawal`, present when `BypassWriters`. **SingleIssuance** is the
abstract specification: per account open, claimed, issued, revoking, spent.

**MemosFence** (`asp_nonlive_fence.go`). The same protocol over Memos's tables:
a setting row is readable or not and holds tokens; the five AFTER triggers are
`Invalidate`, the four BEFORE triggers `Admissible`, part of each writing action.
`UpsertUserSetting`, `DeleteUserSettings` and `WriteUser` are Memos's own writers,
which write any row, as a stale cache does. A withdrawal is begun, removed and
reconciled in separate actions; resumeWithdrawal is the predicate `Resumable`.

**SchemaQualification**. A schema is the sequence of its subschemas in the order
`#visit` reaches them plus one reference target each; the recursion of
`rejectCycles` is an explicit stack. `#expansion` is two recursive functions: its
loop over the edges of a node (`Sums`), and its calls by the levels of depth they
have left (`Calls`).
Constructs that are refused whatever surrounds them are one form of subschema.

**SchemaResources** (the rest of that file). `Prepare` is one synchronous call: a
loop over the captured list (`Stages`, the set after each turn, a recursive
function), retained only when no turn failed. A
resource is what the tests tell apart: size, form, $id, the outcome of
qualification with its counts and weight, hash. `Resolve`, `ResolveInput` and
`Validate` follow the prepared set; the engine may answer anything when it runs.

**OfflineProposal** (`offline-proposal-manifest.ts`, `offline-semantic-grant-request.ts`,
`offline-selected-grant.ts`, `offline-request-grant-composition.ts`) extends it:
several manifest objects share one resource set, and a manifest that was
prepared judges documents by the schemas it pins (`JudgeDocument`). The closed grammar of a record is
one member that holds "ok" or its error; every member that is compared between
documents is modelled, and so is every relation between declarations. `object` is the request, grant or composition in use;
`expectations` is the host's object, which it may change at any time. A document
has its `text` and the values its own `parses` may answer, since a subclass of
JsonDocument may answer differently at each call. **PrepareOnce** is the abstract
specification of prepare() of both; **Checks** has the first error of a list of tests.

**Declarations**, **DataClasses**. A closed object is a record of the members it
has; a name is its sequence of code points. A catalog is validated once and
remembered (`known`); a manifest's declarations are checked against the exposures
of its actions, resources and events. `ClassesAssumption` says what these values
can be once they are parsed: any member may be missing or `Malformed`.

**ActionInventory** (`src/authoring`) and **ActionCatalog** (the prototype). A
declaration is captured when the object is made, or fails. `PrepareInventory` and
`PrepareCatalog` are prepare() with the catalog of data classes, the loop over the
declarations (`Declares`, `Collects`: what is gathered after each turn, a recursive
function over `Gather`) and the resource set that the loop fills. The prototype has
definitions that fail when they are copied, foreign entries and a list its caller
edits later. Both are instances of **PrepareOnce**. Which objects are captured,
which schemas are taken and what documents they become are constant operators
here (`Capturable`, `Lowerable`, `LoweredTo`, `Admitted`; `Copyable`, `Unlowered`,
`Misshapen`, `WrittenTo`).

**CapturedDeclarations**, **TypeBoxSchema**, **SchemaLowering** define them. What a
developer hands over is a heap of objects that share and contain one another, each
plain, loose (hidden members, holes, other keys) or unfit (accessors, another
prototype). The package's capture walks it within three bounds (`Captures`); the
prototype's `snapshotDeclaration` keeps the same bounds and takes more (`Copies`).
A TypeBox schema of the package is checked (`Lowers`), lowered (`Lower`) and measured
as qualification measures it (`Qualification`, `Weight`, `Compiles`, together
`SchemaDocument`); `Admits` is the reference semantics of a schema, lowered or not.
The prototype lowers unions only, wherever the walk over `properties`, `$defs`,
`items`, `prefixItems` and `additionalProperties` finds them (`LoweringError`,
`LowerUnions`), asks for closed objects and no root `$schema` or `$id`
(`ShapeError`), writes what is left as JSON (`Serialized`) and leaves every other
keyword to qualification (`Written`). **Authoring** puts all of it together, with the
properties that relate a judged document to the schema its developer wrote; its run
binds the operators of ActionInventory and ActionCatalog to these definitions.

**JsonText**. A text is its tokens and the tree the parser makes of it; the
bracket count goes over the tokens and the checks over the tree.

**ProposalExchange** with **Timestamps** (`offline-proposal-exchange/src`). Requests,
results, host contexts, receipts and decisions are records of their members, and
hashes are the hashed records themselves. `Prepare`, `Correlate`, `CheckReceipts`
are the ordinary exchange, `PrepareInline` and `CheckInline` the form that carries
manifest, grant and receipts inside its messages. Every action takes any
document, in any order; `Exchanges` are the exchanges honest parties carry out
and appear in properties only. A timestamp is compared as its text; days, seconds
and nanoseconds since the calendar began are what the properties compare.

**HostIssuance** (`host-issuance-contract-model.ts`). A commit is `Commit` (checks,
then the first hook), `Linearize` (checks again), `CommitReturns`; the hooks are
callbacks, so running commits are the stack `calls` and every operation may
happen between two steps of the innermost; `HookThrows` is the catch block.
**WithheldAuthority** is the abstract specification: a record becomes live at most
once and never while another is withheld.

**FinalizationHost** (`finalization-outcome-model.ts`). A lineage is named by its
first record. `answer` is the last definite thing the host said of a record.
`Settle` is the end of a pending transaction, at any later time.

**ProposalDispatch** (`proposal-dispatch-model.ts`). `Invoke` is everything up to
the verification callback, `Dispatch` the fence, `Leave` the return or any throw.

`MC*` modules give constants and symmetry. `*Proofs` modules hold the proofs.

## Runs

| Run | Instance | What it shows |
| --- | --- | --- |
| sqlite_fence | 1 account, 2 sessions, 3 candidates, 2 calls, 2 hosts, clock to 2, revisions to 2 | safety under contention, duplicate calls, restarts, uncertain commits |
| sqlite_fence_bypass | 2 accounts, 2 sessions, 2 candidates, 2 calls, raw writers, fairness | the inductive invariant, the refinement of SingleIssuance, publication under current authority, every Attempt returns |
| sqlite_fence_retry | 1 candidate, 1 call | expected violation, see Findings |
| memos_attempts | 1 user, 2 sessions, 2 candidates, 2 calls, 2 withdrawals | attempts against withdrawals and Memos writers |
| memos_withdrawals | 1 user, 2 sessions, tokens of every expiry, 2 withdrawals | removals, reconciliation and stale writers |
| schema_graphs | all schemas of up to 4 objects, up to 3 subschemas of any form, one of 5 | the walk against reference definitions on the graph: cycles and only they, complete weights, exact limits, an end |
| authoring | one focus per behaviour: lists of up to 3 resources; inventories and prototype catalogs of up to 3 actions for four spellings of bases; catalogs and manifests; texts of up to 3 levels | whole or not at all, once and for one base; nothing sound is refused; documents are judged as the declared schema means, with unions, references and definitions at any place, if the schema is written plainly; bounds on objects, texts and work are exact |
| offline_proposal | 2 manifests over one set, 3 surfaces, a defect in each test; requests and grants that agree or fail in one member; 16 pairs of expiries; documents judged by either schema | retained manifests, requests that stand, grants bound to a surface, compositions that agree |
| host_issuance | one focus per behaviour: 2 records, 4 decisions, 1 source, 2 epochs; or 1 record, 3 decisions, 2 sources, 2 deadlines | nesting, restarts, doubt, drift, expiry and withdrawn decisions around a commit; the refinement of WithheldAuthority |
| finalization_lineages | 3 records in up to 3 lineages, revisions to 2 | forks, late settlements, answers |
| dispatch_reentry | 2 accesses, quota to 2, nesting 2, 2 generations; evidence of identity that is active, dated back or not available, in doubt for one access at a time | quota, closing and rotation against nested invocations |
| proposal_exchange | one exchange in full; others that differ from it in one choice; its documents with one member altered, hashes recomputed or not; fractions of different width | only whole exchanges pass and they always do; a decision never follows its receipt; a receipt settles one exchange |

Why the bounds are enough. Conflicts in the fences are between two rows of one
account or two calls; a third candidate lets one wait while two race. Two
revisions distinguish current from captured, and time only matters against one
deadline, so two or three instants suffice. Withdrawals need a second one to meet
the tombstone of a first. Three or four nodes give every shape the search
distinguishes (tree edge, shared definition, back edge, unreached definition),
and each limit is both met and passed. Nesting two deep has an outer and an inner
commit or invocation; a deeper one adds another pair of the same. Three records
give a lineage a closed member, a head and a rival. Three resources
give a set one before and one after the one that fails. Two manifests suffice to
compare what two accept, and documents that fail one test each cover tests that
are independent of each other; expiries differ in zone, width and last digit. An
exchange that differs from another in one choice is the hardest one to tell apart
from it. The package's limits (1024 nodes, 256 levels, 2000000 units of work and so on)
are constants of a few units, each met and passed by some instance.

A focus restricts a behaviour to parts that share no state, so that their
instances are added and not multiplied. In `authoring` a document that was judged
or a manifest that was accepted ends its behaviour, as judging changes nothing.

Where a run says `CHECK_DEADLOCK FALSE` the system may stop: qualification is one
call, a finalization host with every record resolved has nothing left to do, and an
offline value or an exchange that was prepared and checked may never be used again.

Type invariants are part of `Inv` or of the inductive `IInv`; FinalizationHost's is
proved and not checked.

Symmetry is over interchangeable identities only, and not where liveness is
checked.

Fairness. `AttemptReturns` assumes weak fairness of each call's next step: the Go
scheduler runs it, `busy_timeout` bounds the wait for the lock and every database
call returns. Nothing is assumed of other writers, of restarts or of callers.
`Terminates` assumes that one synchronous call keeps running.

Every property of a passing run has a mutant in `PROJECT.json`: a definition of
the code changed the way a bug would, under which the run finds it violated.

## Findings

`sqlite_fence_retry`: the experiment's README says that uncertain attempts cannot
be retried. When the COMMIT of the *claim* fails and did not take effect, Attempt
returns ErrUncertain and the row is still pending, so a later Attempt on the same
reference claims and publishes it. Nothing is published twice: the safety
properties hold with these retries.

## Proofs

For every value of the constants (the modules' `ConstantsAssumption`):

* **SqliteFenceProofs.** `IInv` is inductive: types; one publication per account;
  the tables agree; a call past its claim owns an attempted, unpublished row and
  holds the lock exactly while its transaction is open; no two claims of one
  account are in flight; what the open transaction has read still holds. The last
  three are the strengthening: without them a commit could meet a publication or
  an invalidation it had not seen. From it follow `TypeCorrect`,
  `SinglePublication`, `TablesAgree`, `PublicationIsAuthorized`, `ConsumedForGood`
  and the `Refinement` of SingleIssuance. `AuthorityNeverStale` assumes that no
  writer bypasses the fence.
* **SchemaQualificationProofs.** `IInv`: the edges built so far are exactly the
  evaluations of the schema; the stack is a path of them over distinct unfinished
  nodes; finished nodes have finished successors and no set of them loops. So
  `CyclesAreFound`: what passes evaluates nothing twice along a path, and
  schema_reference_cycle is thrown only for a schema that does. `LimitsInv` adds what
  the counters have counted and what the expansion of the nodes so far has
  found. Each evaluation has exactly one edge for each way it is evaluated
  (`NextCounted`), so sums along edges are sums over the schema; a path of an acyclic
  graph is no longer than the schema (`AcyclicPathsEnd`), so the totals over
  paths are the same for every greater length and add up from node to node
  (`TotalIsFixpoint`); by induction along the loop of `#expansion` and along its levels
  of depth a call returns these totals or gives up on a node that passes a
  limit (`ExpansionIsExact`). So `WeightAddsUp` and `LimitsAreKept`.
* **FinalizationHostProofs.** `IInv` adds that a lineage was founded by a record
  and that answers, quarantine and phases fit. So `LineagesNeverFork`,
  `AnswersAreFinal`, `DeliveryIsAcknowledged`.
* **ProposalExchangeProofs.** `IInv`: the evidence that waits for receipts is about
  the request that was retained, an inline message is well formed, and what passed
  is linked to its request through every hash (`Linked`). A hash of a view determines the
  view, so two chains for one request that name the same runtime receipt agree in
  it, and with the same result receipt also in output, context and decision:
  `ReceiptSettlesExchange`. `DecisionsPrecede`: the checks compare texts, and the
  property days of the Gregorian calendar, seconds and nanoseconds. The lemmas show that the
  texts are in that order for every year to 9999 and every fraction: years ascend by
  365 days and a leap day (`YearsAscend`), months within years (`MonthsAscend`), the
  first digit that differs decides a padded fraction (`NanosecondsAscend`).
* **MemosFenceProofs.** `IInv` is inductive: a row at the current revision of its user
  is backed by the tables (`RevisionsGuard`); a running call has a claimed row of its
  own, at that revision once it has the lock (`CallsOwnClaims`); of two rows of one user that
  are published or about to be, one is closed (`OneContender`); one withdrawal of a
  user at a time (`FrozenOnce`). The revision is the whole strengthening: every
  write of Memos that could take authority away moves it in the same transaction.
  From it follow `AuthorityHolds` (`Inv`), `RemovalsProceed`, `ReconciliationIsFinal`,
  `FreezeHolds` and `WithdrawnStaysAway`.
* **HostIssuanceProofs.** What one step can make of one record is a relation on the
  record (`Keeps`, `Moves`, `Doubts`, `Stays`); each operation satisfies it for every
  record and every nesting of commits. From it follow `AuthorityHolds` (`Inv`),
  `PublishedInTime`, `DoubtHolds` and `ContractWithholds`, the refinement of
  WithheldAuthority step by step.
* **ProposalDispatchProofs.** `QuotaHolds` is `Inv`: what an access has left and its
  entries add up to its quota, and the handlers on the stack are among the entries
  paid for, at any depth of nesting. `EntryIsAdmitted` is the action property.
* **OfflineProposalProofs.** `Inv` of OfflineProposal over that of SchemaResources:
  `AffordableIsExact` (dividing the bound by a weight admits exactly the instances whose units at
  that weight stay within it), `ResourcesHold`, `SetPreparedOnce` and
  `ManifestsPrepared` (both preparations implement PrepareOnce), `Invariant`,
  `AgreementsHold`, `ExpiriesHold`. What is proved of a list of tests is stated test
  by test: no error means that each of them passed. The loop over the list and the
  digits of a timestamp are recursive functions; their values are found by induction
  with sets of numbers, from the fact that a nonempty set of numbers has a least
  one (`LeastNat`, `Induction`).
  For the data classes, `CatalogStaysWhole`: comparing neighbours suffices because the
  order of names is transitive, and the order of their code points is the order of
  their UTF-8 texts, as each code point's bytes are its digits to the base 64 under a
  lead byte that tells their number. For the authoring, `ActionsPrepared` (both
  preparations implement PrepareOnce and answer for the base they were asked for)
  and `RefusalsAreSound`: a catalog and an exposure are refused exactly when they
  break a stated rule (`CatalogJudged`, `ExposureJudged`), and after each turn of the
  loop either everything so far is sound, with distinct ids, and is gathered whole
  (`GatherPrepares`), or the list breaks a rule (`GatherJudges`).
  `AuthoringAssumption` and `CatalogueAssumption` say only that objects denote values
  and that a schema that is taken becomes a measured document.

The strengthenings are conjuncts of the invariants the runs check, or, like `IInv`,
`LimitsInv`, `ClassesInv`, `AuthoringInv` and `CatalogueInv`, add to them what the proof needs.
The assumptions on constants say what their values are (lists, numbers, closed
records), never what the code does with them.

Only model-checked:

* liveness: `AttemptReturns`, `Terminates`;
* `JudgedBySchema` and `BoundsAreExact`: what lowering, capture and parsing do to
  every schema, heap and text is an induction over data, and their operators are
  RECURSIVE (TypeBoxSchema, SchemaLowering, CapturedDeclarations, JsonText), which
  the prover does not read;
* `OnlyWholePasses` and `WholeIsNeverRefused`, which relate the documents of the
  instance to its exchanges: for other documents they would have to be assumed.

## Not modelled

* SQLite, Ajv, jsonc-parser, canonicalize, hashing and clocks are external. The
  clock of the fences never goes back: MemosFence's `RemovalNeverBlocked` and
  `ReconciledIsFinal` rest on that. A COMMIT that takes longer than the validity
  of its candidate is within the code's stated limits and not excluded.
* OfflineProposal takes SHA-256 over canonical JSON to be injective. Manifests,
  grants, schemas and identity documents are genuine JsonDocuments, whose text
  never changes; only requests and the sources of a composition may be of a
  subclass. What parsing, URL syntax and profile lists reject is a given error.
* JsonText leaves the byte limit to its callers, who ask for it, and the order in which
  two defects of one text are reported.
* `CaptureExact` bounds a capture from above with one value of slack for an array,
  and one for each hole.
* The prototype's documents are compared with the declared schema only if it is
  written plainly (`WrittenPlainly` in `JudgedBySchema`), which is what the
  experiment's README asks for ("use plain data records and TypeBox schemas as the
  supported authoring inputs"). Others are taken: `snapshotDeclaration` keeps hidden
  members and numbers that are not finite, and `validateSchemaShape` still sees
  the hidden ones. Only JSON.stringify, after it, drops what is hidden and writes
  null for what JSON has no number for. Such schemas are among the inputs, and two
  assumptions of MCAuthoring that TLC evaluates show what may become of them: a hidden
  `additionalProperties: false` passes for a closed object and becomes an open one
  (`HiddenMembersAreLost`), and `const: NaN` comes to admit null
  (`UnwritableLiteralsAreNull`).
* Which node the prototype's walk over unions fails at first.
* ProposalExchange has one byte limit where the constructors take several; a length
  includes the rendering where the code measures it, for requests and inline
  messages. It orders a decision before its receipt, as
  the code does; the runtime's and the application's receipts are not ordered by it.
* A connection left open after a failed COMMIT; there is no API that lifts a
  freeze other than reconciliation; a Memos session that ends outside the control
  path leaves its user blocked (a hazard without a property).
* Counters and traces the fixtures keep for tests; the re-entrance guard of
  finalize, which a pure validator cannot reach; the syntax of JSON pointers.
* Examples, consumers, scripts and CI: they build, pack and exercise what is
  modelled and keep no state of their own.

## Plan

The modules and theorems that were planned are done. What could follow:

* `OnlyWholePasses` and `WholeIsNeverRefused` as theorems, once it is said of documents in
  general, and not of an instance's, which exchange they belong to;
* `JudgedBySchema` and `BoundsAreExact` as theorems, with a prover that does induction
  over data;
* a property for the Memos session that ended outside the control path, once the
  code says what should become of its candidates.
