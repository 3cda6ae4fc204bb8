--------------------------- MODULE FinalizationHost ---------------------------
(***************************************************************************)
(* NonLiveFinalizationHost of tests/fixtures: what a host may tell and do  *)
(* about the outcome of a commit it cannot observe. An approved record is  *)
(* finalized once; an unknown outcome quarantines it until it is           *)
(* reconciled or its revocation is confirmed; only the head of a lineage   *)
(* can be replaced. The validator is a pure function, so finalize is one   *)
(* step. The transaction of a pending commit ends at any later time.       *)
(***************************************************************************)
EXTENDS Naturals, FiniteSets

CONSTANTS
  Record,         \* references; a lineage is named by its first record
  Nil,            \* no external revision, no live coverage
  MaxRevision     \* bound of the external revision

ASSUME ConstantsAssumption == MaxRevision \in Nat /\ Nil \notin Nat

VARIABLES
  lineage, revision, matches,    \* record: lineage, externalRevision, and whether
                                 \* preview and consent are over its material
  phase, quarantined, delivered,
  head,                          \* lineage.head
  externalRevision,
  answer                         \* what the host has said about a record, last

captured == <<lineage, revision, matches>>
vars == <<lineage, revision, matches, phase, quarantined, delivered, head,
          externalRevision, answer>>

Phase == {"absent", "approved", "pending", "committed", "closed", "revoked"}
Scenario == {"acknowledged", "lost-after-commit", "lost-before-commit", "pending"}
\* The answer unknown says nothing, and takes nothing back.
Answer == {"none", "rejected", "committed", "committed-frozen", "no-commit-closed"}
Revision == Nat \cup {Nil}

TypeOK ==
  /\ lineage \in [Record -> Record]
  /\ revision \in [Record -> Revision]
  /\ matches \in [Record -> BOOLEAN]
  /\ phase \in [Record -> Phase]
  /\ quarantined \subseteq Record /\ delivered \subseteq Record
  /\ head \in [Record -> Record]
  /\ externalRevision \in Revision
  /\ answer \in [Record -> Answer]

Init ==
  /\ lineage = [r \in Record |-> r]
  /\ revision = [r \in Record |-> Nil]
  /\ matches = [r \in Record |-> FALSE]
  /\ phase = [r \in Record |-> "absent"]
  /\ quarantined = {} /\ delivered = {}
  /\ head = [r \in Record |-> r]
  /\ externalRevision = Nil
  /\ answer = [r \in Record |-> "none"]

SetExternalRevision(n) ==
  /\ externalRevision # Nil => n > externalRevision
  /\ externalRevision' = n
  /\ UNCHANGED <<captured, phase, quarantined, delivered, head, answer>>

\* #approve
Enter(r, l, m) ==
  /\ phase[r] = "absent"
  /\ lineage' = [lineage EXCEPT ![r] = l]
  /\ revision' = [revision EXCEPT ![r] = externalRevision]
  /\ matches' = [matches EXCEPT ![r] = m]
  /\ phase' = [phase EXCEPT ![r] = "approved"]
  /\ head' = [head EXCEPT ![l] = r]
  /\ UNCHANGED <<quarantined, delivered, externalRevision, answer>>

Approve(r, m) == Enter(r, r, m)

IsHead(r) == head[lineage[r]] = r

\* Mutations of Replaceable: any record of the lineage; quarantine is not asked.
Replaceable_AnyRecord(r) == phase[r] \in {"closed", "revoked"} /\ r \notin quarantined

Replaceable_Quarantined(r) == phase[r] \in {"closed", "revoked"} /\ IsHead(r)

Replaceable(r) ==
  phase[r] \in {"closed", "revoked"} /\ IsHead(r) /\ r \notin quarantined

\* The fresh record gets fresh decisions over fresh material.
Replace(r, fresh) == Replaceable(r) /\ Enter(fresh, lineage[r], TRUE)

\* External ordering, where the record was approved under it: coverage is the
\* revision of a live, ordered coverage, or Nil.
Covered(r, coverage) ==
  revision[r] # Nil => coverage = revision[r] /\ externalRevision = revision[r]

\* now is a safe integer or not.
Valid(r, safeNow, coverage) == matches[r] /\ safeNow /\ Covered(r, coverage)

CommittedPhase(scenario) ==
  IF scenario = "pending" THEN "pending"
  ELSE IF scenario = "lost-before-commit" THEN "closed"
  ELSE "committed"

Finalize(r, safeNow, scenario, coverage) ==
  /\ phase[r] = "approved" /\ IsHead(r) /\ r \notin quarantined
  /\ IF Valid(r, safeNow, coverage)
     THEN /\ phase' = [phase EXCEPT ![r] = CommittedPhase(scenario)]
          /\ quarantined' = IF scenario = "acknowledged" THEN quarantined ELSE quarantined \cup {r}
          /\ answer' = [answer EXCEPT ![r] =
               IF scenario = "acknowledged" THEN "committed" ELSE @]
     ELSE /\ phase' = [phase EXCEPT ![r] = "closed"]
          /\ answer' = [answer EXCEPT ![r] = "rejected"]
          /\ UNCHANGED quarantined
  /\ UNCHANGED <<captured, delivered, head, externalRevision>>

\* The transaction of a pending commit ends.
Settle(r, committed) ==
  /\ phase[r] = "pending"
  /\ phase' = [phase EXCEPT ![r] = IF committed THEN "committed" ELSE "closed"]
  /\ UNCHANGED <<captured, quarantined, delivered, head, externalRevision, answer>>

\* Mutation of Outcome: a row that is not there yet is taken for none.
Outcome_PendingClosed(r, read) ==
  IF read # "authoritative" THEN "unknown"
  ELSE IF phase[r] = "committed" THEN "committed-frozen"
  ELSE "no-commit-closed"

Outcome(r, read) ==
  IF read # "authoritative" \/ phase[r] = "pending" THEN "unknown"
  ELSE IF phase[r] = "committed" THEN "committed-frozen"
  ELSE "no-commit-closed"

Reconcile(r, read) ==
  /\ r \in quarantined
  /\ answer' = [answer EXCEPT ![r] =
       IF Outcome(r, read) = "unknown" THEN @ ELSE Outcome(r, read)]
  /\ quarantined' =
       IF Outcome(r, read) = "no-commit-closed" THEN quarantined \ {r} ELSE quarantined
  /\ UNCHANGED <<captured, phase, delivered, head, externalRevision>>

ConfirmRevocation(r) ==
  /\ phase[r] = "committed" /\ r \in quarantined
  /\ phase' = [phase EXCEPT ![r] = "revoked"]
  /\ quarantined' = quarantined \ {r}
  /\ UNCHANGED <<captured, delivered, head, externalRevision, answer>>

Deliver(r) ==
  /\ phase[r] = "committed" /\ r \notin quarantined /\ r \notin delivered
  /\ delivered' = delivered \cup {r}
  /\ UNCHANGED <<captured, phase, quarantined, head, externalRevision, answer>>

Next ==
  \/ \E n \in 0..MaxRevision : SetExternalRevision(n)
  \/ \E r \in Record :
       \/ \E m \in BOOLEAN : Approve(r, m)
       \/ \E fresh \in Record : Replace(r, fresh)
       \/ \E safeNow \in BOOLEAN, s \in Scenario, c \in (0..MaxRevision) \cup {Nil} :
            Finalize(r, safeNow, s, c)
       \/ \E committed \in BOOLEAN : Settle(r, committed)
       \/ \E read \in {"authoritative", "stale", "unavailable"} : Reconcile(r, read)
       \/ ConfirmRevocation(r)
       \/ Deliver(r)

Spec == Init /\ [][Next]_vars
-----------------------------------------------------------------------------
(***************************************************************************)
(* What the host promises.                                                 *)
(***************************************************************************)

\* The record could still come to have, or already has, authority.
Unresolved(r) == phase[r] \in {"approved", "pending", "committed"} \/ r \in quarantined

\* A lineage never has two records that may hold authority: replacements cannot
\* fork it, nor overtake an outcome that is not known yet.
OneUnresolvedPerLineage ==
  \A r \in Record : phase[r] # "absent" /\ Unresolved(r) =>
    /\ IsHead(r)
    /\ \A s \in Record \ {r} :
         phase[s] # "absent" /\ lineage[s] = lineage[r] => ~ Unresolved(s)

\* What the host has said stays true: a record said to have no commit never gets
\* one, although its transaction was still running when it was asked first, and
\* one said to be committed is so until a revocation.
AnswersStayTrue ==
  \A r \in Record :
    /\ answer[r] \in {"rejected", "no-commit-closed"} => phase[r] = "closed" /\ ~ Unresolved(r)
    /\ answer[r] = "committed" => phase[r] = "committed" /\ r \notin quarantined
    /\ answer[r] = "committed-frozen" => phase[r] \in {"committed", "revoked"}

\* Only what the host was told to be committed is ever delivered.
DeliveredWasAcknowledged == \A r \in delivered : answer[r] = "committed"
=============================================================================
