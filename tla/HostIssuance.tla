----------------------------- MODULE HostIssuance -----------------------------
(***************************************************************************)
(* The host issuance contract of tests/fixtures, the executable model the  *)
(* repository qualifies for a future issuing host: approved records,       *)
(* consent decisions, a commit with a hook before and after its            *)
(* linearization point, private delivery, revocation and restart.          *)
(*                                                                         *)
(* The hook is a callback that may use the whole interface, a further      *)
(* commit included, and may throw. Running commits are therefore a stack,  *)
(* and every other operation can happen at any time: from the host when no *)
(* commit runs, from the hook of the topmost one otherwise.                *)
(*                                                                         *)
(* A binding is the revision and the deadline of every source, as captured *)
(* at approval. A call that throws before it changed anything is no step.  *)
(***************************************************************************)
EXTENDS Naturals, Sequences

CONSTANTS
  Record, Consent,         \* approved records, consent decisions
  Material, Trusted,       \* sources; the principal and the runtime
  Deadline,                \* the values deadlines take
  Binds, Qualified,        \* whether a decision is over the record's binding, and
                           \* an external source ordered: which of both is tried
  Nil,                     \* a decision that is not supplied
  MaxRevision, MaxTime, MaxEpoch        \* bounds of the counters

ASSUME ConstantsAssumption ==
  /\ Trusted \subseteq Material
  /\ Deadline \subseteq Nat /\ Deadline # {}
  /\ Binds \subseteq BOOLEAN /\ Qualified \subseteq BOOLEAN
  /\ Nil \notin Consent
  /\ {MaxRevision, MaxTime, MaxEpoch} \subseteq Nat

VARIABLES
  source,           \* #sources
  record,           \* #records
  consent,          \* #consentByReference
  calls,            \* the running commits, innermost last
  now, epoch,
  ordered,          \* the identity source is ordered with commits
  recoveryBlocked

vars == <<source, record, consent, calls, now, epoch, ordered, recoveryBlocked>>

Status == {"approved", "invalidated", "committed", "delivered", "frozen",
           "revoked", "epoch-invalidated"}
Kind == {"local-preview", "issuer"}
Point == {"before-linearization", "after-linearization"}

Captured == [Material -> [revision : Nat, deadline : Nat]]
Source == [revision : Nat, deadline : Nat, active : BOOLEAN]
RecordState ==
  [status : Status, captured : Captured, attempted : BOOLEAN, consumed : BOOLEAN,
   consentRevision : Nat, needsRevocation : BOOLEAN, epoch : Nat]
ConsentState ==
  [record : Record, kind : Kind, binds : BOOLEAN, revision : Nat, withdrawn : BOOLEAN]
Call == [record : Record, local : Consent, issuer : Consent, point : Point]

\* Before it is approved or recorded, a reference stands for nothing.
Absent == [status |-> "absent", consumed |-> FALSE, needsRevocation |-> FALSE]
Unrecorded == [record |-> Nil, withdrawn |-> TRUE]

TypeOK ==
  /\ source \in [Material -> Source]
  /\ record \in [Record -> RecordState \cup {Absent}]
  /\ consent \in [Consent -> ConsentState \cup {Unrecorded}]
  /\ calls \in Seq(Call)
  /\ now \in Nat /\ epoch \in Nat
  /\ ordered \in BOOLEAN /\ recoveryBlocked \in BOOLEAN

\* Sources start active at revision 1; the first deadlines are any.
Init ==
  /\ \E deadline \in [Material -> Deadline] :
       source = [m \in Material |-> [revision |-> 1, deadline |-> deadline[m], active |-> TRUE]]
  /\ record = [r \in Record |-> Absent]
  /\ consent = [c \in Consent |-> Unrecorded]
  /\ calls = <<>>
  /\ now = 0 /\ epoch = 1
  /\ ordered = TRUE /\ recoveryBlocked = FALSE

Binding ==
  [m \in Material |-> [revision |-> source[m].revision, deadline |-> source[m].deadline]]

Withheld(r) == record[r].needsRevocation /\ record[r].status # "revoked"
-----------------------------------------------------------------------------
(***************************************************************************)
(* The checks of a commit.                                                 *)
(***************************************************************************)

\* #assertAvailable
Available == ~ recoveryBlocked /\ \A r \in Record : ~ Withheld(r)

\* Mutation of Decided: a decision over other material counts.
Decided_AnyBinding(r, local, issuer) ==
  /\ local # Nil /\ issuer # Nil
  /\ \A c \in {local, issuer} :
       /\ consent[c].record = r /\ ~ consent[c].withdrawn
       /\ consent[c].revision = record[r].consentRevision
  /\ consent[local].kind = "local-preview" /\ consent[issuer].kind = "issuer"
  /\ Binding = record[r].captured

\* #assertDecisions
Decided(r, local, issuer) ==
  /\ local # Nil /\ issuer # Nil
  /\ \A c \in {local, issuer} :
       /\ consent[c].record = r /\ ~ consent[c].withdrawn
       /\ consent[c].revision = record[r].consentRevision
       /\ consent[c].binds
  /\ consent[local].kind = "local-preview" /\ consent[issuer].kind = "issuer"
  /\ Binding = record[r].captured

\* #assertTrustedPrincipalAndRuntime, #assertExternalOrdering
HostReady == ordered /\ \A m \in Trusted : source[m].active

\* Mutations of Current: the clock is not read; the epoch is not compared.
Current_AnyTime(r) ==
  /\ record[r].status = "approved" /\ ~ record[r].consumed
  /\ record[r].epoch = epoch
  /\ \A m \in Material : source[m].active
  /\ Binding = record[r].captured

Current_AnyEpoch(r) ==
  /\ record[r].status = "approved" /\ ~ record[r].consumed
  /\ \A m \in Material : source[m].active /\ source[m].deadline > now
  /\ Binding = record[r].captured

\* #assertCurrent
Current(r) ==
  /\ record[r].status = "approved" /\ ~ record[r].consumed
  /\ record[r].epoch = epoch
  /\ \A m \in Material : source[m].active /\ source[m].deadline > now
  /\ Binding = record[r].captured

\* Mutation of Failed: the record is frozen, and no revocation is asked for.
Failed_NoRevocation(rec) ==
  [rec EXCEPT !.status = IF rec.consumed THEN "frozen" ELSE "invalidated"]

\* The catch block of commit: uncertain once it is past the linearization.
Failed(rec) ==
  IF rec.consumed THEN [rec EXCEPT !.status = "frozen", !.needsRevocation = TRUE]
  ELSE [rec EXCEPT !.status = "invalidated"]
-----------------------------------------------------------------------------
ApproveCurrentMaterial(r) ==
  /\ record[r] = Absent
  /\ Available
  /\ record' = [record EXCEPT ![r] =
       [status |-> "approved", captured |-> Binding, attempted |-> FALSE, consumed |-> FALSE,
        consentRevision |-> 1, needsRevocation |-> FALSE, epoch |-> epoch]]
  /\ UNCHANGED <<source, consent, calls, now, epoch, ordered, recoveryBlocked>>

RecordConsent(r, c, kind, binds) ==
  /\ record[r].status = "approved" /\ ~ record[r].attempted /\ ~ record[r].consumed
  /\ consent[c] = Unrecorded
  /\ consent' = [consent EXCEPT ![c] =
       [record |-> r, kind |-> kind, binds |-> binds,
        revision |-> record[r].consentRevision, withdrawn |-> FALSE]]
  /\ UNCHANGED <<source, record, calls, now, epoch, ordered, recoveryBlocked>>

WithdrawConsent(c) ==
  /\ ~ consent[c].withdrawn
  /\ consent' = [consent EXCEPT ![c].withdrawn = TRUE]
  /\ LET r == consent[c].record  rec == [record[r] EXCEPT !.consentRevision = @ + 1] IN
       record' = [record EXCEPT ![r] =
         IF rec.status = "approved" THEN [rec EXCEPT !.status = "invalidated"]
         ELSE IF rec.status \in {"committed", "delivered"}
              THEN [rec EXCEPT !.needsRevocation = TRUE]
              ELSE rec]
  /\ UNCHANGED <<source, calls, now, epoch, ordered, recoveryBlocked>>

\* commit up to its first hook; a failed check uses the record up.
Commit(r, local, issuer) ==
  /\ record[r].status = "approved" /\ ~ record[r].attempted /\ ~ record[r].consumed
  /\ record[r].epoch = epoch
  /\ LET attempted == [record[r] EXCEPT !.attempted = TRUE] IN
     IF Available /\ Decided(r, local, issuer) /\ HostReady
     THEN /\ record' = [record EXCEPT ![r] = attempted]
          /\ calls' = Append(calls, [record |-> r, local |-> local, issuer |-> issuer,
                                     point |-> "before-linearization"])
     ELSE /\ record' = [record EXCEPT ![r] = Failed(attempted)]
          /\ calls' = calls
  /\ UNCHANGED <<source, consent, now, epoch, ordered, recoveryBlocked>>

Innermost == calls[Len(calls)]
Outer == SubSeq(calls, 1, Len(calls) - 1)

\* Mutation of Rechecked: the first Available check is taken to be enough.
Rechecked_NotAvailable(k) ==
  Decided(k.record, k.local, k.issuer) /\ HostReady /\ Current(k.record)

\* All checks again, after the hook.
Rechecked(k) ==
  Available /\ Decided(k.record, k.local, k.issuer) /\ HostReady /\ Current(k.record)

\* The first hook returned: the linearization point, or the catch block.
Linearize ==
  /\ calls # <<>> /\ Innermost.point = "before-linearization"
  /\ LET r == Innermost.record IN
     IF Rechecked(Innermost)
     THEN /\ record' = [record EXCEPT ![r].consumed = TRUE, ![r].status = "committed"]
          /\ calls' = Append(Outer, [Innermost EXCEPT !.point = "after-linearization"])
     ELSE /\ record' = [record EXCEPT ![r] = Failed(@)]
          /\ calls' = Outer
  /\ UNCHANGED <<source, consent, now, epoch, ordered, recoveryBlocked>>

\* A hook throws, before or after the linearization.
HookThrows ==
  /\ calls # <<>>
  /\ record' = [record EXCEPT ![Innermost.record] = Failed(@)]
  /\ calls' = Outer
  /\ UNCHANGED <<source, consent, now, epoch, ordered, recoveryBlocked>>

\* The second hook returned.
CommitReturns ==
  /\ calls # <<>> /\ Innermost.point = "after-linearization"
  /\ calls' = Outer
  /\ UNCHANGED <<source, record, consent, now, epoch, ordered, recoveryBlocked>>
-----------------------------------------------------------------------------
\* The outcome is uncertain or acknowledged.
DeliverPrivately(r) ==
  /\ record[r].status = "committed" /\ ~ record[r].needsRevocation
  /\ \/ record' = [record EXCEPT ![r].status = "frozen", ![r].needsRevocation = TRUE]
     \/ record' = [record EXCEPT ![r].status = "delivered"]
  /\ UNCHANGED <<source, consent, calls, now, epoch, ordered, recoveryBlocked>>

ConfirmRevocation(r) ==
  /\ Withheld(r)
  /\ record' = [record EXCEPT ![r].status = "revoked", ![r].needsRevocation = FALSE]
  /\ UNCHANGED <<source, consent, calls, now, epoch, ordered, recoveryBlocked>>

\* What a changed source does to a record.
Outdated(rec) ==
  IF rec.status = "approved" /\ ~ rec.consumed THEN [rec EXCEPT !.status = "invalidated"]
  ELSE IF rec.status \in {"committed", "delivered"} THEN [rec EXCEPT !.needsRevocation = TRUE]
  ELSE rec

\* invalidate, and setActive, which invalidates whatever it sets.
Invalidate(m, active) ==
  /\ source[m].revision < MaxRevision
  /\ source' = [source EXCEPT ![m].revision = @ + 1, ![m].active = active]
  /\ record' = [r \in Record |-> Outdated(record[r])]
  /\ UNCHANGED <<consent, calls, now, epoch, ordered, recoveryBlocked>>

SetDeadline(m, deadline) ==
  /\ source' = [source EXCEPT ![m].deadline = deadline]
  /\ UNCHANGED <<record, consent, calls, now, epoch, ordered, recoveryBlocked>>

AdvanceTo(time) ==
  /\ now' = time
  /\ UNCHANGED <<source, record, consent, calls, epoch, ordered, recoveryBlocked>>

MarkIdentityAsExternal(orderingQualified) ==
  /\ ordered' = orderingQualified
  /\ UNCHANGED <<source, record, consent, calls, now, epoch, recoveryBlocked>>
-----------------------------------------------------------------------------
(***************************************************************************)
(* recoverAfterRestart, by strategy. Every record is of an earlier epoch   *)
(* once the epoch has been increased.                                      *)
(***************************************************************************)
RecoverUnsupported ==
  /\ recoveryBlocked' = TRUE
  /\ UNCHANGED <<source, record, consent, calls, now, epoch, ordered>>

EpochEnded(rec) ==
  IF rec = Absent THEN rec
  ELSE IF ~ rec.consumed THEN [rec EXCEPT !.status = "invalidated"]
  ELSE IF rec.status \in {"revoked", "epoch-invalidated"} THEN rec
  ELSE [rec EXCEPT !.status = "epoch-invalidated", !.needsRevocation = FALSE]

RecoverInvalidatingOldEpoch ==
  /\ epoch < MaxEpoch /\ epoch' = epoch + 1
  /\ record' = [r \in Record |-> EpochEnded(record[r])]
  /\ UNCHANGED <<source, consent, calls, now, ordered, recoveryBlocked>>

Retained(rec) ==
  IF rec.status = "committed" /\ rec.consumed
  THEN [rec EXCEPT !.status = "frozen", !.needsRevocation = TRUE] ELSE rec

RecoverRetainingState ==
  /\ epoch < MaxEpoch /\ epoch' = epoch + 1
  /\ record' = [r \in Record |-> Retained(record[r])]
  /\ UNCHANGED <<source, consent, calls, now, ordered, recoveryBlocked>>

Next ==
  \/ \E r \in Record :
       \/ ApproveCurrentMaterial(r)
       \/ \E c \in Consent, kind \in Kind, binds \in Binds : RecordConsent(r, c, kind, binds)
       \/ \E local, issuer \in Consent \cup {Nil} : Commit(r, local, issuer)
       \/ DeliverPrivately(r) \/ ConfirmRevocation(r)
  \/ \E c \in Consent : WithdrawConsent(c)
  \/ Linearize \/ HookThrows \/ CommitReturns
  \/ \E m \in Material :
       \/ \E active \in BOOLEAN : Invalidate(m, active)
       \/ \E deadline \in Deadline : SetDeadline(m, deadline)
  \/ \E time \in 0..MaxTime : AdvanceTo(time)
  \/ \E qualified \in Qualified : MarkIdentityAsExternal(qualified)
  \/ RecoverUnsupported \/ RecoverInvalidatingOldEpoch \/ RecoverRetainingState

Spec == Init /\ [][Next]_vars
-----------------------------------------------------------------------------
(***************************************************************************)
(* What the contract promises.                                             *)
(***************************************************************************)
Approving(r) == {c \in Consent : consent[c].record = r /\ ~ consent[c].withdrawn}

\* Authority that is not withheld rests on what was approved: whatever has
\* happened since the commit, in its hooks or later, every source is active at
\* the revision that was captured, and both decisions stand.
AuthorityIsCurrent ==
  \A r \in Record : record[r].status \in {"committed", "delivered"} /\ ~ Withheld(r) =>
    /\ \A m \in Material :
         source[m].active /\ source[m].revision = record[r].captured[m].revision
    /\ \A kind \in Kind : \E c \in Approving(r) : consent[c].kind = kind /\ consent[c].binds

\* No restart, in whatever place it hits, leaves a commit deliverable that
\* was not made in this epoch.
NoDeliveryAcrossRestart ==
  \A r \in Record : record[r].status = "committed" => record[r].epoch = epoch

\* Running commits, and decisions that stand, are about records that were approved.
RecordsKnown ==
  /\ \A i \in DOMAIN calls : record[calls[i].record] # Absent
  /\ \A c \in Consent : ~ consent[c].withdrawn => record[consent[c].record] # Absent

\* A record is consumed by its publication and by nothing else, and only what is
\* consumed has anything to revoke, as a frozen one always has.
ConsumedByPublication ==
  \A r \in Record :
    /\ record[r].consumed <=> record[r].status \notin {"absent", "approved", "invalidated"}
    /\ record[r].needsRevocation => record[r].consumed
    /\ record[r].status = "frozen" => record[r].needsRevocation

\* In every state the variables have their types, what is consumed was published,
\* authority that stands is current, and none is left of an earlier epoch.
Inv ==
  /\ TypeOK /\ RecordsKnown /\ ConsumedByPublication
  /\ AuthorityIsCurrent /\ NoDeliveryAcrossRestart

\* A record is published only while every source is within the deadline it was
\* approved with, also when the clock or a deadline moves during the hook.
ExpiredNeverPublished ==
  [][\A r \in Record : record[r].status = "approved" /\ record'[r].status = "committed" =>
       \A m \in Material :
         /\ source[m].deadline > now
         /\ source[m].deadline = record[r].captured[m].deadline]_vars

\* An outcome in doubt blocks the host until its revocation is confirmed or its
\* epoch ends; nothing else lifts it, and what blocks the host can be revoked.
DoubtIsHeld ==
  [][\A r \in Record :
       /\ record[r].status = "frozen" =>
            /\ Withheld(r)
            /\ record'[r].status \in {"frozen", "revoked", "epoch-invalidated"}
       /\ Withheld(r) => record[r].consumed]_vars

StageOf(r) ==
  IF Withheld(r) THEN "withheld"
  ELSE IF record[r].status \in {"absent", "approved"} THEN "open"
  ELSE IF record[r].status = "invalidated" THEN "closed"
  ELSE IF record[r].status \in {"committed", "delivered"} THEN "live"
  ELSE "ended"

Abs == INSTANCE WithheldAuthority WITH stage <- [r \in Record |-> StageOf(r)]

\* A record becomes live at most once, and never while another is withheld, not
\* even when the authority is withheld between the checks of a commit.
ImplementsWithheldAuthority == Abs!WASpec
=============================================================================
