----------------------------- MODULE SqliteFence -----------------------------
(***************************************************************************)
(* The SQLite host fence (experiments/sqlite-host-fence/fence.go): hosts   *)
(* that share one database retain a candidate for an account and session,  *)
(* claim it durably, and publish it in a second transaction, while other   *)
(* writers withdraw sessions, change accounts and rotate sessions.         *)
(*                                                                         *)
(* Every transaction takes SQLite's write lock when it begins              *)
(* (_txlock=immediate), so a transaction that does its work without        *)
(* leaving the database is one action; the publication transaction stays   *)
(* open across hooks and a second clock read and is three actions.         *)
(***************************************************************************)
EXTENDS Naturals

CONSTANTS
  Account, Session, Candidate,   \* row identities of the three tables
  Call,                          \* goroutines that may run Attempt
  Fence,                         \* live Fence instances over one database
  NoOne,                         \* no account, no candidate, no holder
  MaxTime, MaxRev,               \* bounds of the clock and of the revisions
  BypassWriters                  \* may raw SQL move rows behind the fence?

ASSUME ConstantsAssumption ==
  /\ MaxTime \in Nat /\ MaxRev \in Nat
  /\ BypassWriters \in BOOLEAN
  /\ NoOne \notin Account \cup Candidate \cup Call \cup Fence

VARIABLES
  account, session,              \* the authority tables
  state, captured,               \* the candidate table: its state column, the rest
  publication,                   \* the publication table (its primary keys)
  owner,                         \* the Fence whose memory holds the reference
  pc, ref,                       \* where each Attempt is, and on which candidate
  writer,                        \* the call whose open transaction holds the lock
  reported,                      \* ghost: what Attempt has returned per candidate
  now                            \* the clock read by f.now()

tables == <<account, session, state, captured, publication>>
calls == <<pc, ref, writer>>
vars == <<account, session, state, captured, publication, owner, pc, ref,
          writer, reported, now>>

AccountRow == [rev : Nat, active : BOOLEAN]
SessionRow == [acct : Account \cup {NoOne}, rev : Nat, active : BOOLEAN, exp : Nat]
CaptureRow == [acct : Account, sess : Session, arev : Nat, srev : Nat, exp : Nat]
RowState == {"pending", "attempted", "issued", "revocation_required"}

TypeOK ==
  /\ account \in [Account -> AccountRow]
  /\ session \in [Session -> SessionRow]
  /\ state \in [Candidate -> RowState \cup {"absent"}]
  /\ \A c \in Candidate : state[c] # "absent" => captured[c] \in CaptureRow
  /\ DOMAIN captured = Candidate
  /\ publication \subseteq Candidate
  /\ owner \in [Candidate -> Fence \cup {NoOne}]
  /\ pc \in [Call -> {"idle", "claimed", "publishing", "committing"}]
  /\ ref \in [Call -> Candidate \cup {NoOne}]
  /\ \A w \in Call : pc[w] # "idle" => ref[w] \in Candidate /\ state[ref[w]] # "absent"
  /\ writer \in Call \cup {NoOne}
  /\ reported \in [Candidate -> SUBSET {"issued", "uncertain"}]
  /\ now \in Nat

Row(c) == state[c] # "absent"
RowsOf(a) == {c \in Candidate : Row(c) /\ captured[c].acct = a}
Settled(c) == Row(c) /\ state[c] # "pending"
Busy(w) == pc[w] # "idle"

\* The joined row that Retain and the publication transaction both select.
AuthorityCurrent(c) ==
  LET k == captured[c]  a == account[k.acct]  s == session[k.sess] IN
  /\ s.acct = k.acct
  /\ a.active /\ s.active
  /\ a.rev = k.arev /\ s.rev = k.srev
  /\ s.exp >= k.exp

FreshSession == [acct : Account, rev : {1}, active : {TRUE}, exp : 1..MaxTime]
NoSession == [acct |-> NoOne, rev |-> 0, active |-> FALSE, exp |-> 0]

Init ==
  /\ account = [a \in Account |-> [rev |-> 1, active |-> TRUE]]
  /\ session \in [Session -> FreshSession \cup {NoSession}]
  /\ state = [c \in Candidate |-> "absent"]
  /\ captured = [c \in Candidate |-> NoOne]
  /\ publication = {}
  /\ owner = [c \in Candidate |-> NoOne]
  /\ pc = [w \in Call |-> "idle"]
  /\ ref = [w \in Call |-> NoOne]
  /\ writer = NoOne
  /\ reported = [c \in Candidate |-> {}]
  /\ now = 0
-----------------------------------------------------------------------------
\* Retain: one transaction; the caller may lose the reference to a row that
\* was inserted (an error after COMMIT took effect), and nobody can recover it.
Retain(f, a, s, c) ==
  /\ writer = NoOne
  /\ state[c] = "absent"
  /\ session[s].acct = a
  /\ account[a].active /\ session[s].active
  /\ session[s].exp > now
  /\ ~ \E d \in RowsOf(a) : Settled(d)
  /\ state' = [state EXCEPT ![c] = "pending"]
  /\ captured' = [captured EXCEPT ![c] =
       [acct |-> a, sess |-> s, arev |-> account[a].rev,
        srev |-> session[s].rev, exp |-> session[s].exp]]
  /\ \E holder \in {f, NoOne} : owner' = [owner EXCEPT ![c] = holder]
  /\ UNCHANGED <<account, session, publication, calls, reported, now>>

\* Mutations of Claimable: the NOT EXISTS clause forgotten; a claim that may be
\* taken again.
Claimable_NoExclusion(c) == state[c] = "pending"

Claimable_Retry(c) ==
  /\ state[c] \in {"pending", "attempted"}
  /\ ~ \E d \in RowsOf(captured[c].acct) \ {c} : Settled(d)

\* The WHERE clause of the claim's UPDATE.
Claimable(c) ==
  /\ state[c] = "pending"
  /\ ~ \E d \in RowsOf(captured[c].acct) \ {c} : Settled(d)

MarkAttempted(c) == state' = [state EXCEPT ![c] = "attempted"]

\* First transaction of attempt, COMMIT acknowledged. A reference made by
\* another Fence, and a row the UPDATE does not match, change nothing.
Claim(w, f, c) ==
  /\ pc[w] = "idle"
  /\ owner[c] = f
  /\ writer = NoOne
  /\ Claimable(c)
  /\ MarkAttempted(c)
  /\ pc' = [pc EXCEPT ![w] = "claimed"]
  /\ ref' = [ref EXCEPT ![w] = c]
  /\ UNCHANGED <<account, session, captured, publication, owner, writer, reported, now>>

\* The same transaction when COMMIT returns an error: the claim may have
\* taken effect or not, and the caller is told ErrUncertain.
ClaimUncertain(w, f, c) ==
  /\ pc[w] = "idle"
  /\ owner[c] = f
  /\ writer = NoOne
  /\ Claimable(c)
  /\ MarkAttempted(c) \/ UNCHANGED state
  /\ reported' = [reported EXCEPT ![c] = @ \cup {"uncertain"}]
  /\ UNCHANGED <<account, session, captured, publication, owner, calls, now>>

\* Mutation of Return: no deferred Rollback.
Return_NoRollback(w) ==
  /\ pc' = [pc EXCEPT ![w] = "idle"]
  /\ ref' = [ref EXCEPT ![w] = NoOne]
  /\ UNCHANGED writer

\* attempt returns without an open transaction (the deferred Rollback ran).
Return(w) ==
  /\ pc' = [pc EXCEPT ![w] = "idle"]
  /\ ref' = [ref EXCEPT ![w] = NoOne]
  /\ writer' = IF writer = w THEN NoOne ELSE writer

ReturnFailure(w) ==
  /\ Return(w)
  /\ UNCHANGED <<tables, owner, reported, now>>

\* Mutation of PublicationAllowed: trusts what Retain read.
PublicationAllowed_Snapshot(c) == state[c] = "attempted" /\ captured[c].exp > now

PublicationAllowed(c) ==
  /\ state[c] = "attempted"
  /\ AuthorityCurrent(c)
  /\ captured[c].exp > now

\* Mutation of BeginPublication: a deferred transaction, which reads without the
\* write lock.
BeginPublication_Deferred(w) ==
  /\ pc[w] = "claimed"
  /\ PublicationAllowed(ref[w])
  /\ pc' = [pc EXCEPT ![w] = "publishing"]
  /\ UNCHANGED <<tables, owner, ref, writer, reported, now>>

\* Second transaction: take the lock, read the authority, write the rows.
\* The writes are visible to nobody until COMMIT and are applied there.
BeginPublication(w) ==
  /\ pc[w] = "claimed"
  /\ writer = NoOne
  /\ PublicationAllowed(ref[w])
  /\ pc' = [pc EXCEPT ![w] = "publishing"]
  /\ writer' = w
  /\ UNCHANGED <<tables, owner, ref, reported, now>>

\* Busy timeout or another error of BEGIN, a failed statement, a cancelled
\* context, or a row that is no longer valid.
AbandonPublication(w) ==
  /\ pc[w] = "claimed"
  /\ ReturnFailure(w)

\* Mutation of DeadlineGuard: the last precommit clock read is gone.
DeadlineGuard_Unchecked(w) ==
  /\ pc[w] = "publishing"
  /\ pc' = [pc EXCEPT ![w] = "committing"]
  /\ UNCHANGED <<tables, owner, ref, writer, reported, now>>

\* beforeCommit has run for any length of time; the last clock read.
DeadlineGuard(w) ==
  /\ pc[w] = "publishing"
  /\ now < captured[ref[w]].exp
  /\ pc' = [pc EXCEPT ![w] = "committing"]
  /\ UNCHANGED <<tables, owner, ref, writer, reported, now>>

\* The deadline passed, or beforeCommit or the last query failed.
FailPublication(w) ==
  /\ pc[w] = "publishing"
  /\ ReturnFailure(w)

ApplyPublication(c) ==
  /\ state' = [state EXCEPT ![c] = "issued"]
  /\ publication' = publication \cup {c}

CommitPublication(w) ==
  /\ pc[w] = "committing"
  /\ ApplyPublication(ref[w])
  /\ reported' = [reported EXCEPT ![ref[w]] = @ \cup {"issued"}]
  /\ Return(w)
  /\ UNCHANGED <<account, session, captured, owner, now>>

\* COMMIT failed in an unknown way, or afterCommit failed.
CommitUncertain(w) ==
  /\ pc[w] = "committing"
  /\ ApplyPublication(ref[w]) \/ UNCHANGED <<state, publication>>
  /\ reported' = [reported EXCEPT ![ref[w]] = @ \cup {"uncertain"}]
  /\ Return(w)
  /\ UNCHANGED <<account, session, captured, owner, now>>
-----------------------------------------------------------------------------
\* Mutations of Invalidated: pending rows survive; an issued row is demoted
\* instead of flagged.
Invalidated_KeepPending(S) ==
  [c \in Candidate |->
    IF c \in S /\ state[c] = "issued" THEN "revocation_required" ELSE state[c]]

Invalidated_DropIssued(S) ==
  [c \in Candidate |-> IF c \in S /\ state[c] # "absent" THEN "attempted" ELSE state[c]]

\* The CASE expression of every invalidating writer.
Invalidated(S) ==
  [c \in Candidate |->
    IF c \notin S \/ state[c] \in {"absent", "revocation_required"} THEN state[c]
    ELSE IF state[c] = "issued" THEN "revocation_required" ELSE "attempted"]

BoundTo(s) == {c \in Candidate : Row(c) /\ captured[c].sess = s}

Deactivated(s) ==
  [acct |-> session[s].acct, rev |-> session[s].rev + 1,
   active |-> FALSE, exp |-> session[s].exp]

SessionWithdrawal(s) ==
  /\ writer = NoOne
  /\ session[s].acct # NoOne /\ session[s].rev < MaxRev
  /\ session' = [session EXCEPT ![s] = Deactivated(s)]
  /\ state' = Invalidated(BoundTo(s))
  /\ UNCHANGED <<account, captured, publication, owner, calls, reported, now>>

AccountChange(a, active) ==
  /\ writer = NoOne
  /\ account[a].rev < MaxRev
  /\ account' = [account EXCEPT ![a] = [rev |-> account[a].rev + 1, active |-> active]]
  /\ state' = Invalidated(RowsOf(a))
  /\ UNCHANGED <<session, captured, publication, owner, calls, reported, now>>

SessionRotation(old, new) ==
  /\ writer = NoOne
  /\ session[old].acct # NoOne /\ session[old].active /\ session[old].rev < MaxRev
  /\ session[new].acct = NoOne
  /\ session' = [session EXCEPT
       ![new] = [session[old] EXCEPT !.rev = 1],
       ![old] = Deactivated(old)]
  /\ state' = Invalidated(BoundTo(old))
  /\ UNCHANGED <<account, captured, publication, owner, calls, reported, now>>

\* Raw SQL that ends a session without touching the candidate table.
BypassWithdrawal(s) ==
  /\ BypassWriters
  /\ writer = NoOne
  /\ session[s].acct # NoOne /\ session[s].rev < MaxRev
  /\ session' = [session EXCEPT ![s] = Deactivated(s)]
  /\ UNCHANGED <<account, state, captured, publication, owner, calls, reported, now>>

\* A host stops and starts again: open transactions roll back, references
\* and running calls are gone, rows stay.
Lost(f, w) == Busy(w) /\ owner[ref[w]] = f

Restart(f) ==
  /\ owner' = [c \in Candidate |-> IF owner[c] = f THEN NoOne ELSE owner[c]]
  /\ pc' = [w \in Call |-> IF Lost(f, w) THEN "idle" ELSE pc[w]]
  /\ ref' = [w \in Call |-> IF Lost(f, w) THEN NoOne ELSE ref[w]]
  /\ writer' = IF writer # NoOne /\ Lost(f, writer) THEN NoOne ELSE writer
  /\ UNCHANGED <<tables, reported, now>>

Tick ==
  /\ now < MaxTime
  /\ now' = now + 1
  /\ UNCHANGED <<tables, owner, calls, reported>>

Step(w) ==
  \/ BeginPublication(w) \/ AbandonPublication(w)
  \/ DeadlineGuard(w) \/ FailPublication(w)
  \/ CommitPublication(w) \/ CommitUncertain(w)

AttemptNext ==
  \E w \in Call :
    \/ \E f \in Fence, c \in Candidate : Claim(w, f, c) \/ ClaimUncertain(w, f, c)
    \/ Step(w)

WriterNext ==
  \/ \E s \in Session : SessionWithdrawal(s) \/ BypassWithdrawal(s)
  \/ \E a \in Account, active \in BOOLEAN : AccountChange(a, active)
  \/ \E old, new \in Session : SessionRotation(old, new)

Next ==
  \/ \E f \in Fence, a \in Account, s \in Session, c \in Candidate : Retain(f, a, s, c)
  \/ AttemptNext
  \/ WriterNext
  \/ \E f \in Fence : Restart(f)
  \/ Tick

Spec == Init /\ [][Next]_vars

\* A goroutine inside Attempt is scheduled, and each of its database calls
\* returns: busy_timeout bounds the wait for the lock.
FairSpec == Spec /\ \A w \in Call : WF_vars(Step(w))
-----------------------------------------------------------------------------
(***************************************************************************)
(* What the fence promises.                                                *)
(***************************************************************************)

\* At most one publication ever exists for an account, whatever mix of
\* candidates, hosts, duplicate calls, restarts and lost acknowledgements
\* attempt met (the NOT EXISTS clauses of Retain and of the claim).
OnePublicationPerAccount ==
  \A c, d \in publication : captured[c].acct = captured[d].acct => c = d

\* The two tables agree in every committed state, and nil is returned by
\* Attempt only for a row that is durably published.
PublicationTracksState ==
  \A c \in Candidate :
    /\ c \in publication <=> state[c] \in {"issued", "revocation_required"}
    /\ "issued" \in reported[c] => c \in publication

\* While every writer participates, no row that could still authorize
\* anything outlives its authority: a pending or issued row names an account
\* and session that are active at the very revisions it captured. Drift turns
\* pending into attempted and issued into revocation_required in the same
\* transaction (withdraw, AccountChange, SessionRotation).
NoStaleAuthority ==
  \A c \in Candidate : state[c] \in {"pending", "issued"} => AuthorityCurrent(c)

\* Even when raw writers bypass the fence, a publication commits only in a
\* state where the authority it captured is current: the transaction re-reads
\* the rows and holds the lock until COMMIT (BeginTx to tx.Commit of attempt).
PublishesOnlyCurrent ==
  [][\A c \in publication' \ publication : AuthorityCurrent(c)]_vars

InFlight(a) == \E w \in Call : Busy(w) /\ captured[ref[w]].acct = a

Consumed(a) == (\E c \in RowsOf(a) : Settled(c)) /\ ~ InFlight(a)

\* An account whose attempt ended, however it ended, stays closed: no retry,
\* no other candidate and no restart publishes for it or retains a new row.
ConsumedAccountStaysClosed ==
  [][\A a \in Account : Consumed(a) =>
       /\ Consumed(a)'
       /\ RowsOf(a)' = RowsOf(a)
       /\ \A c \in RowsOf(a) : c \in publication' => c \in publication]_vars

PastDeadline(c) ==
  /\ Row(c) /\ now >= captured[c].exp
  /\ \A w \in Call : ref[w] = c => pc[w] # "committing"

\* Once the deadline has passed and no call is beyond the last precommit
\* check, none ever gets beyond it, so an expired candidate is not published.
ExpiredNeverPublishes ==
  [][\A c \in Candidate : PastDeadline(c) =>
       PastDeadline(c)' /\ (c \in publication' => c \in publication)]_vars

\* Every Attempt comes back to its caller and leaves no transaction open.
AttemptReturns == \A w \in Call : Busy(w) ~> (~ Busy(w) /\ writer # w)

\* The README of the experiment: an uncertain attempt cannot be retried.
UncertainNotRetried ==
  [][\A w \in Call : pc[w] = "idle" /\ pc'[w] = "claimed"
       => "uncertain" \notin reported[ref'[w]]]_vars

-----------------------------------------------------------------------------
(***************************************************************************)
(* The fence implements SingleIssuance: the stage of an account is read    *)
(* off its candidate rows and the calls in flight.                         *)
(***************************************************************************)
StageOf(a) ==
  IF \E c \in RowsOf(a) : state[c] = "issued" THEN "issued"
  ELSE IF \E c \in RowsOf(a) : state[c] = "revocation_required" THEN "revoking"
  ELSE IF InFlight(a) THEN "claimed"
  ELSE IF \E c \in RowsOf(a) : Settled(c) THEN "spent"
  ELSE "open"

Abs == INSTANCE SingleIssuance WITH stage <- [a \in Account |-> StageOf(a)]

\* Per account, the protocol only ever claims once, publishes once out of that
\* claim, flags a revocation, or uses the account up.
ImplementsSingleIssuance == Abs!SISpec

-----------------------------------------------------------------------------
(***************************************************************************)
(* The inductive invariant behind the safety properties.                   *)
(***************************************************************************)

\* A call that is past its claim owns an attempted, unpublished row through a
\* live reference, and holds the lock exactly while its transaction is open.
CallsOwnTheirClaim ==
  \A w \in Call :
    /\ Busy(w) => /\ ref[w] \in Candidate
                  /\ state[ref[w]] = "attempted"
                  /\ owner[ref[w]] \in Fence
    /\ writer = w <=> pc[w] \in {"publishing", "committing"}

\* No two claims of one account are in flight, and none is in flight for an
\* account that already has a publication.
ClaimsExclusive ==
  \A w \in Call : Busy(w) =>
    /\ \A x \in Call \ {w} : Busy(x) => captured[ref[x]].acct # captured[ref[w]].acct
    /\ \A c \in publication : captured[c].acct # captured[ref[w]].acct

\* What the publication transaction read still holds while the lock is held.
LockedAuthorityCurrent ==
  \A w \in Call : pc[w] \in {"publishing", "committing"} => AuthorityCurrent(ref[w])

IInv ==
  /\ TypeOK
  /\ OnePublicationPerAccount
  /\ PublicationTracksState
  /\ CallsOwnTheirClaim
  /\ ClaimsExclusive
  /\ LockedAuthorityCurrent
=============================================================================
