------------------------------ MODULE MemosFence ------------------------------
(***************************************************************************)
(* The Memos storage fence (experiments/memos-storage-fence, Go overlay):  *)
(* the same two-transaction publication as SqliteFence, over the real      *)
(* user and user_setting tables of Memos. Triggers turn every upstream     *)
(* write into an invalidation and keep withdrawn session ids out of the    *)
(* table; a withdrawal freezes the account, removes the session and is     *)
(* reconciled by reading that the session is really gone.                  *)
(*                                                                         *)
(* Transactions take SQLite's write lock when they begin; a transaction    *)
(* that never leaves the database is one action. A transaction that fails  *)
(* rolls back and is a step that changes nothing.                          *)
(***************************************************************************)
EXTENDS Naturals

CONSTANTS
  User, Session, Candidate, Withdrawal,   \* row identities
  Token,                                  \* refresh tokens: records [id, exp]
  Call, Fence,                            \* goroutines in attempt; fence instances
  Nil,                                    \* no row, no candidate, no holder
  MaxTime, MaxRev                         \* bounds of the clock and of revisions

\* expires_at of a token whose expiry is absent or invalid.
Missing == 0

ASSUME ConstantsAssumption ==
  /\ MaxTime \in Nat /\ MaxRev \in Nat
  /\ Token \subseteq [id : Session, exp : Nat]
  /\ Nil \notin Candidate \cup Call \cup Fence
  /\ Nil \notin [readable : BOOLEAN, tokens : SUBSET Token]
  /\ Nil \notin [user : User, sess : Session, state : {"frozen", "reconciled"}]
  /\ Nil \notin [user : User, sess : Session, rev : Nat, exp : Nat]

VARIABLES
  user,                \* row_status per user, or "deleted"
  setting,             \* the REFRESH_TOKENS row of user_setting
  revision,            \* asp_nonlive_revision
  state, captured,     \* asp_nonlive_candidate: its state column, the rest
  publication,         \* asp_nonlive_publication (its primary keys)
  withdrawal,          \* asp_nonlive_withdrawal
  owner,               \* the fence whose memory holds a candidate reference
  pc, ref, writer,     \* attempts, and which of them holds the write lock
  now

authority == <<user, setting, revision>>
candidates == <<state, captured, publication>>
calls == <<pc, ref, writer>>
vars == <<user, setting, revision, state, captured, publication, withdrawal,
          owner, pc, ref, writer, now>>

SettingRow == [readable : BOOLEAN, tokens : SUBSET Token]
CaptureRow == [user : User, sess : Session, rev : Nat, exp : Nat]
WithdrawalRow == [user : User, sess : Session, state : {"frozen", "reconciled"}]
RowState == {"pending", "attempted", "issued", "revocation_required", "closed"}

TypeOK ==
  /\ user \in [User -> {"NORMAL", "ARCHIVED", "deleted"}]
  /\ setting \in [User -> SettingRow \cup {Nil}]
  /\ revision \in [User -> Nat]
  /\ state \in [Candidate -> RowState \cup {"absent"}]
  /\ DOMAIN captured = Candidate
  /\ \A c \in Candidate : state[c] # "absent" => captured[c] \in CaptureRow
  /\ publication \subseteq Candidate
  /\ withdrawal \in [Withdrawal -> WithdrawalRow \cup {Nil}]
  /\ owner \in [Candidate -> Fence \cup {Nil}]
  /\ pc \in [Call -> {"idle", "claimed", "publishing", "committing"}]
  /\ ref \in [Call -> Candidate \cup {Nil}]
  /\ writer \in Call \cup {Nil}
  /\ now \in Nat

Init ==
  /\ user = [u \in User |-> "NORMAL"]
  /\ setting \in [User -> {Nil} \cup [readable : {TRUE}, tokens : SUBSET Token]]
  /\ revision = [u \in User |-> 0]
  /\ state = [c \in Candidate |-> "absent"]
  /\ captured = [c \in Candidate |-> Nil]
  /\ publication = {}
  /\ withdrawal = [d \in Withdrawal |-> Nil]
  /\ owner = [c \in Candidate |-> Nil]
  /\ pc = [w \in Call |-> "idle"]
  /\ ref = [w \in Call |-> Nil]
  /\ writer = Nil
  /\ now = 0

Row(c) == state[c] # "absent"
RowsOf(u) == {c \in Candidate : Row(c) /\ captured[c].user = u}
Unresolved(c) == state[c] \notin {"absent", "pending", "closed"}
Busy(w) == pc[w] # "idle"

Withdrawals(u) == {d \in Withdrawal : withdrawal[d] # Nil /\ withdrawal[d].user = u}
Frozen(u) == \E d \in Withdrawals(u) : withdrawal[d].state = "frozen"
Tombstoned(u) == {withdrawal[d].sess : d \in Withdrawals(u)}

Tokens(u) == IF setting[u] = Nil THEN {} ELSE setting[u].tokens
Readable(u) == IF setting[u] = Nil THEN TRUE ELSE setting[u].readable

\* currentSession: the expiries it may return; empty when it rejects.
Expiries(u, s) ==
  IF user[u] = "NORMAL" /\ Readable(u)
  THEN {t.exp : t \in {x \in Tokens(u) : x.id = s /\ x.exp > now}}
  ELSE {}
-----------------------------------------------------------------------------
(***************************************************************************)
(* The triggers.                                                           *)
(***************************************************************************)

\* Mutation of Invalidated: only what was published is touched.
Invalidated_IssuedOnly(S) ==
  [c \in Candidate |->
    IF c \in S /\ state[c] = "issued" THEN "revocation_required" ELSE state[c]]

\* The CASE expression of the five AFTER triggers and of beginWithdrawal.
Invalidated(S) ==
  [c \in Candidate |->
    IF c \notin S \/ state[c] \in {"absent", "revocation_required", "closed"} THEN state[c]
    ELSE IF state[c] = "issued" THEN "revocation_required" ELSE "attempted"]

\* AFTER UPDATE/DELETE ON user, AFTER INSERT/UPDATE/DELETE ON user_setting.
Invalidate(u) ==
  /\ revision[u] < MaxRev
  /\ revision' = [revision EXCEPT ![u] = @ + 1]
  /\ state' = Invalidated(RowsOf(u))

\* Mutation of Admissible: a tombstone counts only while the account is frozen.
Admissible_FrozenOnly(u, tokens) ==
  \A d \in Withdrawals(u) : withdrawal[d].state = "frozen" =>
    withdrawal[d].sess \notin {t.id : t \in tokens}

\* BEFORE INSERT/UPDATE ON user_setting: no write carries a withdrawn id.
Admissible(u, tokens) == Tombstoned(u) \cap {t.id : t \in tokens} = {}

WriteTokens(u, readable, tokens) ==
  /\ Admissible(u, tokens)
  /\ setting' = [setting EXCEPT ![u] = [readable |-> readable, tokens |-> tokens]]
  /\ Invalidate(u)
-----------------------------------------------------------------------------
(***************************************************************************)
(* Retention and the publication attempt.                                  *)
(***************************************************************************)

\* retain; an error after COMMIT took effect loses the reference for good.
Retain(f, u, s, c) ==
  /\ writer = Nil
  /\ state[c] = "absent"
  /\ s \notin Tombstoned(u)
  /\ ~ Frozen(u)
  /\ ~ \E d \in RowsOf(u) : Unresolved(d)
  /\ \E expiry \in Expiries(u, s) :
       captured' = [captured EXCEPT ![c] =
         [user |-> u, sess |-> s, rev |-> revision[u], exp |-> expiry]]
  /\ state' = [state EXCEPT ![c] = "pending"]
  /\ \E holder \in {f, Nil} : owner' = [owner EXCEPT ![c] = holder]
  /\ UNCHANGED <<authority, publication, withdrawal, calls, now>>

\* Mutation of Claimable: siblings are not looked at.
Claimable_NoSiblings(c) ==
  /\ state[c] = "pending"
  /\ captured[c].sess \notin Tombstoned(captured[c].user)
  /\ ~ Frozen(captured[c].user)

\* The WHERE clause of the claim's UPDATE.
Claimable(c) ==
  LET u == captured[c].user IN
  /\ state[c] = "pending"
  /\ ~ \E d \in RowsOf(u) \ {c} : Unresolved(d)
  /\ captured[c].sess \notin Tombstoned(u)
  /\ ~ Frozen(u)

MarkAttempted(c) == state' = [state EXCEPT ![c] = "attempted"]

Claim(w, f, c) ==
  /\ pc[w] = "idle" /\ writer = Nil
  /\ owner[c] = f
  /\ Claimable(c)
  /\ MarkAttempted(c)
  /\ pc' = [pc EXCEPT ![w] = "claimed"]
  /\ ref' = [ref EXCEPT ![w] = c]
  /\ UNCHANGED <<authority, captured, publication, withdrawal, owner, writer, now>>

\* COMMIT of the claim took effect but returned an error, and attempt gave up.
\* (When it did not take effect nothing has changed.)
ClaimUncertain(w, f, c) ==
  /\ pc[w] = "idle" /\ writer = Nil
  /\ owner[c] = f
  /\ Claimable(c)
  /\ MarkAttempted(c)
  /\ UNCHANGED <<authority, captured, publication, withdrawal, owner, calls, now>>

Return(w) ==
  /\ pc' = [pc EXCEPT ![w] = "idle"]
  /\ ref' = [ref EXCEPT ![w] = Nil]
  /\ writer' = IF writer = w THEN Nil ELSE writer

\* Any error return after the claim; an open transaction rolls back.
ReturnFailure(w) ==
  /\ pc[w] \in {"claimed", "publishing"}
  /\ Return(w)
  /\ UNCHANGED <<authority, candidates, withdrawal, owner, now>>

\* Mutation of PublicationAllowed: the revision is not compared.
PublicationAllowed_NoRevision(c) ==
  /\ state[c] = "attempted"
  /\ \E expiry \in Expiries(captured[c].user, captured[c].sess) : expiry >= captured[c].exp
  /\ now < captured[c].exp

PublicationAllowed(c) ==
  LET k == captured[c] IN
  /\ state[c] = "attempted" /\ revision[k.user] = k.rev
  /\ \E expiry \in Expiries(k.user, k.sess) : expiry >= k.exp
  /\ now < k.exp

\* Second transaction up to beforeCommit. Its writes show at COMMIT.
BeginPublication(w) ==
  /\ pc[w] = "claimed" /\ writer = Nil
  /\ PublicationAllowed(ref[w])
  /\ pc' = [pc EXCEPT ![w] = "publishing"]
  /\ writer' = w
  /\ UNCHANGED <<authority, candidates, withdrawal, owner, ref, now>>

\* beforeCommit returned; the last clock read before COMMIT.
DeadlineGuard(w) ==
  /\ pc[w] = "publishing"
  /\ now < captured[ref[w]].exp
  /\ pc' = [pc EXCEPT ![w] = "committing"]
  /\ UNCHANGED <<authority, candidates, withdrawal, owner, ref, writer, now>>

\* COMMIT, which may fail with either outcome (errNonLiveUncertain).
CommitPublication(w) ==
  /\ pc[w] = "committing"
  /\ \/ /\ state' = [state EXCEPT ![ref[w]] = "issued"]
        /\ publication' = publication \cup {ref[w]}
     \/ UNCHANGED <<state, publication>>
  /\ Return(w)
  /\ UNCHANGED <<authority, captured, withdrawal, owner, now>>
-----------------------------------------------------------------------------
(***************************************************************************)
(* Withdrawal: freeze, remove, reconcile.                                  *)
(***************************************************************************)

BeginWithdrawal(u, s, d) ==
  /\ writer = Nil
  /\ withdrawal[d] = Nil
  /\ Expiries(u, s) # {}
  /\ ~ Frozen(u)
  /\ withdrawal' = [withdrawal EXCEPT ![d] = [user |-> u, sess |-> s, state |-> "frozen"]]
  /\ Invalidate(u)
  /\ UNCHANGED <<user, setting, captured, publication, owner, calls, now>>

\* A reference to a frozen row can be had by any fence at any time
\* (resumeWithdrawal), and a reference to any other row is rejected.
Resumable(d) == withdrawal[d] # Nil /\ withdrawal[d].state = "frozen"

\* Mutation of Kept: expired history is carried along.
Kept_WithHistory(u, s) == {t \in Tokens(u) : t.id # s}

\* What removeSession writes back: an expired token is dropped, a token
\* without a valid expiry is kept.
Kept(u, s) == {t \in Tokens(u) : t.id # s /\ (t.exp = Missing \/ t.exp > now)}

RemoveSession(d) ==
  LET u == withdrawal[d].user  s == withdrawal[d].sess IN
  /\ writer = Nil
  /\ Resumable(d)
  /\ Readable(u)
  /\ WriteTokens(u, TRUE, Kept(u, s))
  /\ UNCHANGED <<user, captured, publication, withdrawal, owner, calls, now>>

\* Mutation of SessionGone: a token without a valid expiry counts as expired.
SessionGone_NoExpiry(u, s) ==
  /\ Readable(u)
  /\ \A t \in Tokens(u) : t.id = s => t.exp <= now

\* sessionWithdrawn: every token of that id has a valid expiry in the past.
SessionGone(u, s) ==
  /\ Readable(u)
  /\ \A t \in Tokens(u) : t.id = s => t.exp # Missing /\ t.exp <= now

ClosedBy(u, s) ==
  [c \in Candidate |->
    IF c \in RowsOf(u) /\ captured[c].sess = s THEN "closed" ELSE state[c]]

ReconcileWithdrawal(d) ==
  LET u == withdrawal[d].user  s == withdrawal[d].sess IN
  /\ writer = Nil
  /\ Resumable(d)
  /\ SessionGone(u, s)
  /\ state' = ClosedBy(u, s)
  /\ withdrawal' = [withdrawal EXCEPT ![d].state = "reconciled"]
  /\ UNCHANGED <<authority, captured, publication, owner, calls, now>>

\* addSession; a duplicate id or a token without expiry in the row rejects.
AddSession(u, token) ==
  /\ writer = Nil
  /\ token.exp > now
  /\ user[u] = "NORMAL"
  /\ ~ Frozen(u) /\ token.id \notin Tombstoned(u)
  /\ Readable(u)
  /\ \A t \in Tokens(u) : t.id # token.id /\ t.exp # Missing
  /\ WriteTokens(u, TRUE, {t \in Tokens(u) : t.exp > now} \cup {token})
  /\ UNCHANGED <<user, captured, publication, withdrawal, owner, calls, now>>
-----------------------------------------------------------------------------
(***************************************************************************)
(* Memos itself, which knows nothing of the fence: it writes rows built    *)
(* from stale caches, deletes them, and updates or deletes users.          *)
(***************************************************************************)
UpsertUserSetting(u, readable, tokens) ==
  /\ writer = Nil
  /\ WriteTokens(u, readable, tokens)
  /\ UNCHANGED <<user, captured, publication, withdrawal, owner, calls, now>>

DeleteUserSettings(u) ==
  /\ writer = Nil
  /\ setting[u] # Nil
  /\ setting' = [setting EXCEPT ![u] = Nil]
  /\ Invalidate(u)
  /\ UNCHANGED <<user, captured, publication, withdrawal, owner, calls, now>>

\* UpdateUser (password, role, archive, restore) and DeleteUser.
WriteUser(u, status) ==
  /\ writer = Nil
  /\ user[u] # "deleted"
  /\ user' = [user EXCEPT ![u] = status]
  /\ Invalidate(u)
  /\ UNCHANGED <<setting, captured, publication, withdrawal, owner, calls, now>>

Lost(f, w) == Busy(w) /\ owner[ref[w]] = f

\* A process stops: its transaction rolls back, its references are gone.
Restart(f) ==
  /\ owner' = [c \in Candidate |-> IF owner[c] = f THEN Nil ELSE owner[c]]
  /\ pc' = [w \in Call |-> IF Lost(f, w) THEN "idle" ELSE pc[w]]
  /\ ref' = [w \in Call |-> IF Lost(f, w) THEN Nil ELSE ref[w]]
  /\ writer' = IF writer # Nil /\ Lost(f, writer) THEN Nil ELSE writer
  /\ UNCHANGED <<authority, candidates, withdrawal, now>>

Tick ==
  /\ now < MaxTime
  /\ now' = now + 1
  /\ UNCHANGED <<authority, candidates, withdrawal, owner, calls>>

FenceNext ==
  \/ \E f \in Fence, u \in User, s \in Session, c \in Candidate : Retain(f, u, s, c)
  \/ \E w \in Call :
       \/ \E f \in Fence, c \in Candidate : Claim(w, f, c) \/ ClaimUncertain(w, f, c)
       \/ ReturnFailure(w) \/ BeginPublication(w)
       \/ DeadlineGuard(w) \/ CommitPublication(w)
  \/ \E u \in User, s \in Session, d \in Withdrawal : BeginWithdrawal(u, s, d)
  \/ \E d \in Withdrawal : RemoveSession(d) \/ ReconcileWithdrawal(d)
  \/ \E u \in User, t \in Token : AddSession(u, t)

MemosNext ==
  \E u \in User :
    \/ \E readable \in BOOLEAN, tokens \in SUBSET Token : UpsertUserSetting(u, readable, tokens)
    \/ DeleteUserSettings(u)
    \/ \E status \in {"NORMAL", "ARCHIVED", "deleted"} : WriteUser(u, status)

Next ==
  \/ FenceNext
  \/ MemosNext
  \/ \E f \in Fence : Restart(f)
  \/ Tick

Spec == Init /\ [][Next]_vars
-----------------------------------------------------------------------------
(***************************************************************************)
(* What the fence promises.                                                *)
(***************************************************************************)

\* A user has at most one publication that is not closed, and while an attempt
\* is in flight none at all: siblings cannot overtake one another, and a new
\* session gets its turn only when every earlier one is reconciled.
OneOpenPublication ==
  \A c, d \in Candidate :
    /\ c # d /\ captured[c] # Nil /\ captured[d] # Nil
    /\ captured[c].user = captured[d].user
    /\ c \in publication /\ state[c] # "closed"
    => /\ d \in publication => state[d] = "closed"
       /\ \A w \in Call : pc[w] = "committing" => ref[w] # d

\* A pending or issued row names a user and a session that are in the tables
\* at the revision it captured, and whose id is not withdrawn: every write that
\* could change them, through whatever Memos API, passes a trigger.
AuthorityFollowsTables ==
  \A c \in Candidate : state[c] \in {"pending", "issued"} =>
    LET k == captured[c] IN
    /\ revision[k.user] = k.rev
    /\ user[k.user] = "NORMAL" /\ Readable(k.user)
    /\ [id |-> k.sess, exp |-> k.exp] \in Tokens(k.user)
    /\ ~ Frozen(k.user) /\ k.sess \notin Tombstoned(k.user)

\* Nothing is published for a frozen account or a withdrawn session, also not
\* by an attempt that had claimed its row before the freeze.
FrozenNeverPublishes ==
  [][\A c \in publication' \ publication :
       ~ Frozen(captured[c].user) /\ captured[c].sess \notin Tombstoned(captured[c].user)]_vars

\* A withdrawn session that has left the table never comes back, whatever stale
\* cache a Memos writer restores, before and after the reconciliation.
NoResurrection ==
  [][\A u \in User : \A s \in Tombstoned(u) :
       s \notin {t.id : t \in Tokens(u)} => s \notin {t.id : t \in Tokens(u)'}]_vars

\* The retry of a removal can always make progress: what removeSession writes
\* back never runs into the tombstone of another, earlier withdrawal.
RemovalNeverBlocked ==
  \A d \in Withdrawal : Resumable(d) =>
    Admissible(withdrawal[d].user, Kept(withdrawal[d].user, withdrawal[d].sess))

\* Reconciliation is earned: from then on no live token of that session exists,
\* and every record of the session is closed and stays the last one.
ReconciledIsFinal ==
  \A d \in Withdrawal :
    LET r == withdrawal[d] IN
    r # Nil /\ r.state = "reconciled" =>
      /\ \A t \in Tokens(r.user) : t.id = r.sess => t.exp # Missing /\ t.exp <= now
      /\ \A c \in RowsOf(r.user) : captured[c].sess = r.sess => state[c] = "closed"
-----------------------------------------------------------------------------
(***************************************************************************)
(* The inductive invariant behind these.                                   *)
(***************************************************************************)

\* The tables hold what a row has captured, and nobody has withdrawn it.
Authorized(c) ==
  LET k == captured[c] IN
  /\ user[k.user] = "NORMAL" /\ Readable(k.user)
  /\ [id |-> k.sess, exp |-> k.exp] \in Tokens(k.user)
  /\ ~ Frozen(k.user) /\ k.sess \notin Tombstoned(k.user)

\* Revisions only grow, and as long as a row's is the current one nothing else
\* about its user has changed. Rows that may still count are at that revision.
RevisionsGuard ==
  \A c \in Candidate : Row(c) =>
    /\ captured[c].rev <= revision[captured[c].user]
    /\ captured[c].rev = revision[captured[c].user] => Authorized(c)
    /\ state[c] \in {"pending", "issued"} => captured[c].rev = revision[captured[c].user]

\* A row is published by the call that claimed it, and only then.
PublicationsWereIssued ==
  \A c \in publication : state[c] \in {"issued", "revocation_required", "closed"}

\* A running call has a row of its own, claimed for good and not published. From
\* its second transaction on it holds the lock, and its row stays as it was read.
CallsOwnClaims ==
  \A w \in Call : Busy(w) =>
    /\ ref[w] \in Candidate \ publication
    /\ state[ref[w]] \in {"attempted", "closed"}
    /\ \A x \in Call \ {w} : Busy(x) => ref[x] # ref[w]
    /\ pc[w] # "claimed" =>
         /\ writer = w
         /\ state[ref[w]] = "attempted"
         /\ captured[ref[w]].rev = revision[captured[ref[w]].user]

\* Published, or on the way there.
Contends(c) == c \in publication \/ \E w \in Call : Busy(w) /\ ref[w] = c

\* Of two rows of one user that contend, one is closed.
OneContender ==
  \A c, d \in Candidate :
    c # d /\ Contends(c) /\ Contends(d) /\ captured[c].user = captured[d].user
    => state[c] = "closed" \/ state[d] = "closed"

FrozenOnce ==
  \A d, e \in Withdrawal :
    Resumable(d) /\ Resumable(e) /\ withdrawal[d].user = withdrawal[e].user => d = e

\* The inductive invariant: types, current revisions, claims that exclude one
\* another, and withdrawals one at a time that stay reconciled.
IInv ==
  /\ TypeOK
  /\ RevisionsGuard /\ PublicationsWereIssued /\ CallsOwnClaims /\ OneContender
  /\ FrozenOnce /\ ReconciledIsFinal

\* In every state no user has two open publications and no row outlives its
\* authority, and the reason why holds too.
Inv == IInv /\ OneOpenPublication /\ AuthorityFollowsTables
=============================================================================
