--------------------------- MODULE MemosFenceProofs ---------------------------
(***************************************************************************)
(* Proofs about MemosFence for every set of users, sessions, candidates,   *)
(* withdrawals, tokens, calls and fences, and every bound.                 *)
(***************************************************************************)
EXTENDS MemosFence, TLAPS

\* Nothing that is retained is Nil.
LEMMA NilDistinct ==
  /\ \A w \in Call : w # Nil
  /\ \A c \in Candidate : c # Nil
  /\ Nil \notin SettingRow
  /\ Nil \notin WithdrawalRow
BY ConstantsAssumption DEF SettingRow, WithdrawalRow

\* Invalidation keeps the types of the candidates.
LEMMA InvalidatedType ==
  ASSUME TypeOK, NEW S
  PROVE  /\ Invalidated(S) \in [Candidate -> RowState \cup {"absent"}]
         /\ \A c \in Candidate : Invalidated(S)[c] = "absent" <=> state[c] = "absent"
BY DEF TypeOK, Invalidated, RowState

\* The rows a trigger touches are no longer pending or issued; the others stay,
\* and so does what is attempted, closed or in need of revocation.
LEMMA InvalidatedStates ==
  ASSUME TypeOK, NEW S
  PROVE  \A c \in Candidate :
           /\ Invalidated(S)[c] \in {"pending", "issued"} => c \notin S
           /\ c \notin S => Invalidated(S)[c] = state[c]
           /\ state[c] \in {"absent", "attempted", "revocation_required", "closed"}
                => Invalidated(S)[c] = state[c]
           /\ Invalidated(S)[c] = "closed" => state[c] = "closed"
           /\ state[c] = "issued" => Invalidated(S)[c] \in {"issued", "revocation_required"}
BY DEF TypeOK, Invalidated, RowState
-----------------------------------------------------------------------------
\* The types hold initially.
LEMMA TypeInit == Init => TypeOK
<1> SUFFICES ASSUME Init PROVE TypeOK
  OBVIOUS
<1>1. setting \in [User -> SettingRow \cup {Nil}]
  BY DEF Init, SettingRow
<1> QED
  BY <1>1 DEF Init, TypeOK, RowState

\* What a trigger does to the columns it writes keeps their types.
LEMMA InvalidateType ==
  ASSUME TypeOK, NEW u \in User, Invalidate(u)
  PROVE  /\ revision' \in [User -> Nat]
         /\ state' \in [Candidate -> RowState \cup {"absent"}]
         /\ \A c \in Candidate : state'[c] = "absent" <=> state[c] = "absent"
BY InvalidatedType DEF Invalidate, TypeOK

\* Writing the tokens keeps the type of the settings.
LEMMA WriteType ==
  ASSUME TypeOK, NEW u \in User, NEW readable \in BOOLEAN, NEW tokens \in SUBSET Token,
         WriteTokens(u, readable, tokens)
  PROVE  setting' \in [User -> SettingRow \cup {Nil}]
<1>1. [readable |-> readable, tokens |-> tokens] \in SettingRow
  BY DEF SettingRow
<1> QED
  BY <1>1 DEF WriteTokens, TypeOK

\* The tokens of a user are tokens, and so is what is kept of them.
LEMMA TokensType ==
  ASSUME TypeOK, NEW u \in User
  PROVE  /\ Tokens(u) \in SUBSET Token
         /\ \A s : Kept(u, s) \in SUBSET Token
BY DEF TypeOK, Tokens, Kept, SettingRow

\* A call commits a row of its own, so that what it publishes is a row.
LEMMA TypeStep == TypeOK /\ CallsOwnClaims /\ [Next]_vars => TypeOK'
<1> SUFFICES ASSUME TypeOK, CallsOwnClaims, [Next]_vars PROVE TypeOK'
  OBVIOUS
<1> USE DEF TypeOK, calls, candidates, authority
<1>1. ASSUME NEW f \in Fence, NEW u \in User, NEW s \in Session, NEW c \in Candidate,
             Retain(f, u, s, c)
      PROVE  TypeOK'
  <2>1. PICK expiry \in Expiries(u, s) : captured' = [captured EXCEPT ![c] =
               [user |-> u, sess |-> s, rev |-> revision[u], exp |-> expiry]]
    BY <1>1 DEF Retain
  <2>2. expiry \in Nat
    BY <2>1, TokensType, ConstantsAssumption DEF Expiries
  <2>3. [user |-> u, sess |-> s, rev |-> revision[u], exp |-> expiry] \in CaptureRow
    BY <2>2 DEF CaptureRow
  <2>4. \A d \in Candidate : state'[d] # "absent" => captured'[d] \in CaptureRow
    BY <1>1, <2>1, <2>3 DEF Retain
  <2>5. state' \in [Candidate -> RowState \cup {"absent"}] /\ owner' \in [Candidate -> Fence \cup {Nil}]
    BY <1>1 DEF Retain, RowState
  <2> QED
    BY <1>1, <2>1, <2>4, <2>5 DEF Retain
<1>2. ASSUME NEW w \in Call, NEW f \in Fence, NEW c \in Candidate, Claim(w, f, c)
      PROVE  TypeOK'
  BY <1>2 DEF Claim, Claimable, MarkAttempted, RowState
<1>3. ASSUME NEW w \in Call, NEW f \in Fence, NEW c \in Candidate, ClaimUncertain(w, f, c)
      PROVE  TypeOK'
  BY <1>3 DEF ClaimUncertain, Claimable, MarkAttempted, RowState
<1>4. ASSUME NEW w \in Call, ReturnFailure(w)
      PROVE  TypeOK'
  BY <1>4 DEF ReturnFailure, Return
<1>5. ASSUME NEW w \in Call, BeginPublication(w)
      PROVE  TypeOK'
  BY <1>5 DEF BeginPublication
<1>6. ASSUME NEW w \in Call, DeadlineGuard(w)
      PROVE  TypeOK'
  BY <1>6 DEF DeadlineGuard
<1>7. ASSUME NEW w \in Call, CommitPublication(w)
      PROVE  TypeOK'
  <2>1. UNCHANGED <<user, setting, revision, captured, withdrawal, owner, now>>
    BY <1>7 DEF CommitPublication
  <2>2. /\ pc' \in [Call -> {"idle", "claimed", "publishing", "committing"}]
        /\ ref' \in [Call -> Candidate \cup {Nil}] /\ writer' \in Call \cup {Nil}
    BY <1>7 DEF CommitPublication, Return
  <2>3. CASE state' = state /\ publication' = publication
    BY <2>1, <2>2, <2>3
  <2>4. CASE state' = [state EXCEPT ![ref[w]] = "issued"] /\ publication' = publication \cup {ref[w]}
    <3>1. ref[w] \in Candidate /\ state[ref[w]] # "absent"
      BY <1>7 DEF CommitPublication, CallsOwnClaims, Busy
    <3> QED
      BY <2>1, <2>2, <2>4, <3>1 DEF RowState
  <2> QED
    BY <1>7, <2>3, <2>4 DEF CommitPublication
<1>8. ASSUME NEW u \in User, NEW s \in Session, NEW d \in Withdrawal, BeginWithdrawal(u, s, d)
      PROVE  TypeOK'
  <2>1. [user |-> u, sess |-> s, state |-> "frozen"] \in WithdrawalRow
    BY DEF WithdrawalRow
  <2> QED
    BY <1>8, <2>1, InvalidateType DEF BeginWithdrawal
<1>9. ASSUME NEW d \in Withdrawal, RemoveSession(d)
      PROVE  TypeOK'
  <2>1. withdrawal[d].user \in User
    BY <1>9 DEF RemoveSession, Resumable, WithdrawalRow
  <2>2. WriteTokens(withdrawal[d].user, TRUE, Kept(withdrawal[d].user, withdrawal[d].sess))
    BY <1>9 DEF RemoveSession
  <2>3. setting' \in [User -> SettingRow \cup {Nil}]
    <3>1. Kept(withdrawal[d].user, withdrawal[d].sess) \in SUBSET Token
      BY <2>1, TokensType
    <3> HIDE DEF TypeOK
    <3> QED
      BY <2>1, <2>2, <3>1, WriteType
  <2> QED
    BY <1>9, <2>1, <2>2, <2>3, InvalidateType DEF RemoveSession, WriteTokens
<1>10. ASSUME NEW d \in Withdrawal, ReconcileWithdrawal(d)
       PROVE  TypeOK'
  <2>1. withdrawal' \in [Withdrawal -> WithdrawalRow \cup {Nil}]
    BY <1>10 DEF ReconcileWithdrawal, Resumable, WithdrawalRow
  <2>2. /\ state' \in [Candidate -> RowState \cup {"absent"}]
        /\ \A c \in Candidate : state'[c] = "absent" <=> state[c] = "absent"
    BY <1>10 DEF ReconcileWithdrawal, ClosedBy, RowState, RowsOf, Row
  <2> QED
    BY <1>10, <2>1, <2>2 DEF ReconcileWithdrawal
<1>11. ASSUME NEW u \in User, NEW t \in Token, AddSession(u, t)
       PROVE  TypeOK'
  <2>1. {x \in Tokens(u) : x.exp > now} \cup {t} \in SUBSET Token
    BY TokensType
  <2>2. setting' \in [User -> SettingRow \cup {Nil}]
    BY <1>11, <2>1, WriteType DEF AddSession
  <2> QED
    BY <1>11, <2>2, InvalidateType DEF AddSession, WriteTokens
<1>12. ASSUME NEW u \in User, NEW readable \in BOOLEAN, NEW tokens \in SUBSET Token,
              UpsertUserSetting(u, readable, tokens)
       PROVE  TypeOK'
  BY <1>12, WriteType, InvalidateType DEF UpsertUserSetting, WriteTokens
<1>13. ASSUME NEW u \in User, DeleteUserSettings(u)
       PROVE  TypeOK'
  BY <1>13, InvalidateType DEF DeleteUserSettings
<1>14. ASSUME NEW u \in User, NEW status \in {"NORMAL", "ARCHIVED", "deleted"}, WriteUser(u, status)
       PROVE  TypeOK'
  BY <1>14, InvalidateType DEF WriteUser
<1>15. ASSUME NEW f \in Fence, Restart(f)
       PROVE  TypeOK'
  BY <1>15 DEF Restart
<1>16. ASSUME Tick
       PROVE  TypeOK'
  BY <1>16 DEF Tick
<1>17. CASE UNCHANGED vars
  BY <1>17 DEF vars
<1> QED
  BY <1>1, <1>2, <1>3, <1>4, <1>5, <1>6, <1>8, <1>9, <1>10, <1>11, <1>12, <1>13, <1>14,
     <1>7, <1>15, <1>16, <1>17
     DEF Next, FenceNext, MemosNext
-----------------------------------------------------------------------------
\* The inductive invariant holds initially.
LEMMA InvInit == Init => IInv
BY TypeInit, NilDistinct
   DEF Init, IInv, RevisionsGuard, PublicationsWereIssued, CallsOwnClaims, OneContender,
       Contends, FrozenOnce, ReconciledIsFinal, Row, Busy, Resumable

\* While the lock is free no transaction is open.
LEMMA NoneOpen ==
  ASSUME IInv, writer = Nil, NEW w \in Call, Busy(w)
  PROVE  pc[w] = "claimed"
BY NilDistinct DEF IInv, CallsOwnClaims

\* A writer that passes a trigger for its user leaves no row of that user at the
\* current revision, and whatever else it does to that user is no concern of others.
LEMMA WriterInv ==
  ASSUME IInv, TypeOK', writer = Nil, NEW u \in User, Invalidate(u),
         UNCHANGED <<captured, publication, owner, calls>>,
         \A v \in User \ {u} :
           /\ user'[v] = user[v] /\ setting'[v] = setting[v]
           /\ Frozen(v)' = Frozen(v) /\ Tombstoned(v)' = Tombstoned(v),
         FrozenOnce', ReconciledIsFinal'
  PROVE  IInv'
<1>0. TypeOK
  BY DEF IInv
<1>1. /\ revision' = [revision EXCEPT ![u] = @ + 1]
      /\ state' = Invalidated(RowsOf(u))
      /\ \A c \in Candidate : Row(c)' <=> Row(c)
  BY <1>0, InvalidateType DEF Invalidate, Row
<1>2. \A c \in Candidate :
        /\ state'[c] \in {"pending", "issued"} => c \notin RowsOf(u)
        /\ c \notin RowsOf(u) => state'[c] = state[c]
        /\ state[c] \in {"absent", "attempted", "revocation_required", "closed"} => state'[c] = state[c]
        /\ state[c] = "issued" => state'[c] \in {"issued", "revocation_required"}
  BY <1>0, <1>1, InvalidatedStates
<1>3. RevisionsGuard'
  <2> SUFFICES ASSUME NEW c \in Candidate, Row(c)
               PROVE  /\ captured[c].rev <= revision'[captured[c].user]
                      /\ captured[c].rev = revision'[captured[c].user] => Authorized(c)'
                      /\ state'[c] \in {"pending", "issued"}
                           => captured[c].rev = revision'[captured[c].user]
    BY <1>1 DEF RevisionsGuard
  <2>1. captured[c] \in CaptureRow /\ captured[c].user \in User
        /\ captured[c].rev \in Nat /\ revision[captured[c].user] \in Nat
    BY <1>0 DEF TypeOK, Row, CaptureRow
  <2>2. CASE captured[c].user = u
    BY <1>0, <1>1, <1>2, <2>1, <2>2 DEF IInv, RevisionsGuard, RowsOf, TypeOK
  <2>3. CASE captured[c].user # u
    <3>1. revision'[captured[c].user] = revision[captured[c].user] /\ state'[c] = state[c]
      BY <1>0, <1>1, <1>2, <2>1, <2>3 DEF RowsOf, TypeOK
    <3>2. Authorized(c) => Authorized(c)'
      BY <2>1, <2>3 DEF Authorized, Readable, Tokens
    <3> QED
      BY <3>1, <3>2 DEF IInv, RevisionsGuard
  <2> QED
    BY <2>2, <2>3
<1>4. PublicationsWereIssued'
  BY <1>0, <1>2 DEF IInv, PublicationsWereIssued, TypeOK
<1>5. CallsOwnClaims'
  BY <1>0, <1>2, NoneOpen DEF IInv, CallsOwnClaims, Busy, calls
<1>6. OneContender'
  BY <1>2 DEF IInv, OneContender, Contends, Busy, calls
<1> QED
  BY <1>3, <1>4, <1>5, <1>6 DEF IInv

\* A write of the settings of a user that carries no withdrawn session.
LEMMA SettingInv ==
  ASSUME IInv, TypeOK', writer = Nil, NEW u \in User, Invalidate(u),
         UNCHANGED <<user, captured, publication, withdrawal, owner, calls, now>>,
         \A v \in User \ {u} : setting'[v] = setting[v],
         Admissible(u, Tokens(u)')
  PROVE  IInv'
<1>0. TypeOK
  BY DEF IInv
<1>1. FrozenOnce'
  BY DEF IInv, FrozenOnce, Resumable
<1>2. \A c \in Candidate :
        /\ state[c] = "closed" => state'[c] = "closed"
        /\ Row(c)' <=> Row(c)
  <2>1. \A c \in Candidate : Row(c)' <=> Row(c)
    BY <1>0, InvalidateType DEF Invalidate, Row
  <2>2. \A c \in Candidate : state[c] = "closed" => state'[c] = "closed"
    BY <1>0, InvalidatedStates DEF Invalidate
  <2> QED BY <2>1, <2>2
<1>3. ReconciledIsFinal'
  <2> SUFFICES ASSUME NEW d \in Withdrawal, withdrawal[d] # Nil, withdrawal[d].state = "reconciled"
               PROVE  /\ \A t \in Tokens(withdrawal[d].user)' :
                           t.id = withdrawal[d].sess => t.exp # Missing /\ t.exp <= now
                      /\ \A c \in RowsOf(withdrawal[d].user)' :
                           captured[c].sess = withdrawal[d].sess => state'[c] = "closed"
    BY DEF ReconciledIsFinal
  <2>1. withdrawal[d].sess \in Tombstoned(withdrawal[d].user)
    BY DEF Tombstoned, Withdrawals
  <2>2. CASE withdrawal[d].user = u
    BY <1>2, <2>1, <2>2 DEF Admissible, IInv, ReconciledIsFinal, RowsOf
  <2>3. CASE withdrawal[d].user # u
    <3>1. Tokens(withdrawal[d].user)' = Tokens(withdrawal[d].user)
      BY <1>0, <2>3 DEF Tokens, TypeOK, WithdrawalRow
    <3> QED
      BY <1>2, <3>1 DEF IInv, ReconciledIsFinal, RowsOf
  <2> QED
    BY <2>2, <2>3
<1>4. \A v \in User \ {u} : Frozen(v)' = Frozen(v) /\ Tombstoned(v)' = Tombstoned(v)
  BY DEF Frozen, Tombstoned, Withdrawals
<1> QED
  BY <1>1, <1>3, <1>4, WriterInv

\* Nothing the authority of a row rests on has changed.
LEMMA AuthorizedStays ==
  ASSUME UNCHANGED <<authority, withdrawal>>, NEW c \in Candidate, captured'[c] = captured[c],
         Authorized(c)
  PROVE  Authorized(c)'
BY DEF Authorized, authority, Readable, Tokens, Frozen, Tombstoned, Withdrawals

\* Retaining a candidate keeps it.
LEMMA RetainInv ==
  ASSUME IInv, TypeOK', NEW f \in Fence, NEW u \in User, NEW s \in Session, NEW c \in Candidate,
         Retain(f, u, s, c)
  PROVE  IInv'
<1>0. TypeOK
  BY DEF IInv
<1>1. PICK expiry \in Expiries(u, s) : captured' = [captured EXCEPT ![c] =
        [user |-> u, sess |-> s, rev |-> revision[u], exp |-> expiry]]
  BY DEF Retain
<1>2. /\ UNCHANGED <<user, setting, revision, publication, withdrawal, pc, ref, writer, now>>
      /\ state[c] = "absent" /\ state' = [state EXCEPT ![c] = "pending"]
      /\ s \notin Tombstoned(u) /\ ~ Frozen(u)
  BY DEF Retain, authority, calls
<1>3. /\ c \notin publication
      /\ \A w \in Call : Busy(w) => ref[w] # c
  BY <1>2 DEF IInv, PublicationsWereIssued, CallsOwnClaims
<1>4. /\ captured'[c] = [user |-> u, sess |-> s, rev |-> revision[u], exp |-> expiry]
      /\ state'[c] = "pending"
      /\ \A d \in Candidate \ {c} : captured'[d] = captured[d] /\ state'[d] = state[d]
  BY <1>0, <1>1, <1>2 DEF TypeOK
<1>5. Authorized(c)'
  <2>1. PICK t \in Tokens(u) : t.id = s /\ t.exp = expiry
    BY <1>1 DEF Expiries
  <2>2. t = [id |-> s, exp |-> expiry]
    BY <1>0, <2>1, TokensType, ConstantsAssumption
  <2>3. user[u] = "NORMAL" /\ Readable(u)
    BY <1>1 DEF Expiries
  <2> QED
    BY <1>2, <1>4, <2>1, <2>2, <2>3 DEF Authorized, Readable, Tokens, Frozen, Tombstoned, Withdrawals
<1>6. RevisionsGuard'
  <2> SUFFICES ASSUME NEW d \in Candidate, Row(d)'
               PROVE  /\ captured'[d].rev <= revision'[captured'[d].user]
                      /\ captured'[d].rev = revision'[captured'[d].user] => Authorized(d)'
                      /\ state'[d] \in {"pending", "issued"}
                           => captured'[d].rev = revision'[captured'[d].user]
    BY DEF RevisionsGuard
  <2>1. CASE d = c
    BY <1>0, <1>2, <1>4, <1>5, <2>1 DEF TypeOK
  <2>2. CASE d # c
    <3>1. Row(d) /\ captured'[d] = captured[d] /\ state'[d] = state[d]
      BY <1>4, <2>2 DEF Row
    <3>2. Authorized(d) => Authorized(d)'
      BY <1>2, <3>1, AuthorizedStays DEF authority
    <3> QED
      BY <1>2, <3>1, <3>2 DEF IInv, RevisionsGuard
  <2> QED
    BY <2>1, <2>2
<1>7. PublicationsWereIssued'
  BY <1>0, <1>2, <1>3, <1>4 DEF IInv, PublicationsWereIssued, TypeOK
<1>8. CallsOwnClaims'
  BY <1>2, <1>3, <1>4 DEF IInv, CallsOwnClaims, Busy
<1>9. OneContender'
  BY <1>2, <1>3, <1>4 DEF IInv, OneContender, Contends, Busy
<1>10. FrozenOnce'
  BY <1>2 DEF IInv, FrozenOnce, Resumable
<1>11. ReconciledIsFinal'
  <2> SUFFICES ASSUME NEW d \in Withdrawal, withdrawal[d] # Nil, withdrawal[d].state = "reconciled"
               PROVE  /\ \A t \in Tokens(withdrawal[d].user)' :
                           t.id = withdrawal[d].sess => t.exp # Missing /\ t.exp <= now'
                      /\ \A e \in RowsOf(withdrawal[d].user)' :
                           captured'[e].sess = withdrawal[d].sess => state'[e] = "closed"
    BY <1>2 DEF ReconciledIsFinal
  <2>1. withdrawal[d].sess \in Tombstoned(withdrawal[d].user)
    BY DEF Tombstoned, Withdrawals
  <2>2. Tokens(withdrawal[d].user)' = Tokens(withdrawal[d].user)
    BY <1>2 DEF Tokens
  <2> QED
    BY <1>2, <1>4, <2>1, <2>2 DEF IInv, ReconciledIsFinal, RowsOf, Row
<1> QED
  BY <1>6, <1>7, <1>8, <1>9, <1>10, <1>11 DEF IInv

\* A claim is open to one row of a user at a time: no other one is unresolved.
LEMMA ClaimedAlone ==
  ASSUME IInv, NEW c \in Candidate, Claimable(c)
  PROVE  /\ state[c] = "pending" /\ c \notin publication
         /\ \A w \in Call : Busy(w) => ref[w] # c
         /\ \A d \in Candidate : d # c /\ Contends(d) /\ captured[d].user = captured[c].user
              => state[d] = "closed"
<1>1. state[c] = "pending" /\ c \notin publication
  BY DEF Claimable, IInv, PublicationsWereIssued
<1>2. \A w \in Call : Busy(w) => ref[w] # c
  BY <1>1 DEF IInv, CallsOwnClaims
<1>3. \A d \in Candidate : Contends(d) => state[d] \in {"attempted", "issued", "revocation_required", "closed"}
  BY DEF Contends, IInv, CallsOwnClaims, PublicationsWereIssued
<1> QED
  BY <1>1, <1>2, <1>3 DEF Claimable, RowsOf, Row, Unresolved

\* The row of a claim is attempted from now on, whether the call goes on or not.
LEMMA ClaimTables ==
  ASSUME IInv, TypeOK', NEW c \in Candidate, Claimable(c), MarkAttempted(c),
         UNCHANGED <<authority, captured, publication, withdrawal, owner, writer, now>>
  PROVE  /\ state'[c] = "attempted"
         /\ \A d \in Candidate \ {c} : state'[d] = state[d]
         /\ RevisionsGuard' /\ PublicationsWereIssued' /\ FrozenOnce' /\ ReconciledIsFinal'
<1>0. TypeOK
  BY DEF IInv
<1>1. /\ state'[c] = "attempted" /\ state[c] = "pending"
      /\ \A d \in Candidate \ {c} : state'[d] = state[d]
  BY <1>0 DEF MarkAttempted, Claimable, TypeOK
<1>2. \A d \in Candidate : Row(d)' <=> Row(d)
  BY <1>1 DEF Row
<1>3. RevisionsGuard'
  <2>1. \A d \in Candidate : Authorized(d) => Authorized(d)'
    BY AuthorizedStays
  <2> QED
    BY <1>1, <1>2, <2>1 DEF IInv, RevisionsGuard, authority
<1>4. PublicationsWereIssued'
  BY <1>0, <1>1 DEF IInv, PublicationsWereIssued, TypeOK
<1>5. FrozenOnce'
  BY DEF IInv, FrozenOnce, Resumable
<1>6. ReconciledIsFinal'
  <2>1. \A u : Tokens(u)' = Tokens(u) /\ RowsOf(u)' = RowsOf(u)
    BY <1>2 DEF Tokens, RowsOf, authority
  <2> QED
    BY <1>1, <2>1 DEF IInv, ReconciledIsFinal, RowsOf
<1> QED
  BY <1>1, <1>3, <1>4, <1>5, <1>6

\* A claim keeps it.
LEMMA ClaimInv ==
  ASSUME IInv, TypeOK', NEW w \in Call, NEW f \in Fence, NEW c \in Candidate,
         Claim(w, f, c) \/ ClaimUncertain(w, f, c)
  PROVE  IInv'
<1>0. TypeOK
  BY DEF IInv
<1>1. /\ Claimable(c) /\ MarkAttempted(c) /\ pc[w] = "idle"
      /\ UNCHANGED <<authority, captured, publication, withdrawal, owner, writer, now>>
      /\ \/ pc' = [pc EXCEPT ![w] = "claimed"] /\ ref' = [ref EXCEPT ![w] = c]
         \/ UNCHANGED <<pc, ref>>
  BY DEF Claim, ClaimUncertain, calls
<1>2. /\ state'[c] = "attempted"
      /\ \A d \in Candidate \ {c} : state'[d] = state[d]
      /\ RevisionsGuard' /\ PublicationsWereIssued' /\ FrozenOnce' /\ ReconciledIsFinal'
  BY <1>1, ClaimTables
<1>3. /\ c \notin publication
      /\ \A x \in Call : Busy(x) => ref[x] # c
      /\ \A d \in Candidate : d # c /\ Contends(d) /\ captured[d].user = captured[c].user
           => state[d] = "closed"
  BY <1>1, ClaimedAlone
<1>4. \A x \in Call : Busy(x)' =>
        \/ x = w /\ pc'[x] = "claimed" /\ ref'[x] = c
        \/ Busy(x) /\ pc'[x] = pc[x] /\ ref'[x] = ref[x]
  BY <1>0, <1>1 DEF Busy, TypeOK
<1>5. CallsOwnClaims'
  <2> SUFFICES ASSUME NEW x \in Call, Busy(x)'
               PROVE  /\ ref'[x] \in Candidate \ publication
                      /\ state'[ref'[x]] \in {"attempted", "closed"}
                      /\ \A y \in Call \ {x} : Busy(y)' => ref'[y] # ref'[x]
                      /\ pc'[x] # "claimed" =>
                           /\ writer = x
                           /\ state'[ref'[x]] = "attempted"
                           /\ captured[ref'[x]].rev = revision[captured[ref'[x]].user]
    BY <1>1 DEF CallsOwnClaims, authority
  <2>1. CASE Busy(x) /\ pc'[x] = pc[x] /\ ref'[x] = ref[x]
    BY <1>2, <1>3, <1>4, <2>1 DEF IInv, CallsOwnClaims
  <2>2. CASE x = w /\ pc'[x] = "claimed" /\ ref'[x] = c
    BY <1>1, <1>2, <1>3, <1>4, <2>2 DEF Busy
  <2> QED
    BY <1>4, <2>1, <2>2
<1>6. OneContender'
  BY <1>1, <1>2, <1>3, <1>4 DEF IInv, OneContender, Contends
<1> QED
  BY <1>2, <1>5, <1>6 DEF IInv

\* Calls that end, with their transactions, or go on by one step leave the
\* tables as they are.
LEMMA CallsInv ==
  ASSUME IInv, TypeOK', UNCHANGED <<authority, candidates, withdrawal, now>>,
         \A x \in Call : Busy(x)' =>
           /\ Busy(x) /\ ref'[x] = ref[x]
           /\ pc'[x] # "claimed" =>
                /\ writer' = x
                /\ state[ref[x]] = "attempted"
                /\ captured[ref[x]].rev = revision[captured[ref[x]].user]
  PROVE  IInv'
<1> USE DEF authority, candidates
<1>1. RevisionsGuard'
  <2>1. \A c \in Candidate : Authorized(c) => Authorized(c)'
    BY AuthorizedStays
  <2> QED
    BY <2>1 DEF IInv, RevisionsGuard, Row
<1>2. PublicationsWereIssued'
  BY DEF IInv, PublicationsWereIssued
<1>3. CallsOwnClaims'
  BY DEF IInv, CallsOwnClaims
<1>4. OneContender'
  BY DEF IInv, OneContender, Contends
<1>5. FrozenOnce'
  BY DEF IInv, FrozenOnce, Resumable
<1>6. ReconciledIsFinal'
  BY DEF IInv, ReconciledIsFinal, Tokens, RowsOf, Row
<1> QED
  BY <1>1, <1>2, <1>3, <1>4, <1>5, <1>6 DEF IInv

\* The row of a call that commits is at its captured revision, and every other row
\* of its user that was published is closed.
LEMMA CommitInv ==
  ASSUME IInv, TypeOK', NEW w \in Call, CommitPublication(w)
  PROVE  IInv'
<1> DEFINE c == ref[w]
<1>0. TypeOK
  BY DEF IInv
<1>1. /\ Busy(w) /\ c \in Candidate \ publication /\ state[c] = "attempted"
      /\ captured[c].rev = revision[captured[c].user]
      /\ \A x \in Call \ {w} : Busy(x) => ref[x] # c /\ pc[x] = "claimed"
      /\ UNCHANGED <<authority, captured, withdrawal, owner, now>>
  BY DEF CommitPublication, IInv, CallsOwnClaims, Busy
<1>2. \/ UNCHANGED <<state, publication>>
      \/ state' = [state EXCEPT ![c] = "issued"] /\ publication' = publication \cup {c}
  BY DEF CommitPublication
<1>3. \A x \in Call : Busy(x)' => x # w /\ Busy(x) /\ pc'[x] = "claimed" /\ ref'[x] = ref[x]
  BY <1>0, <1>1 DEF CommitPublication, Return, Busy, TypeOK
<1>4. CASE UNCHANGED <<state, publication>>
  BY <1>1, <1>3, <1>4, CallsInv DEF candidates
<1>5. CASE state' = [state EXCEPT ![c] = "issued"] /\ publication' = publication \cup {c}
  <2>1. /\ state'[c] = "issued"
        /\ \A d \in Candidate \ {c} : state'[d] = state[d]
    BY <1>0, <1>1, <1>5 DEF TypeOK
  <2>2. \A d \in Candidate : Row(d)' <=> Row(d)
    BY <1>1, <2>1 DEF Row
  <2>3. RevisionsGuard'
    <3>1. \A d \in Candidate : Authorized(d) => Authorized(d)'
      BY <1>1, AuthorizedStays
    <3> QED
      BY <1>1, <2>1, <2>2, <3>1 DEF IInv, RevisionsGuard, authority
  <2>4. PublicationsWereIssued'
    BY <1>0, <1>5, <2>1 DEF IInv, PublicationsWereIssued, TypeOK
  <2>5. CallsOwnClaims'
    <3> SUFFICES ASSUME NEW x \in Call, Busy(x)'
                 PROVE  /\ ref'[x] \in Candidate \ publication'
                        /\ state'[ref'[x]] \in {"attempted", "closed"}
                        /\ \A y \in Call \ {x} : Busy(y)' => ref'[y] # ref'[x]
                        /\ pc'[x] = "claimed"
      BY DEF CallsOwnClaims
    <3>1. x # w /\ Busy(x) /\ ref'[x] = ref[x] /\ ref[x] # c /\ pc'[x] = "claimed"
      BY <1>1, <1>3
    <3> QED
      BY <1>3, <1>5, <2>1, <3>1 DEF IInv, CallsOwnClaims
  <2>6. OneContender'
    <3>1. Contends(c)
      BY <1>1 DEF Contends
    <3>2. \A d \in Candidate : Contends(d)' => Contends(d)
      BY <1>3, <1>5, <3>1 DEF Contends
    <3> QED
      BY <1>1, <2>1, <3>1, <3>2 DEF IInv, OneContender
  <2>7. FrozenOnce'
    BY <1>1 DEF IInv, FrozenOnce, Resumable
  <2>8. ReconciledIsFinal'
    <3>1. \A u : Tokens(u)' = Tokens(u) /\ RowsOf(u)' = RowsOf(u)
      BY <1>1, <2>2 DEF Tokens, RowsOf, authority
    <3>2. \A d \in Candidate : state[d] = "closed" => state'[d] = "closed"
      BY <1>1, <2>1
    <3> QED
      BY <1>1, <3>1, <3>2 DEF IInv, ReconciledIsFinal, RowsOf
  <2> QED
    BY <2>3, <2>4, <2>5, <2>6, <2>7, <2>8 DEF IInv
<1> QED
  BY <1>2, <1>4, <1>5
-----------------------------------------------------------------------------
\* The begin of a withdrawal keeps it.
LEMMA BeginWithdrawalInv ==
  ASSUME IInv, TypeOK', NEW u \in User, NEW s \in Session, NEW d \in Withdrawal,
         BeginWithdrawal(u, s, d)
  PROVE  IInv'
<1>0. TypeOK
  BY DEF IInv
<1>1. /\ writer = Nil /\ withdrawal[d] = Nil /\ ~ Frozen(u) /\ Invalidate(u)
      /\ UNCHANGED <<user, setting, captured, publication, owner, calls, now>>
  BY DEF BeginWithdrawal
<1>2. /\ withdrawal'[d] = [user |-> u, sess |-> s, state |-> "frozen"] /\ withdrawal'[d] # Nil
      /\ \A e \in Withdrawal \ {d} : withdrawal'[e] = withdrawal[e]
  BY <1>0, NilDistinct DEF BeginWithdrawal, TypeOK, WithdrawalRow
<1>3. \A v \in User \ {u} : Withdrawals(v)' = Withdrawals(v)
  BY <1>1, <1>2 DEF Withdrawals
<1>4. \A v \in User \ {u} : Frozen(v)' = Frozen(v) /\ Tombstoned(v)' = Tombstoned(v)
  <2> SUFFICES ASSUME NEW v \in User \ {u}
               PROVE  Frozen(v)' = Frozen(v) /\ Tombstoned(v)' = Tombstoned(v)
    OBVIOUS
  <2>1. \A e \in Withdrawals(v) : withdrawal'[e] = withdrawal[e]
    BY <1>1, <1>2 DEF Withdrawals
  <2> QED
    BY <1>3, <2>1 DEF Frozen, Tombstoned
<1>5. FrozenOnce'
  BY <1>1, <1>2 DEF IInv, FrozenOnce, Resumable, Frozen, Withdrawals
<1>6. ReconciledIsFinal'
  <2> SUFFICES ASSUME NEW e \in Withdrawal, withdrawal'[e] # Nil, withdrawal'[e].state = "reconciled"
               PROVE  /\ \A t \in Tokens(withdrawal[e].user)' :
                           t.id = withdrawal[e].sess => t.exp # Missing /\ t.exp <= now
                      /\ \A c \in RowsOf(withdrawal[e].user)' :
                           captured[c].sess = withdrawal[e].sess => state'[c] = "closed"
                      /\ withdrawal'[e] = withdrawal[e]
    BY <1>1, <1>2 DEF ReconciledIsFinal
  <2>1. e # d /\ withdrawal'[e] = withdrawal[e]
    BY <1>2
  <2>2. \A c \in Candidate :
          /\ state[c] = "closed" => state'[c] = "closed"
          /\ Row(c)' <=> Row(c)
    <3>1. state' = Invalidated(RowsOf(u))
      BY <1>1 DEF Invalidate
    <3>2. \A c \in Candidate : state[c] = "closed" => state'[c] = "closed"
      BY <1>0, <3>1, InvalidatedStates
    <3>3. \A c \in Candidate : Row(c)' <=> Row(c)
      BY <1>0, <1>1, InvalidateType DEF Row
    <3> QED
      BY <3>2, <3>3
  <2> QED
    BY <1>1, <2>1, <2>2 DEF IInv, ReconciledIsFinal, RowsOf, Tokens
<1> QED
  BY <1>1, <1>4, <1>5, <1>6, WriterInv

\* Reconciliation closes the rows of the session and leaves the revision, since
\* nothing of a frozen user was current.
LEMMA ReconcileInv ==
  ASSUME IInv, TypeOK', NEW d \in Withdrawal, ReconcileWithdrawal(d)
  PROVE  IInv'
<1> DEFINE u == withdrawal[d].user  s == withdrawal[d].sess
<1>0. TypeOK
  BY DEF IInv
<1>1. /\ writer = Nil /\ Resumable(d) /\ SessionGone(u, s)
      /\ state' = ClosedBy(u, s)
      /\ UNCHANGED <<authority, captured, publication, owner, calls, now>>
  BY DEF ReconcileWithdrawal
<1>2. /\ withdrawal'[d] = [withdrawal[d] EXCEPT !.state = "reconciled"]
      /\ \A e \in Withdrawal \ {d} : withdrawal'[e] = withdrawal[e]
      /\ withdrawal[d] \in WithdrawalRow
  BY <1>0, <1>1 DEF ReconcileWithdrawal, TypeOK, Resumable
<1>3. /\ withdrawal'[d] # Nil /\ withdrawal'[d].state = "reconciled"
      /\ withdrawal'[d].user = u /\ withdrawal'[d].sess = s
  <2>1. withdrawal'[d] \in WithdrawalRow
    BY <1>2 DEF WithdrawalRow
  <2> QED
    BY <1>2, <2>1, NilDistinct DEF WithdrawalRow
<1>4. \A c \in Candidate :
        /\ state'[c] = state[c] \/ state'[c] = "closed"
        /\ c \in RowsOf(u) /\ captured[c].sess = s => state'[c] = "closed"
        /\ Row(c)' <=> Row(c)
  BY <1>1 DEF ClosedBy, RowsOf, Row
<1>5. Frozen(u)
  BY <1>1 DEF Frozen, Withdrawals, Resumable
<1>6. \A v : /\ Tombstoned(v)' = Tombstoned(v)
             /\ Frozen(v)' => Frozen(v)
  <2> SUFFICES ASSUME NEW v
               PROVE  Tombstoned(v)' = Tombstoned(v) /\ (Frozen(v)' => Frozen(v))
    OBVIOUS
  <2>1. Withdrawals(v)' = Withdrawals(v)
    BY <1>1, <1>2, <1>3 DEF Withdrawals, Resumable
  <2>2. \A e \in Withdrawals(v) : /\ withdrawal'[e].sess = withdrawal[e].sess
                                  /\ withdrawal'[e].state = "frozen" => withdrawal[e].state = "frozen"
    BY <1>2, <1>3 DEF Withdrawals
  <2> QED
    BY <2>1, <2>2 DEF Tombstoned, Frozen
<1>7. RevisionsGuard'
  <2>1. \A c \in Candidate : Authorized(c) => Authorized(c)'
    BY <1>1, <1>6 DEF Authorized, authority, Readable, Tokens
  <2> QED
    BY <1>1, <1>4, <2>1 DEF IInv, RevisionsGuard, authority
<1>8. PublicationsWereIssued'
  BY <1>0, <1>1, <1>4 DEF IInv, PublicationsWereIssued, TypeOK
<1>9. CallsOwnClaims'
  BY <1>1, <1>4, NoneOpen DEF IInv, CallsOwnClaims, Busy, calls
<1>10. OneContender'
  BY <1>1, <1>4 DEF IInv, OneContender, Contends, Busy, calls
<1>11. FrozenOnce'
  <2>1. \A e \in Withdrawal : Resumable(e)' => e # d /\ withdrawal'[e] = withdrawal[e] /\ Resumable(e)
    BY <1>2, <1>3 DEF Resumable
  <2> QED
    BY <2>1 DEF IInv, FrozenOnce
<1>12. ReconciledIsFinal'
  <2>1. \A v : Tokens(v)' = Tokens(v) /\ RowsOf(v)' = RowsOf(v)
    BY <1>1, <1>4 DEF Tokens, RowsOf, authority
  <2> SUFFICES ASSUME NEW e \in Withdrawal, withdrawal'[e] # Nil, withdrawal'[e].state = "reconciled"
               PROVE  /\ \A t \in Tokens(withdrawal'[e].user) :
                           t.id = withdrawal'[e].sess => t.exp # Missing /\ t.exp <= now
                      /\ \A c \in RowsOf(withdrawal'[e].user) :
                           captured[c].sess = withdrawal'[e].sess => state'[c] = "closed"
    BY <1>1, <2>1 DEF ReconciledIsFinal
  <2>2. CASE e = d
    BY <1>1, <1>3, <1>4, <2>2 DEF SessionGone, RowsOf
  <2>3. CASE e # d
    BY <1>2, <1>4, <2>3 DEF IInv, ReconciledIsFinal, RowsOf
  <2> QED
    BY <2>2, <2>3
<1> QED
  BY <1>7, <1>8, <1>9, <1>10, <1>11, <1>12 DEF IInv


\* A restart keeps it.
LEMMA RestartInv ==
  ASSUME IInv, TypeOK', NEW f \in Fence, Restart(f)
  PROVE  IInv'
<1>0. TypeOK
  BY DEF IInv
<1>1. \A x \in Call : Busy(x)' => Busy(x) /\ ~ Lost(f, x) /\ pc'[x] = pc[x] /\ ref'[x] = ref[x]
  BY <1>0 DEF Restart, Busy, TypeOK
<1>2. \A x \in Call : Busy(x)' /\ writer = x => writer' = x
  BY <1>1 DEF Restart
<1>3. \A x \in Call : Busy(x)' =>
        /\ Busy(x) /\ ref'[x] = ref[x]
        /\ pc'[x] # "claimed" =>
             /\ writer' = x
             /\ state[ref[x]] = "attempted"
             /\ captured[ref[x]].rev = revision[captured[ref[x]].user]
  BY <1>1, <1>2 DEF IInv, CallsOwnClaims
<1> QED
  BY <1>3, CallsInv DEF Restart

\* The passing of time keeps it.
LEMMA TickInv ==
  ASSUME IInv, TypeOK', Tick
  PROVE  IInv'
<1>0. now \in Nat /\ now' = now + 1
  BY DEF IInv, TypeOK, Tick
<1> USE DEF Tick, authority, candidates, calls
<1>1. RevisionsGuard'
  <2>1. \A c \in Candidate : Authorized(c) => Authorized(c)'
    BY AuthorizedStays
  <2> QED
    BY <2>1 DEF IInv, RevisionsGuard, Row
<1>2. PublicationsWereIssued'
  BY DEF IInv, PublicationsWereIssued
<1>3. CallsOwnClaims' /\ OneContender'
  BY DEF IInv, CallsOwnClaims, OneContender, Contends, Busy
<1>4. FrozenOnce'
  BY DEF IInv, FrozenOnce, Resumable
<1>5. ReconciledIsFinal'
  <2> SUFFICES ASSUME NEW d \in Withdrawal, withdrawal[d] # Nil, withdrawal[d].state = "reconciled"
               PROVE  /\ \A t \in Tokens(withdrawal[d].user) :
                           t.id = withdrawal[d].sess => t.exp # Missing /\ t.exp <= now'
                      /\ \A c \in RowsOf(withdrawal[d].user) :
                           captured[c].sess = withdrawal[d].sess => state[c] = "closed"
    BY DEF ReconciledIsFinal, Tokens, RowsOf, Row
  <2>1. withdrawal[d].user \in User
    BY DEF IInv, TypeOK, WithdrawalRow
  <2>2. \A t \in Tokens(withdrawal[d].user) : t.exp \in Nat
    BY <2>1, TokensType, ConstantsAssumption DEF IInv
  <2> QED
    BY <1>0, <2>2 DEF IInv, ReconciledIsFinal
<1> QED
  BY <1>1, <1>2, <1>3, <1>4, <1>5 DEF IInv

\* Every step keeps the inductive invariant.
LEMMA InvStep == IInv /\ [Next]_vars => IInv'
<1> SUFFICES ASSUME IInv, [Next]_vars PROVE IInv'
  OBVIOUS
<1>0. TypeOK /\ TypeOK'
  BY TypeStep DEF IInv
<1>1. ASSUME NEW f \in Fence, NEW u \in User, NEW s \in Session, NEW c \in Candidate,
             Retain(f, u, s, c)
      PROVE  IInv'
  BY <1>0, <1>1, RetainInv
<1>2. ASSUME NEW w \in Call, NEW f \in Fence, NEW c \in Candidate,
             Claim(w, f, c) \/ ClaimUncertain(w, f, c)
      PROVE  IInv'
  BY <1>0, <1>2, ClaimInv
<1>3. ASSUME NEW w \in Call, ReturnFailure(w)
      PROVE  IInv'
  <2>1. \A x \in Call : Busy(x)' => x # w /\ Busy(x) /\ ref'[x] = ref[x] /\ pc'[x] = pc[x]
    BY <1>0, <1>3 DEF ReturnFailure, Return, Busy, TypeOK
  <2>2. \A x \in Call : Busy(x)' /\ writer = x => writer' = x
    BY <1>3, <2>1 DEF ReturnFailure, Return
  <2>3. UNCHANGED <<authority, candidates, withdrawal, now>>
    BY <1>3 DEF ReturnFailure
  <2> QED
    BY <1>0, <2>1, <2>2, <2>3, CallsInv DEF IInv, CallsOwnClaims
<1>4. ASSUME NEW w \in Call, BeginPublication(w)
      PROVE  IInv'
  <2>1. \A x \in Call : Busy(x)' => Busy(x) /\ ref'[x] = ref[x] /\ (x # w => pc'[x] = pc[x])
    BY <1>0, <1>4 DEF BeginPublication, Busy, TypeOK
  <2>2. \A x \in Call : Busy(x) => pc[x] = "claimed"
    BY <1>4, NoneOpen DEF BeginPublication
  <2>3. /\ writer' = w /\ state[ref[w]] = "attempted"
        /\ captured[ref[w]].rev = revision[captured[ref[w]].user]
        /\ UNCHANGED <<authority, candidates, withdrawal, now>>
    BY <1>4 DEF BeginPublication, PublicationAllowed
  <2> QED
    BY <1>0, <2>1, <2>2, <2>3, CallsInv
<1>5. ASSUME NEW w \in Call, DeadlineGuard(w)
      PROVE  IInv'
  <2>1. \A x \in Call : Busy(x)' => Busy(x) /\ ref'[x] = ref[x] /\ (pc'[x] # "claimed" => pc[x] # "claimed")
    BY <1>0, <1>5 DEF DeadlineGuard, Busy, TypeOK
  <2>2. UNCHANGED <<authority, candidates, withdrawal, writer, now>>
    BY <1>5 DEF DeadlineGuard
  <2> QED
    BY <1>0, <2>1, <2>2, CallsInv DEF IInv, CallsOwnClaims
<1>6. ASSUME NEW w \in Call, CommitPublication(w)
      PROVE  IInv'
  BY <1>0, <1>6, CommitInv
<1>7. ASSUME NEW u \in User, NEW s \in Session, NEW d \in Withdrawal, BeginWithdrawal(u, s, d)
      PROVE  IInv'
  BY <1>0, <1>7, BeginWithdrawalInv
<1>8. ASSUME NEW u \in User, NEW readable, NEW tokens, writer = Nil, WriteTokens(u, readable, tokens),
             UNCHANGED <<user, captured, publication, withdrawal, owner, calls, now>>
      PROVE  IInv'
  <2>1. /\ Invalidate(u) /\ Admissible(u, tokens)
        /\ setting' = [setting EXCEPT ![u] = [readable |-> readable, tokens |-> tokens]]
    BY <1>8 DEF WriteTokens
  <2>2. setting'[u] = [readable |-> readable, tokens |-> tokens] /\ \A v \in User \ {u} : setting'[v] = setting[v]
    BY <1>0, <2>1 DEF TypeOK
  <2>3. Tokens(u)' = tokens \/ Tokens(u)' = {}
    BY <2>2 DEF Tokens
  <2>4. Admissible(u, Tokens(u)')
    BY <2>1, <2>3 DEF Admissible
  <2> QED
    BY <1>0, <1>8, <2>1, <2>2, <2>4, SettingInv
<1>9. ASSUME NEW d \in Withdrawal, RemoveSession(d)
      PROVE  IInv'
  <2>1. withdrawal[d].user \in User
    BY <1>0, <1>9 DEF RemoveSession, Resumable, TypeOK, WithdrawalRow
  <2> QED
    BY <1>8, <1>9, <2>1 DEF RemoveSession
<1>10. ASSUME NEW d \in Withdrawal, ReconcileWithdrawal(d)
       PROVE  IInv'
  BY <1>0, <1>10, ReconcileInv
<1>11. ASSUME NEW u \in User, NEW t \in Token, AddSession(u, t)
       PROVE  IInv'
  BY <1>8, <1>11 DEF AddSession
<1>12. ASSUME NEW u \in User, NEW readable \in BOOLEAN, NEW tokens \in SUBSET Token,
              UpsertUserSetting(u, readable, tokens)
       PROVE  IInv'
  BY <1>8, <1>12 DEF UpsertUserSetting
<1>13. ASSUME NEW u \in User, DeleteUserSettings(u)
       PROVE  IInv'
  <2>1. /\ writer = Nil /\ Invalidate(u) /\ setting' = [setting EXCEPT ![u] = Nil]
        /\ UNCHANGED <<user, captured, publication, withdrawal, owner, calls, now>>
    BY <1>13 DEF DeleteUserSettings
  <2>2. setting'[u] = Nil /\ \A v \in User \ {u} : setting'[v] = setting[v]
    BY <1>0, <2>1 DEF TypeOK
  <2>3. Admissible(u, Tokens(u)')
    BY <2>2 DEF Admissible, Tokens
  <2> QED
    BY <1>0, <2>1, <2>2, <2>3, SettingInv
<1>14. ASSUME NEW u \in User, NEW status \in {"NORMAL", "ARCHIVED", "deleted"}, WriteUser(u, status)
       PROVE  IInv'
  <2>1. /\ writer = Nil /\ Invalidate(u) /\ user' = [user EXCEPT ![u] = status]
        /\ UNCHANGED <<setting, captured, publication, withdrawal, owner, calls, now>>
    BY <1>14 DEF WriteUser
  <2>2. \A v \in User \ {u} : /\ user'[v] = user[v] /\ setting'[v] = setting[v]
                              /\ Frozen(v)' = Frozen(v) /\ Tombstoned(v)' = Tombstoned(v)
    BY <1>0, <2>1 DEF TypeOK, Frozen, Tombstoned, Withdrawals
  <2>3. FrozenOnce'
    BY <2>1 DEF IInv, FrozenOnce, Resumable
  <2>4. \A c \in Candidate :
          /\ state[c] = "closed" => state'[c] = "closed"
          /\ Row(c)' <=> Row(c)
    <3>1. state' = Invalidated(RowsOf(u))
      BY <2>1 DEF Invalidate
    <3>2. \A c \in Candidate : state[c] = "closed" => state'[c] = "closed"
      BY <1>0, <3>1, InvalidatedStates
    <3>3. \A c \in Candidate : Row(c)' <=> Row(c)
      BY <1>0, <2>1, InvalidateType DEF Row
    <3> QED
      BY <3>2, <3>3
  <2>5. ReconciledIsFinal'
    BY <2>1, <2>4 DEF IInv, ReconciledIsFinal, RowsOf, Tokens
  <2> QED
    BY <1>0, <2>1, <2>2, <2>3, <2>5, WriterInv
<1>15. ASSUME NEW f \in Fence, Restart(f)
       PROVE  IInv'
  BY <1>0, <1>15, RestartInv
<1>16. CASE Tick
  BY <1>0, <1>16, TickInv
<1>17. CASE UNCHANGED vars
  <2>1. \A x \in Call : Busy(x)' => Busy(x) /\ ref'[x] = ref[x] /\ pc'[x] = pc[x]
    BY <1>17 DEF vars, calls, Busy
  <2>2. UNCHANGED <<authority, candidates, withdrawal, writer, now>>
    BY <1>17 DEF vars, authority, candidates, calls
  <2> QED
    BY <1>0, <2>1, <2>2, CallsInv DEF IInv, CallsOwnClaims
<1> QED
  BY <1>1, <1>2, <1>3, <1>4, <1>5, <1>6, <1>7, <1>9, <1>10, <1>11, <1>12, <1>13, <1>14,
     <1>15, <1>16, <1>17
     DEF Next, FenceNext, MemosNext
-----------------------------------------------------------------------------
\* The inductive invariant holds in every behaviour (asp_nonlive_fence.go).
THEOREM Invariant == Spec => []IInv
BY InvInit, InvStep, PTL DEF Spec

\* No user ever has two open publications, not even with the next one about to
\* commit, and no row that may count outlives the user, session and token it
\* names, whichever of Memos's writers changes them (nonLiveTriggers, attempt).
THEOREM AuthorityHolds == Spec => []Inv
<1>1. ASSUME IInv PROVE OneOpenPublication
  <2> SUFFICES ASSUME NEW c \in Candidate, NEW d \in Candidate,
                      c # d, captured[c].user = captured[d].user,
                      c \in publication, state[c] # "closed"
               PROVE  /\ d \in publication => state[d] = "closed"
                      /\ \A w \in Call : pc[w] = "committing" => ref[w] # d
    BY DEF OneOpenPublication
  <2>1. Contends(d) => state[d] = "closed"
    BY <1>1 DEF IInv, OneContender, Contends
  <2> QED
    BY <1>1, <2>1 DEF Contends, IInv, CallsOwnClaims, Busy
<1>2. ASSUME IInv PROVE AuthorityFollowsTables
  BY <1>2 DEF IInv, RevisionsGuard, AuthorityFollowsTables, Authorized, Row
<1>3. IInv => Inv
  BY <1>1, <1>2 DEF IInv, Inv
<1> QED
  BY <1>3, Invariant, PTL

\* A removal is never stuck: what removeSession writes back of a frozen session
\* carries no id that a tombstone keeps out, however many withdrawals of the
\* user came before (removeSession, nonLiveTriggers).
THEOREM RemovalsProceed == Spec => []RemovalNeverBlocked
<1>1. ASSUME IInv PROVE RemovalNeverBlocked
  <2> SUFFICES ASSUME NEW d \in Withdrawal, Resumable(d),
                      NEW t \in Kept(withdrawal[d].user, withdrawal[d].sess)
               PROVE  t.id \notin Tombstoned(withdrawal[d].user)
    BY DEF RemovalNeverBlocked, Admissible
  <2>1. /\ t \in Tokens(withdrawal[d].user) /\ t.id # withdrawal[d].sess
        /\ t.exp = Missing \/ t.exp > now
    BY DEF Kept
  <2>2. now \in Nat /\ t.exp \in Nat
    <3>1. withdrawal[d].user \in User
      BY <1>1 DEF IInv, TypeOK, Resumable, WithdrawalRow
    <3> QED
      BY <1>1, <2>1, <3>1, TokensType, ConstantsAssumption DEF IInv, TypeOK
  <2>3. ASSUME NEW e \in Withdrawals(withdrawal[d].user) PROVE t.id # withdrawal[e].sess
    <3>1. e \in Withdrawal /\ withdrawal[e] # Nil /\ withdrawal[e].user = withdrawal[d].user
      BY DEF Withdrawals
    <3>2. CASE Resumable(e)
      BY <1>1, <2>1, <3>1, <3>2 DEF IInv, FrozenOnce
    <3>3. CASE ~ Resumable(e)
      <4>1. withdrawal[e].state = "reconciled"
        BY <1>1, <3>1, <3>3 DEF IInv, TypeOK, Resumable, WithdrawalRow
      <4> QED
        BY <1>1, <2>1, <2>2, <3>1, <4>1 DEF IInv, ReconciledIsFinal
    <3> QED
      BY <3>2, <3>3
  <2> QED
    BY <2>3 DEF Tombstoned
<1> QED
  BY <1>1, Invariant, PTL

\* A reconciliation is never undone: no live token of its session exists again,
\* and no row of it is open (reconcileWithdrawal).
THEOREM ReconciliationIsFinal == Spec => []ReconciledIsFinal
<1>1. IInv => ReconciledIsFinal
  BY DEF IInv
<1> QED
  BY <1>1, Invariant, PTL

\* A publication that appears was not frozen and its session not withdrawn: the
\* freeze would have moved the revision its attempt had to find (attempt).
THEOREM FreezeHolds == Spec => FrozenNeverPublishes
<1>1. ASSUME IInv, [Next]_vars, NEW c \in publication' \ publication
      PROVE  ~ Frozen(captured[c].user) /\ captured[c].sess \notin Tombstoned(captured[c].user)
  <2>1. PICK w \in Call : CommitPublication(w)
    BY <1>1
       DEF Next, FenceNext, MemosNext, vars, candidates, Retain, Claim, ClaimUncertain, ReturnFailure,
           BeginPublication, DeadlineGuard, BeginWithdrawal, RemoveSession, ReconcileWithdrawal,
           AddSession, UpsertUserSetting, DeleteUserSettings, WriteUser, Restart, Tick
  <2>2. c = ref[w]
    BY <1>1, <2>1 DEF CommitPublication
  <2>3. Row(c) /\ c \in Candidate /\ captured[c].rev = revision[captured[c].user]
    BY <1>1, <2>1, <2>2 DEF CommitPublication, IInv, CallsOwnClaims, Busy, Row
  <2> QED
    BY <1>1, <2>3 DEF IInv, RevisionsGuard, Authorized
<1>2. IInv /\ [Next]_vars =>
        \A c \in publication' \ publication :
          ~ Frozen(captured[c].user) /\ captured[c].sess \notin Tombstoned(captured[c].user)
  BY <1>1
<1> QED
  BY <1>2, Invariant, PTL DEF Spec, FrozenNeverPublishes

\* No write, of the fence or of Memos, brings a withdrawn session back into the
\* table it has left (nonLiveTriggers, the tombstones).
THEOREM WithdrawnStaysAway == Spec => NoResurrection
<1>1. ASSUME TypeOK, [Next]_vars, NEW u \in User, NEW s \in Tombstoned(u),
             s \notin {t.id : t \in Tokens(u)}
      PROVE  s \notin {t.id : t \in Tokens(u)'}
  <2>1. ASSUME NEW v, NEW readable, NEW tokens, WriteTokens(v, readable, tokens)
        PROVE  s \notin {t.id : t \in Tokens(u)'}
    <3>1. CASE v = u
      <4>1. setting'[u] = [readable |-> readable, tokens |-> tokens]
        BY <1>1, <2>1, <3>1 DEF WriteTokens, TypeOK
      <4>2. \A t \in Tokens(u)' : t \in tokens
        BY <4>1 DEF Tokens
      <4> QED
        BY <1>1, <2>1, <3>1, <4>2 DEF WriteTokens, Admissible
    <3>2. CASE v # u
      <4>1. setting'[u] = setting[u]
        BY <1>1, <2>1, <3>2 DEF WriteTokens, TypeOK
      <4> QED
        BY <1>1, <4>1 DEF Tokens
    <3> QED
      BY <3>1, <3>2
  <2>2. ASSUME NEW v \in User, DeleteUserSettings(v)
        PROVE  s \notin {t.id : t \in Tokens(u)'}
    <3>1. setting'[u] = setting[u] \/ setting'[u] = Nil
      BY <1>1, <2>2 DEF DeleteUserSettings, TypeOK
    <3> QED
      BY <1>1, <3>1 DEF Tokens
  <2>3. CASE UNCHANGED setting
    BY <1>1, <2>3 DEF Tokens
  <2>4. \/ UNCHANGED setting
        \/ \E v \in User : DeleteUserSettings(v)
        \/ \E v, readable, tokens : WriteTokens(v, readable, tokens)
    BY <1>1
       DEF Next, FenceNext, MemosNext, vars, authority, Retain, Claim, ClaimUncertain, ReturnFailure,
           BeginPublication, DeadlineGuard, CommitPublication, BeginWithdrawal, RemoveSession,
           ReconcileWithdrawal, AddSession, UpsertUserSetting, WriteUser, Restart, Tick
  <2> QED
    BY <2>1, <2>2, <2>3, <2>4
<1>2. IInv /\ [Next]_vars =>
        \A u \in User : \A s \in Tombstoned(u) :
          s \notin {t.id : t \in Tokens(u)} => s \notin {t.id : t \in Tokens(u)'}
  BY <1>1 DEF IInv
<1> QED
  BY <1>2, Invariant, PTL DEF Spec, NoResurrection
=============================================================================
