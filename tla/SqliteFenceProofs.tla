-------------------------- MODULE SqliteFenceProofs --------------------------
(***************************************************************************)
(* Proofs about SqliteFence for every set of accounts, sessions,           *)
(* candidates, calls and hosts, and every bound.                           *)
(***************************************************************************)
EXTENDS SqliteFence, TLAPS

LEMMA NoOneDistinct ==
  /\ \A w \in Call : w # NoOne
  /\ \A f \in Fence : f # NoOne
  /\ \A c \in Candidate : c # NoOne
  /\ \A a \in Account : a # NoOne
BY ConstantsAssumption

LEMMA InvalidatedType ==
  ASSUME TypeOK, NEW S
  PROVE  /\ Invalidated(S) \in [Candidate -> RowState \cup {"absent"}]
         /\ \A c \in Candidate : Invalidated(S)[c] = "absent" <=> state[c] = "absent"
BY DEF TypeOK, Invalidated, RowState

LEMMA TypeInit == Init => TypeOK
<1> SUFFICES ASSUME Init PROVE TypeOK
  OBVIOUS
<1>1. account \in [Account -> AccountRow]
  BY DEF Init, AccountRow
<1>2. session \in [Session -> SessionRow]
  <2>1. ASSUME NEW r \in FreshSession PROVE r \in SessionRow
    <3>1. r = [acct |-> r.acct, rev |-> 1, active |-> TRUE, exp |-> r.exp]
      BY DEF FreshSession
    <3>2. r.acct \in Account /\ r.exp \in Nat
      BY ConstantsAssumption DEF FreshSession
    <3>3. [acct |-> r.acct, rev |-> 1, active |-> TRUE, exp |-> r.exp] \in SessionRow
      BY <3>2 DEF SessionRow
    <3> QED
      BY <3>1, <3>3, Zenon
  <2>2. NoSession \in SessionRow
    BY DEF SessionRow, NoSession
  <2> QED
    BY <2>1, <2>2 DEF Init
<1> QED
  BY <1>1, <1>2 DEF Init, TypeOK, RowState

LEMMA TypeStep == TypeOK /\ [Next]_vars => TypeOK'
<1> SUFFICES ASSUME TypeOK, [Next]_vars PROVE TypeOK'
  OBVIOUS
<1> USE DEF TypeOK, calls, tables
<1>1. ASSUME NEW f \in Fence, NEW a \in Account, NEW s \in Session, NEW c \in Candidate,
             Retain(f, a, s, c)
      PROVE  TypeOK'
  <2>1. captured'[c] \in CaptureRow
    BY <1>1 DEF Retain, CaptureRow, AccountRow, SessionRow
  <2>2. state' \in [Candidate -> RowState \cup {"absent"}]
    BY <1>1 DEF Retain, RowState
  <2>3. \A d \in Candidate : state'[d] # "absent" => captured'[d] \in CaptureRow
    BY <1>1, <2>1 DEF Retain
  <2>4. owner' \in [Candidate -> Fence \cup {NoOne}]
    BY <1>1 DEF Retain
  <2> QED
    BY <1>1, <2>2, <2>3, <2>4 DEF Retain
<1>2. ASSUME NEW w \in Call, NEW f \in Fence, NEW c \in Candidate, Claim(w, f, c)
      PROVE  TypeOK'
  BY <1>2 DEF Claim, Claimable, MarkAttempted, RowState
<1>3. ASSUME NEW w \in Call, NEW f \in Fence, NEW c \in Candidate, ClaimUncertain(w, f, c)
      PROVE  TypeOK'
  BY <1>3 DEF ClaimUncertain, Claimable, MarkAttempted, RowState
<1>4. ASSUME NEW w \in Call, BeginPublication(w)
      PROVE  TypeOK'
  BY <1>4 DEF BeginPublication
<1>5. ASSUME NEW w \in Call, AbandonPublication(w) \/ FailPublication(w)
      PROVE  TypeOK'
  BY <1>5 DEF AbandonPublication, FailPublication, ReturnFailure, Return
<1>6. ASSUME NEW w \in Call, DeadlineGuard(w)
      PROVE  TypeOK'
  BY <1>6 DEF DeadlineGuard
<1>7. ASSUME NEW w \in Call, CommitPublication(w) \/ CommitUncertain(w)
      PROVE  TypeOK'
  <2>1. pc[w] = "committing" /\ ref[w] \in Candidate /\ state[ref[w]] # "absent"
    BY <1>7 DEF CommitPublication, CommitUncertain
  <2>2. /\ state' \in [Candidate -> RowState \cup {"absent"}]
        /\ publication' \subseteq Candidate
        /\ \A c \in Candidate : state[c] = "absent" <=> state'[c] = "absent"
    BY <1>7, <2>1 DEF CommitPublication, CommitUncertain, ApplyPublication, RowState
  <2>3. reported' \in [Candidate -> SUBSET {"issued", "uncertain"}]
    BY <1>7, <2>1 DEF CommitPublication, CommitUncertain
  <2> QED
    BY <1>7, <2>1, <2>2, <2>3 DEF CommitPublication, CommitUncertain, Return
<1>8. ASSUME NEW s \in Session, SessionWithdrawal(s)
      PROVE  TypeOK'
  <2>1. session' \in [Session -> SessionRow]
    BY <1>8 DEF SessionWithdrawal, Deactivated, SessionRow
  <2> QED
    BY <1>8, <2>1, InvalidatedType DEF SessionWithdrawal
<1>9. ASSUME NEW s \in Session, BypassWithdrawal(s)
      PROVE  TypeOK'
  <2>1. session' \in [Session -> SessionRow]
    BY <1>9 DEF BypassWithdrawal, Deactivated, SessionRow
  <2> QED
    BY <1>9, <2>1 DEF BypassWithdrawal
<1>10. ASSUME NEW a \in Account, NEW active \in BOOLEAN, AccountChange(a, active)
       PROVE  TypeOK'
  <2>1. account' \in [Account -> AccountRow]
    BY <1>10 DEF AccountChange, AccountRow
  <2> QED
    BY <1>10, <2>1, InvalidatedType DEF AccountChange
<1>11. ASSUME NEW old \in Session, NEW new \in Session, SessionRotation(old, new)
       PROVE  TypeOK'
  <2>0. Deactivated(old) \in SessionRow /\ [session[old] EXCEPT !.rev = 1] \in SessionRow
    BY DEF Deactivated, SessionRow
  <2>1. session' \in [Session -> SessionRow]
    BY <1>11, <2>0 DEF SessionRotation
  <2> QED
    BY <1>11, <2>1, InvalidatedType DEF SessionRotation
<1>12. ASSUME NEW f \in Fence, Restart(f)
       PROVE  TypeOK'
  BY <1>12 DEF Restart
<1>13. ASSUME Tick
       PROVE  TypeOK'
  BY <1>13 DEF Tick
<1>14. CASE UNCHANGED vars
  BY <1>14 DEF vars
<1> QED
  BY <1>1, <1>2, <1>3, <1>4, <1>5, <1>6, <1>7, <1>8, <1>9, <1>10, <1>11, <1>12, <1>13, <1>14
     DEF Next, AttemptNext, WriterNext, Step

\* Every reachable state is well typed (fence.go, the schema of lines 38-45).
THEOREM TypeCorrect == Spec => []TypeOK
BY TypeInit, TypeStep, PTL DEF Spec
-----------------------------------------------------------------------------
LEMMA InvInit == Init => IInv
BY TypeInit, NoOneDistinct
   DEF Init, IInv, OnePublicationPerAccount, PublicationTracksState, CallsOwnTheirClaim,
       ClaimsExclusive, LockedAuthorityCurrent, Busy

\* The rows an invalidating writer touches keep their captured columns, and
\* it neither adds nor removes a publication.
LEMMA InvalidatedStates ==
  ASSUME TypeOK, NEW S
  PROVE  \A c \in Candidate :
           /\ Invalidated(S)[c] \in {"issued", "revocation_required"}
                <=> state[c] \in {"issued", "revocation_required"}
           /\ state[c] = "attempted" => Invalidated(S)[c] = "attempted"
           /\ Invalidated(S)[c] \in {"pending", "issued"} => c \notin S /\ Invalidated(S)[c] = state[c]
BY DEF TypeOK, Invalidated, RowState

\* While the lock is free no transaction is open, so a writer cannot disturb
\* what a publication transaction has read.
LEMMA WriterInv ==
  ASSUME IInv, TypeOK', writer = NoOne,
         UNCHANGED <<captured, publication, owner, calls, reported, now>>,
         \/ UNCHANGED state
         \/ \E S \in SUBSET Candidate : state' = Invalidated(S)
  PROVE  IInv'
<1>1. TypeOK /\ \A w \in Call : pc[w] \notin {"publishing", "committing"}
  BY NoOneDistinct DEF IInv, CallsOwnTheirClaim
<1>2. \A c \in Candidate :
        /\ state'[c] \in {"issued", "revocation_required"}
             <=> state[c] \in {"issued", "revocation_required"}
        /\ state[c] = "attempted" => state'[c] = "attempted"
  BY <1>1, InvalidatedStates
<1>3. OnePublicationPerAccount' /\ ClaimsExclusive'
  BY DEF IInv, OnePublicationPerAccount, ClaimsExclusive, Busy, calls
<1>4. PublicationTracksState'
  BY <1>2 DEF IInv, PublicationTracksState
<1>5. CallsOwnTheirClaim'
  BY <1>2 DEF IInv, CallsOwnTheirClaim, Busy, calls
<1>6. LockedAuthorityCurrent'
  BY <1>1 DEF LockedAuthorityCurrent, calls
<1> QED
  BY <1>3, <1>4, <1>5, <1>6 DEF IInv

\* Ending a call, with or without its transaction, keeps the invariant.
LEMMA ReturnInv ==
  ASSUME IInv, TypeOK', NEW w \in Call, ReturnFailure(w)
  PROVE  IInv'
<1> USE DEF ReturnFailure, Return, tables
<1>1. OnePublicationPerAccount' /\ PublicationTracksState'
  BY DEF IInv, OnePublicationPerAccount, PublicationTracksState
<1>2. \A x \in Call : Busy(x)' => x # w /\ Busy(x) /\ ref'[x] = ref[x] /\ pc'[x] = pc[x]
  BY DEF IInv, TypeOK, Busy
<1>3. CallsOwnTheirClaim'
  BY <1>2, NoOneDistinct DEF IInv, TypeOK, CallsOwnTheirClaim, Busy
<1>4. ClaimsExclusive'
  BY <1>2 DEF IInv, ClaimsExclusive
<1>5. LockedAuthorityCurrent'
  BY <1>2 DEF IInv, LockedAuthorityCurrent, AuthorityCurrent, Busy
<1> QED
  BY <1>1, <1>3, <1>4, <1>5 DEF IInv

\* Publishing the row of a call that is committing: no other call and no other
\* publication belongs to its account.
LEMMA CommitInv ==
  ASSUME IInv, TypeOK', NEW w \in Call, CommitPublication(w) \/ CommitUncertain(w)
  PROVE  IInv'
<1> DEFINE c == ref[w]
<1> USE DEF Return
<1>1. /\ pc[w] = "committing" /\ Busy(w) /\ c \in Candidate /\ state[c] = "attempted"
      /\ captured' = captured /\ owner' = owner /\ account' = account /\ session' = session
  BY DEF CommitPublication, CommitUncertain, IInv, TypeOK, CallsOwnTheirClaim, Busy
<1>2. /\ c \notin publication
      /\ \A d \in publication : captured[d].acct # captured[c].acct
  BY <1>1 DEF IInv, PublicationTracksState, ClaimsExclusive
<1>3. \/ state' = [state EXCEPT ![c] = "issued"] /\ publication' = publication \cup {c}
      \/ UNCHANGED <<state, publication>> /\ CommitUncertain(w)
  BY DEF CommitPublication, CommitUncertain, ApplyPublication
<1>4. \A x \in Call : Busy(x)' => /\ x # w /\ Busy(x) /\ ref'[x] = ref[x] /\ pc'[x] = pc[x]
                                 /\ captured[ref[x]].acct # captured[c].acct /\ ref[x] # c
  BY <1>1 DEF CommitPublication, CommitUncertain, IInv, TypeOK, Busy, ClaimsExclusive
<1>5. OnePublicationPerAccount'
  BY <1>1, <1>2, <1>3 DEF IInv, OnePublicationPerAccount
<1>6. PublicationTracksState'
  <2>1. CASE CommitPublication(w)
    BY <1>1, <1>3, <2>1
       DEF CommitPublication, ApplyPublication, IInv, TypeOK, PublicationTracksState
  <2>2. CASE CommitUncertain(w)
    BY <1>1, <1>3, <2>2 DEF CommitUncertain, IInv, TypeOK, PublicationTracksState
  <2> QED
    BY <2>1, <2>2
<1>7. CallsOwnTheirClaim'
  <2>1. writer = w
    BY <1>1 DEF IInv, CallsOwnTheirClaim
  <2>2. writer' = NoOne /\ pc' = [pc EXCEPT ![w] = "idle"]
    BY <2>1 DEF CommitPublication, CommitUncertain
  <2> QED
    BY <1>1, <1>3, <1>4, <2>1, <2>2, NoOneDistinct DEF IInv, TypeOK, CallsOwnTheirClaim, Busy
<1>8. ClaimsExclusive'
  BY <1>1, <1>3, <1>4 DEF IInv, ClaimsExclusive
<1>9. LockedAuthorityCurrent'
  BY <1>1, <1>4 DEF IInv, LockedAuthorityCurrent, AuthorityCurrent, Busy
<1> QED
  BY <1>5, <1>6, <1>7, <1>8, <1>9 DEF IInv

LEMMA InvStep == IInv /\ [Next]_vars => IInv'
<1> SUFFICES ASSUME IInv, [Next]_vars PROVE IInv'
  OBVIOUS
<1>0. TypeOK /\ TypeOK'
  BY TypeStep DEF IInv
<1>1. ASSUME NEW f \in Fence, NEW a \in Account, NEW s \in Session, NEW c \in Candidate,
             Retain(f, a, s, c)
      PROVE  IInv'
  <2> USE <1>1 DEF Retain, calls
  <2>1. c \notin publication /\ \A w \in Call : Busy(w) => ref[w] # c
    BY DEF IInv, PublicationTracksState, CallsOwnTheirClaim
  <2>2. \A d \in Candidate \ {c} : captured'[d] = captured[d] /\ state'[d] = state[d]
                                  /\ owner'[d] = owner[d]
    BY <1>0 DEF TypeOK
  <2>3. OnePublicationPerAccount'
    BY <1>0, <2>1, <2>2 DEF IInv, TypeOK, OnePublicationPerAccount
  <2>4. PublicationTracksState'
    BY <1>0, <2>1, <2>2 DEF IInv, TypeOK, PublicationTracksState
  <2>5. CallsOwnTheirClaim'
    BY <1>0, <2>1, <2>2 DEF IInv, TypeOK, CallsOwnTheirClaim, Busy
  <2>6. ClaimsExclusive'
    BY <1>0, <2>1, <2>2 DEF IInv, TypeOK, ClaimsExclusive, Busy
  <2>7. LockedAuthorityCurrent'
    BY <1>0, <2>1, <2>2 DEF IInv, TypeOK, LockedAuthorityCurrent, AuthorityCurrent, Busy
  <2> QED
    BY <1>0, <2>3, <2>4, <2>5, <2>6, <2>7 DEF IInv
<1>2. ASSUME NEW w \in Call, NEW f \in Fence, NEW c \in Candidate, Claim(w, f, c)
      PROVE  IInv'
  <2> USE <1>2 DEF Claim, MarkAttempted
  <2>1. state[c] = "pending" /\ c \notin publication
    BY DEF Claimable, IInv, PublicationTracksState
  <2>2. \A d \in Candidate : Settled(d) => captured[d].acct # captured[c].acct
    BY <2>1 DEF Claimable, RowsOf, Settled, Row
  <2>3. /\ \A d \in publication : captured[d].acct # captured[c].acct
        /\ \A x \in Call : Busy(x) => captured[ref[x]].acct # captured[c].acct /\ ref[x] # c
    BY <1>0, <2>1, <2>2
       DEF IInv, TypeOK, PublicationTracksState, CallsOwnTheirClaim, Settled, Row
  <2>4. OnePublicationPerAccount'
    BY DEF IInv, OnePublicationPerAccount
  <2>5. PublicationTracksState'
    BY <1>0, <2>1 DEF IInv, TypeOK, PublicationTracksState
  <2>6. /\ \A x \in Call \ {w} : pc'[x] = pc[x] /\ ref'[x] = ref[x]
        /\ pc'[w] = "claimed" /\ ref'[w] = c /\ pc[w] = "idle"
    BY <1>0 DEF TypeOK
  <2>7. CallsOwnTheirClaim'
    BY <1>0, <2>1, <2>3, <2>6 DEF IInv, TypeOK, CallsOwnTheirClaim, Busy
  <2>8. ClaimsExclusive'
    BY <1>0, <2>3, <2>6 DEF IInv, ClaimsExclusive, Busy
  <2>9. LockedAuthorityCurrent'
    BY <1>0, <2>6 DEF IInv, LockedAuthorityCurrent, AuthorityCurrent
  <2> QED
    BY <1>0, <2>4, <2>5, <2>7, <2>8, <2>9 DEF IInv
<1>3. ASSUME NEW w \in Call, NEW f \in Fence, NEW c \in Candidate, ClaimUncertain(w, f, c)
      PROVE  IInv'
  <2> USE <1>3 DEF ClaimUncertain, MarkAttempted, calls
  <2>1. state[c] = "pending" /\ c \notin publication
    BY DEF Claimable, IInv, PublicationTracksState
  <2>2. \A d \in Candidate : state'[d] = state[d] \/ (d = c /\ state'[c] = "attempted")
    <3>1. CASE MarkAttempted(c)
      BY <1>0, <3>1 DEF TypeOK
    <3>2. CASE UNCHANGED state
      BY <3>2
    <3> QED
      BY <3>1, <3>2
  <2>3. PublicationTracksState'
    BY <1>0, <2>1, <2>2 DEF IInv, TypeOK, PublicationTracksState
  <2>4. OnePublicationPerAccount' /\ ClaimsExclusive' /\ LockedAuthorityCurrent'
    BY DEF IInv, OnePublicationPerAccount, ClaimsExclusive, LockedAuthorityCurrent,
           AuthorityCurrent, Busy
  <2>5. CallsOwnTheirClaim'
    BY <1>0, <2>1, <2>2 DEF IInv, TypeOK, CallsOwnTheirClaim, Busy
  <2> QED
    BY <1>0, <2>3, <2>4, <2>5 DEF IInv
<1>4. ASSUME NEW w \in Call, BeginPublication(w)
      PROVE  IInv'
  <2> USE <1>4 DEF BeginPublication, tables
  <2>1. OnePublicationPerAccount' /\ PublicationTracksState' /\ ClaimsExclusive'
    BY <1>0 DEF IInv, TypeOK, OnePublicationPerAccount, PublicationTracksState,
                ClaimsExclusive, Busy
  <2>2. CallsOwnTheirClaim'
    BY <1>0, NoOneDistinct DEF IInv, TypeOK, CallsOwnTheirClaim, Busy
  <2>3. LockedAuthorityCurrent'
    BY <1>0 DEF IInv, TypeOK, LockedAuthorityCurrent, AuthorityCurrent, PublicationAllowed
  <2> QED
    BY <1>0, <2>1, <2>2, <2>3 DEF IInv
<1>5. ASSUME NEW w \in Call, AbandonPublication(w) \/ FailPublication(w)
      PROVE  IInv'
  BY <1>0, <1>5, ReturnInv DEF AbandonPublication, FailPublication
<1>6. ASSUME NEW w \in Call, DeadlineGuard(w)
      PROVE  IInv'
  <2> USE <1>6 DEF DeadlineGuard, tables
  <2>1. OnePublicationPerAccount' /\ PublicationTracksState' /\ ClaimsExclusive'
    BY <1>0 DEF IInv, TypeOK, OnePublicationPerAccount, PublicationTracksState,
                ClaimsExclusive, Busy
  <2>2. CallsOwnTheirClaim' /\ LockedAuthorityCurrent'
    BY <1>0 DEF IInv, TypeOK, CallsOwnTheirClaim, LockedAuthorityCurrent,
                AuthorityCurrent, Busy
  <2> QED
    BY <1>0, <2>1, <2>2 DEF IInv
<1>7. ASSUME NEW w \in Call, CommitPublication(w) \/ CommitUncertain(w)
      PROVE  IInv'
  BY <1>0, <1>7, CommitInv
<1>8. CASE WriterNext
  <2>1. /\ writer = NoOne
        /\ UNCHANGED <<captured, publication, owner, calls, reported, now>>
        /\ UNCHANGED state \/ \E S \in SUBSET Candidate : state' = Invalidated(S)
    BY <1>8 DEF WriterNext, SessionWithdrawal, BypassWithdrawal, AccountChange,
                SessionRotation, BoundTo, RowsOf
  <2> QED
    BY <1>0, <2>1, WriterInv
<1>9. ASSUME NEW f \in Fence, Restart(f)
      PROVE  IInv'
  <2> USE <1>9 DEF Restart, tables
  <2>1. OnePublicationPerAccount' /\ PublicationTracksState'
    BY DEF IInv, OnePublicationPerAccount, PublicationTracksState
  <2>2. \A w \in Call : Busy(w)' =>
          /\ Busy(w) /\ ~ Lost(f, w) /\ ref'[w] = ref[w] /\ pc'[w] = pc[w]
          /\ owner'[ref[w]] = owner[ref[w]]
    BY <1>0 DEF TypeOK, Busy, Lost, IInv, CallsOwnTheirClaim
  <2>3. ClaimsExclusive'
    BY <2>2 DEF IInv, ClaimsExclusive
  <2>4. LockedAuthorityCurrent'
    BY <2>2 DEF IInv, LockedAuthorityCurrent, AuthorityCurrent, Busy
  <2>5. CallsOwnTheirClaim'
    BY <1>0, <2>2, NoOneDistinct DEF IInv, TypeOK, CallsOwnTheirClaim, Busy, Lost
  <2> QED
    BY <1>0, <2>1, <2>3, <2>4, <2>5 DEF IInv
<1>10. CASE Tick \/ UNCHANGED vars
  BY <1>0, <1>10
     DEF Tick, vars, tables, calls, IInv, OnePublicationPerAccount, PublicationTracksState,
         CallsOwnTheirClaim, ClaimsExclusive, LockedAuthorityCurrent, AuthorityCurrent, Busy
<1> QED
  BY <1>1, <1>2, <1>3, <1>4, <1>5, <1>6, <1>7, <1>8, <1>9, <1>10
     DEF Next, AttemptNext, Step

\* The inductive invariant holds in every reachable state.
THEOREM Invariant == Spec => []IInv
BY InvInit, InvStep, PTL DEF Spec

\* No account is ever published for twice.
THEOREM SinglePublication == Spec => []OnePublicationPerAccount
<1>1. IInv => OnePublicationPerAccount
  BY DEF IInv
<1> QED
  BY Invariant, <1>1, PTL

\* The candidate and publication tables agree, and so does a reported success.
THEOREM TablesAgree == Spec => []PublicationTracksState
<1>1. IInv => PublicationTracksState
  BY DEF IInv
<1> QED
  BY Invariant, <1>1, PTL
-----------------------------------------------------------------------------
(***************************************************************************)
(* Authority at and after the publication.                                 *)
(***************************************************************************)

\* A publication commits only while the authority it captured is current,
\* with or without writers that bypass the fence.
THEOREM PublicationIsAuthorized == Spec => PublishesOnlyCurrent
<1>1. IInv /\ [Next]_vars => [\A c \in publication' \ publication : AuthorityCurrent(c)]_vars
  <2> SUFFICES ASSUME IInv, Next, NEW c \in publication', c \notin publication
               PROVE  AuthorityCurrent(c)
    OBVIOUS
  <2>1. PICK w \in Call : /\ pc[w] = "committing" /\ ref[w] = c
    BY DEF Next, AttemptNext, Step, WriterNext, Retain, Claim, ClaimUncertain, BeginPublication,
           AbandonPublication, DeadlineGuard, FailPublication, ReturnFailure, CommitPublication,
           CommitUncertain, ApplyPublication, SessionWithdrawal, BypassWithdrawal, AccountChange,
           SessionRotation, Restart, Tick, tables
  <2> QED
    BY <2>1 DEF IInv, LockedAuthorityCurrent
<1> QED
  BY Invariant, <1>1, PTL DEF Spec, PublishesOnlyCurrent

LEMMA NoStaleStep ==
  ASSUME ~ BypassWriters, IInv, NoStaleAuthority, [Next]_vars
  PROVE  NoStaleAuthority'
<1> USE DEF NoStaleAuthority
<1>0. TypeOK
  BY DEF IInv
<1>1. ASSUME NEW f \in Fence, NEW a \in Account, NEW s \in Session, NEW c \in Candidate,
             Retain(f, a, s, c)
      PROVE  NoStaleAuthority'
  <2> USE <1>1 DEF Retain
  <2>1. AuthorityCurrent(c)'
    BY <1>0 DEF TypeOK, AuthorityCurrent, SessionRow
  <2>2. \A d \in Candidate \ {c} : state'[d] = state[d] /\ captured'[d] = captured[d]
    BY <1>0 DEF TypeOK
  <2> QED
    BY <2>1, <2>2 DEF AuthorityCurrent
<1>2. ASSUME NEW w \in Call, NEW f \in Fence, NEW c \in Candidate,
             Claim(w, f, c) \/ ClaimUncertain(w, f, c)
      PROVE  NoStaleAuthority'
  <2>1. \A d \in Candidate : state'[d] \in {"pending", "issued"} => state'[d] = state[d]
    BY <1>0, <1>2 DEF TypeOK, Claim, ClaimUncertain, MarkAttempted
  <2> QED
    BY <1>2, <2>1 DEF Claim, ClaimUncertain, AuthorityCurrent
<1>3. ASSUME NEW w \in Call, CommitPublication(w) \/ CommitUncertain(w)
      PROVE  NoStaleAuthority'
  <2>1. AuthorityCurrent(ref[w]) /\ UNCHANGED <<account, session, captured>>
    BY <1>3 DEF IInv, LockedAuthorityCurrent, CommitPublication, CommitUncertain
  <2>2. \A d \in Candidate : d # ref[w] => state'[d] = state[d]
    BY <1>0, <1>3 DEF TypeOK, CommitPublication, CommitUncertain, ApplyPublication
  <2> QED
    BY <2>1, <2>2 DEF AuthorityCurrent
<1>4. ASSUME NEW s \in Session, SessionWithdrawal(s)
      PROVE  NoStaleAuthority'
  <2>1. \A c \in Candidate : state'[c] \in {"pending", "issued"} =>
           state'[c] = state[c] /\ captured[c] \in CaptureRow /\ captured[c].sess # s
    BY <1>0, <1>4, InvalidatedStates DEF TypeOK, SessionWithdrawal, BoundTo, Row
  <2> QED
    BY <1>0, <1>4, <2>1 DEF TypeOK, SessionWithdrawal, AuthorityCurrent, CaptureRow
<1>5. ASSUME NEW a \in Account, NEW active \in BOOLEAN, AccountChange(a, active)
      PROVE  NoStaleAuthority'
  <2>1. \A c \in Candidate : state'[c] \in {"pending", "issued"} =>
           state'[c] = state[c] /\ captured[c] \in CaptureRow /\ captured[c].acct # a
    BY <1>0, <1>5, InvalidatedStates DEF TypeOK, AccountChange, RowsOf, Row
  <2> QED
    BY <1>0, <1>5, <2>1 DEF TypeOK, AccountChange, AuthorityCurrent, CaptureRow
<1>6. ASSUME NEW old \in Session, NEW new \in Session, SessionRotation(old, new)
      PROVE  NoStaleAuthority'
  <2>1. \A c \in Candidate : state'[c] \in {"pending", "issued"} =>
           /\ state'[c] = state[c] /\ captured[c] \in CaptureRow /\ captured[c].sess # old
           /\ AuthorityCurrent(c)
    BY <1>0, <1>6, InvalidatedStates DEF TypeOK, SessionRotation, BoundTo, Row
  <2>2. \A c \in Candidate : state'[c] \in {"pending", "issued"} => captured[c].sess # new
    BY <1>6, <2>1, NoOneDistinct DEF SessionRotation, AuthorityCurrent, CaptureRow
  <2> QED
    BY <1>0, <1>6, <2>1, <2>2 DEF TypeOK, SessionRotation, AuthorityCurrent, CaptureRow
<1>7. ASSUME NEW w \in Call,
             BeginPublication(w) \/ AbandonPublication(w) \/ DeadlineGuard(w) \/ FailPublication(w)
      PROVE  NoStaleAuthority'
  BY <1>7 DEF BeginPublication, AbandonPublication, DeadlineGuard, FailPublication,
              ReturnFailure, tables, AuthorityCurrent
<1>8. ASSUME NEW f \in Fence, Restart(f)
      PROVE  NoStaleAuthority'
  BY <1>8 DEF Restart, tables, AuthorityCurrent
<1>9. CASE Tick \/ UNCHANGED vars
  BY <1>9 DEF Tick, vars, tables, AuthorityCurrent
<1> QED
  BY <1>1, <1>2, <1>3, <1>4, <1>5, <1>6, <1>7, <1>8, <1>9
     DEF Next, AttemptNext, WriterNext, Step, BypassWithdrawal

\* When every writer participates, a row that could still authorize anything
\* names current authority.
THEOREM AuthorityNeverStale ==
  ASSUME ~ BypassWriters
  PROVE  Spec => []NoStaleAuthority
<1>1. Init => NoStaleAuthority
  BY DEF Init, NoStaleAuthority
<1>2. IInv /\ NoStaleAuthority /\ [Next]_vars => NoStaleAuthority'
  BY NoStaleStep
<1> QED
  BY Invariant, <1>1, <1>2, PTL DEF Spec
-----------------------------------------------------------------------------
(***************************************************************************)
(* An account whose attempt ended stays closed.                            *)
(***************************************************************************)

\* How one call coming back looks from the accounts.
LEMMA ReturnFlights ==
  ASSUME IInv, NEW w \in Call, Return(w), UNCHANGED captured, NEW a \in Account
  PROVE  InFlight(a)' <=> \E x \in Call \ {w} : Busy(x) /\ captured[ref[x]].acct = a
BY DEF Return, InFlight, Busy, IInv, TypeOK

\* What every step leaves alone: captured columns of existing rows, and rows
\* never disappear.
LEMMA RowsStable ==
  ASSUME IInv, Next
  PROVE  \A c \in Candidate : Row(c) =>
           /\ Row(c)' /\ captured'[c] = captured[c]
           /\ Settled(c) => Settled(c)'
           /\ state'[c] \in {"issued", "revocation_required"} =>
                \/ state[c] \in {"issued", "revocation_required"}
                \/ \E w \in Call : Busy(w) /\ ref[w] = c
<1>0. TypeOK
  BY DEF IInv
<1> USE DEF Row, Settled
<1>1. ASSUME NEW f \in Fence, NEW a \in Account, NEW s \in Session, NEW c \in Candidate,
             Retain(f, a, s, c)
      PROVE  \A d \in Candidate \ {c} : state'[d] = state[d] /\ captured'[d] = captured[d]
  BY <1>0, <1>1 DEF Retain, TypeOK
<1>2. ASSUME NEW w \in Call, NEW f \in Fence, NEW c \in Candidate,
             Claim(w, f, c) \/ ClaimUncertain(w, f, c)
      PROVE  captured' = captured /\ \A d \in Candidate : state'[d] \in {state[d], "attempted"}
                                 /\ (state[d] # "pending" => state'[d] = state[d])
  BY <1>0, <1>2 DEF Claim, ClaimUncertain, Claimable, MarkAttempted, TypeOK
<1>3. ASSUME NEW w \in Call, CommitPublication(w) \/ CommitUncertain(w)
      PROVE  /\ captured' = captured /\ Busy(w)
             /\ state'[ref[w]] \in {"attempted", "issued"}
             /\ \A d \in Candidate \ {ref[w]} : state'[d] = state[d]
  BY <1>0, <1>3 DEF CommitPublication, CommitUncertain, ApplyPublication, IInv, TypeOK, Busy,
                    CallsOwnTheirClaim
<1>4. CASE WriterNext
  <2>1. captured' = captured
    BY <1>4 DEF WriterNext, SessionWithdrawal, BypassWithdrawal, AccountChange, SessionRotation
  <2>2. UNCHANGED state \/ \E S : state' = Invalidated(S)
    BY <1>4 DEF WriterNext, SessionWithdrawal, BypassWithdrawal, AccountChange, SessionRotation
  <2>3. ASSUME NEW S, state' = Invalidated(S)
        PROVE  \A c \in Candidate :
                 /\ state'[c] = "absent" <=> state[c] = "absent"
                 /\ state[c] # "pending" => state'[c] # "pending"
                 /\ state'[c] \in {"issued", "revocation_required"}
                      <=> state[c] \in {"issued", "revocation_required"}
    BY <1>0, <2>3 DEF Invalidated, TypeOK, RowState
  <2> QED
    BY <2>1, <2>2, <2>3
<1>5. CASE \/ \E w \in Call : BeginPublication(w) \/ AbandonPublication(w)
                             \/ DeadlineGuard(w) \/ FailPublication(w)
           \/ \E f \in Fence : Restart(f)
           \/ Tick
  BY <1>5 DEF BeginPublication, AbandonPublication, DeadlineGuard, FailPublication,
              ReturnFailure, Restart, Tick, tables
<1>6. ASSUME NEW f \in Fence, NEW a \in Account, NEW s \in Session, NEW c \in Candidate,
             Retain(f, a, s, c)
      PROVE  state[c] = "absent"
  BY <1>6 DEF Retain
<1>7. CASE \E f \in Fence, a \in Account, s \in Session, c \in Candidate : Retain(f, a, s, c)
  BY <1>1, <1>6, <1>7
<1>8. CASE \E w \in Call, f \in Fence, c \in Candidate : Claim(w, f, c) \/ ClaimUncertain(w, f, c)
  BY <1>2, <1>8
<1>9. CASE \E w \in Call : CommitPublication(w) \/ CommitUncertain(w)
  <2> PICK w \in Call : CommitPublication(w) \/ CommitUncertain(w)
    BY <1>9
  <2>1. state[ref[w]] = "attempted"
    BY <1>3 DEF IInv, CallsOwnTheirClaim
  <2> QED
    BY <1>3, <2>1
<1> QED
  BY <1>4, <1>5, <1>7, <1>8, <1>9 DEF Next, AttemptNext, Step

\* A call enters flight only through a claim that found its account unused.
LEMMA FlightsStep ==
  ASSUME IInv, Next, NEW a \in Account, InFlight(a)'
  PROVE  InFlight(a) \/ \E c \in RowsOf(a) : Claimable(c)
<1>0. TypeOK
  BY DEF IInv
<1>1. ASSUME NEW w \in Call, NEW f \in Fence, NEW c \in Candidate, Claim(w, f, c)
      PROVE  InFlight(a) \/ \E d \in RowsOf(a) : Claimable(d)
  BY <1>0, <1>1 DEF Claim, InFlight, Busy, RowsOf, Row, Claimable, TypeOK
<1>2. ASSUME NEW w \in Call, \/ AbandonPublication(w) \/ FailPublication(w)
                            \/ CommitPublication(w) \/ CommitUncertain(w)
      PROVE  InFlight(a)
  <2>1. Return(w) /\ UNCHANGED captured
    BY <1>2 DEF AbandonPublication, FailPublication, ReturnFailure, CommitPublication,
                CommitUncertain, tables
  <2> QED
    BY <2>1, ReturnFlights DEF InFlight
<1>3. ASSUME NEW w \in Call, BeginPublication(w) \/ DeadlineGuard(w)
      PROVE  InFlight(a)
  BY <1>0, <1>3 DEF BeginPublication, DeadlineGuard, tables, InFlight, Busy, TypeOK
<1>4. ASSUME NEW f \in Fence, Restart(f)
      PROVE  InFlight(a)
  BY <1>0, <1>4 DEF Restart, tables, InFlight, Busy, TypeOK
<1>5. CASE \E f \in Fence, b \in Account, s \in Session, c \in Candidate : Retain(f, b, s, c)
  <2>1. PICK c \in Candidate : /\ state[c] = "absent" /\ UNCHANGED calls
                               /\ \A d \in Candidate \ {c} : captured'[d] = captured[d]
    BY <1>0, <1>5 DEF Retain, TypeOK
  <2> QED
    BY <1>0, <2>1 DEF InFlight, Busy, calls, TypeOK, IInv, CallsOwnTheirClaim
<1>6. CASE \/ WriterNext \/ Tick
           \/ \E w \in Call, f \in Fence, c \in Candidate : ClaimUncertain(w, f, c)
  <2>1. UNCHANGED <<captured, calls>>
    BY <1>6 DEF WriterNext, SessionWithdrawal, BypassWithdrawal, AccountChange, SessionRotation,
                Tick, ClaimUncertain, tables
  <2> QED
    BY <2>1 DEF InFlight, Busy, calls
<1> QED
  BY <1>1, <1>2, <1>3, <1>4, <1>5, <1>6 DEF Next, AttemptNext, Step

\* Rows are added only for accounts that have none but pending ones, and a
\* publication is only added by a call in flight.
LEMMA GrowthStep ==
  ASSUME IInv, Next
  PROVE  /\ \A c \in Candidate : ~ Row(c) /\ Row(c)' =>
              \A d \in RowsOf(captured'[c].acct) : ~ Settled(d)
         /\ \A c \in publication' \ publication : \E w \in Call : Busy(w) /\ ref[w] = c
<1>0. TypeOK
  BY DEF IInv
<1>1. ASSUME NEW c \in Candidate, ~ Row(c), Row(c)'
      PROVE  \A d \in RowsOf(captured'[c].acct) : ~ Settled(d)
  <2>1. PICK f \in Fence, a \in Account, s \in Session, e \in Candidate : Retain(f, a, s, e)
    <3>1. ASSUME NEW w \in Call, NEW f \in Fence, NEW d \in Candidate,
                 Claim(w, f, d) \/ ClaimUncertain(w, f, d)
          PROVE  FALSE
      BY <1>0, <1>1, <3>1 DEF Claim, ClaimUncertain, Claimable, MarkAttempted, Row, TypeOK
    <3>2. ASSUME NEW w \in Call, CommitPublication(w) \/ CommitUncertain(w)
          PROVE  FALSE
      BY <1>0, <1>1, <3>2
         DEF CommitPublication, CommitUncertain, ApplyPublication, Row, TypeOK
    <3>3. CASE WriterNext
      BY <1>0, <1>1, <3>3, InvalidatedType
         DEF WriterNext, SessionWithdrawal, BypassWithdrawal, AccountChange, SessionRotation, Row
    <3> QED
      BY <1>1, <3>1, <3>2, <3>3
         DEF Next, AttemptNext, Step, BeginPublication, AbandonPublication, DeadlineGuard,
             FailPublication, ReturnFailure, Restart, Tick, tables, Row
  <2>2. c = e
    BY <1>0, <1>1, <2>1 DEF Retain, Row, TypeOK
  <2> QED
    BY <1>0, <2>1, <2>2 DEF Retain, TypeOK
<1>2. ASSUME NEW c \in publication' \ publication
      PROVE  \E w \in Call : Busy(w) /\ ref[w] = c
  BY <1>2 DEF Next, AttemptNext, Step, WriterNext, Retain, Claim, ClaimUncertain, BeginPublication,
           AbandonPublication, DeadlineGuard, FailPublication, ReturnFailure, CommitPublication,
           CommitUncertain, ApplyPublication, SessionWithdrawal, BypassWithdrawal, AccountChange,
           SessionRotation, Restart, Tick, tables, Busy
<1> QED
  BY <1>1, <1>2

\* Whatever ended the attempt of an account, nothing reopens it.
THEOREM ConsumedForGood == Spec => ConsumedAccountStaysClosed
<1> DEFINE Closed(a) ==
      /\ Consumed(a)'
      /\ RowsOf(a)' = RowsOf(a)
      /\ \A c \in RowsOf(a) : c \in publication' => c \in publication
<1>1. ASSUME IInv, Next, NEW a \in Account, Consumed(a)
      PROVE  Closed(a)
  <2>0. PICK e \in RowsOf(a) : Settled(e)
    BY <1>1 DEF Consumed
  <2>1. ~ InFlight(a)'
    BY <1>1, <2>0, FlightsStep DEF Consumed, Claimable, RowsOf, Settled
  <2>2. \A c \in RowsOf(a) : c \in RowsOf(a)' /\ (Settled(c) => Settled(c)')
    BY <1>1, RowsStable DEF RowsOf
  <2>3. ASSUME NEW c \in RowsOf(a)' PROVE c \in RowsOf(a)
    BY <1>1, <2>0, <2>3, GrowthStep, RowsStable DEF RowsOf
  <2>4. RowsOf(a)' = RowsOf(a)
    BY <2>2, <2>3 DEF RowsOf
  <2>5. \A c \in RowsOf(a) : c \in publication' => c \in publication
    BY <1>1, GrowthStep DEF Consumed, InFlight, RowsOf
  <2> QED
    BY <2>0, <2>1, <2>2, <2>4, <2>5 DEF Consumed
<1>2. IInv /\ [Next]_vars => [\A a \in Account : Consumed(a) => Closed(a)]_vars
  BY <1>1
<1> QED
  BY Invariant, <1>2, PTL DEF Spec, ConsumedAccountStaysClosed
-----------------------------------------------------------------------------
(***************************************************************************)
(* Deadlines.                                                              *)
(***************************************************************************)

\* A call gets beyond its last clock read only by that read, before the
\* deadline of what it publishes; a publication is added only beyond it.
LEMMA CommittingStep ==
  ASSUME IInv, [Next]_vars
  PROVE  /\ now' \in Nat /\ now' >= now
         /\ \A w \in Call : pc'[w] = "committing" =>
              /\ ref'[w] = ref[w]
              /\ pc[w] = "committing" \/ now < captured[ref[w]].exp
         /\ \A c \in publication' \ publication : \E w \in Call : pc[w] = "committing" /\ ref[w] = c
<1>0. TypeOK
  BY DEF IInv
<1>1. CASE Tick
  BY <1>0, <1>1 DEF Tick, TypeOK, tables, calls
<1>2. ASSUME NEW w \in Call, NEW f \in Fence, NEW c \in Candidate, Claim(w, f, c)
      PROVE  /\ now' = now /\ publication' = publication /\ pc'[w] = "claimed"
             /\ \A x \in Call \ {w} : pc'[x] = pc[x] /\ ref'[x] = ref[x]
  BY <1>0, <1>2 DEF Claim, TypeOK
<1>3. ASSUME NEW w \in Call, BeginPublication(w)
      PROVE  /\ now' = now /\ publication' = publication /\ pc'[w] = "publishing" /\ ref' = ref
             /\ \A x \in Call \ {w} : pc'[x] = pc[x]
  BY <1>0, <1>3 DEF BeginPublication, tables, TypeOK
<1>4. ASSUME NEW w \in Call, DeadlineGuard(w)
      PROVE  /\ now' = now /\ publication' = publication /\ ref' = ref
             /\ now < captured[ref[w]].exp
             /\ \A x \in Call \ {w} : pc'[x] = pc[x]
  BY <1>0, <1>4 DEF DeadlineGuard, tables, TypeOK
<1>5. ASSUME NEW w \in Call, AbandonPublication(w) \/ FailPublication(w)
      PROVE  /\ now' = now /\ publication' = publication /\ pc'[w] = "idle"
             /\ \A x \in Call \ {w} : pc'[x] = pc[x] /\ ref'[x] = ref[x]
  BY <1>0, <1>5 DEF AbandonPublication, FailPublication, ReturnFailure, Return, tables, TypeOK
<1>6. ASSUME NEW w \in Call, CommitPublication(w) \/ CommitUncertain(w)
      PROVE  /\ now' = now /\ publication' \subseteq publication \cup {ref[w]}
             /\ pc[w] = "committing" /\ pc'[w] = "idle"
             /\ \A x \in Call \ {w} : pc'[x] = pc[x] /\ ref'[x] = ref[x]
  BY <1>0, <1>6 DEF CommitPublication, CommitUncertain, ApplyPublication, Return, TypeOK
<1>7. ASSUME NEW f \in Fence, Restart(f)
      PROVE  /\ now' = now /\ publication' = publication
             /\ \A w \in Call : pc'[w] = "idle" \/ (pc'[w] = pc[w] /\ ref'[w] = ref[w])
  BY <1>0, <1>7 DEF Restart, tables, TypeOK
<1>8. CASE \/ UNCHANGED vars \/ WriterNext
           \/ \E f \in Fence, a \in Account, s \in Session, c \in Candidate : Retain(f, a, s, c)
           \/ \E w \in Call, f \in Fence, c \in Candidate : ClaimUncertain(w, f, c)
  <2>1. now' = now /\ publication' = publication /\ pc' = pc /\ ref' = ref
    BY <1>8 DEF vars, calls, WriterNext, SessionWithdrawal, BypassWithdrawal, AccountChange,
                SessionRotation, Retain, ClaimUncertain
  <2> QED BY <1>0, <2>1 DEF TypeOK
<1>9. now \in Nat
  BY <1>0 DEF TypeOK
<1>10. CASE \E w \in Call : \/ \E f \in Fence, c \in Candidate : Claim(w, f, c)
                            \/ BeginPublication(w) \/ AbandonPublication(w) \/ FailPublication(w)
  BY <1>2, <1>3, <1>5, <1>9, <1>10
<1>11. CASE \E w \in Call : DeadlineGuard(w)
  BY <1>4, <1>9, <1>11
<1>12. CASE \E w \in Call : CommitPublication(w) \/ CommitUncertain(w)
  BY <1>6, <1>9, <1>12
<1>13. CASE \E f \in Fence : Restart(f)
  BY <1>7, <1>9, <1>13
<1> QED
  BY <1>1, <1>8, <1>10, <1>11, <1>12, <1>13 DEF Next, AttemptNext, Step

\* Once the deadline of a candidate has passed with no call beyond its last
\* clock read, nothing publishes it, however long the hooks of a publication
\* that is open take.
THEOREM DeadlineHolds == Spec => ExpiredNeverPublishes
<1> DEFINE Kept(c) == PastDeadline(c) => PastDeadline(c)' /\ (c \in publication' => c \in publication)
<1>1. ASSUME IInv, Next, NEW c \in Candidate, PastDeadline(c)
      PROVE  PastDeadline(c)' /\ (c \in publication' => c \in publication)
  <2>1. Row(c)' /\ captured'[c] = captured[c]
    BY <1>1, RowsStable DEF PastDeadline
  <2>2. captured[c].exp \in Nat /\ now \in Nat /\ now >= captured[c].exp
    BY <1>1 DEF PastDeadline, IInv, TypeOK, Row, CaptureRow
  <2>3. now' >= captured'[c].exp
    BY <1>1, <2>1, <2>2, CommittingStep
  <2>4. ASSUME NEW w \in Call, ref'[w] = c PROVE pc'[w] # "committing"
    BY <1>1, <2>2, <2>4, CommittingStep DEF PastDeadline
  <2>5. c \in publication' => c \in publication
    BY <1>1, CommittingStep DEF PastDeadline
  <2> QED BY <2>1, <2>3, <2>4, <2>5 DEF PastDeadline
<1>2. IInv /\ [Next]_vars => [\A c \in Candidate : Kept(c)]_vars
  BY <1>1
<1> QED
  BY Invariant, <1>2, PTL DEF Spec, ExpiredNeverPublishes
-----------------------------------------------------------------------------
(***************************************************************************)
(* SqliteFence implements SingleIssuance.                                  *)
(***************************************************************************)
stageBar == [a \in Account |-> StageOf(a)]

\* Rows of a session belong to its account.
RowsMatchSession ==
  \A c \in Candidate : Row(c) => session[captured[c].sess].acct = captured[c].acct

LEMMA RowsMatch == Spec => []RowsMatchSession
<1>1. Init => RowsMatchSession
  BY DEF Init, RowsMatchSession, Row
<1>2. ASSUME IInv, RowsMatchSession, Next PROVE RowsMatchSession'
  <2>0. TypeOK
    BY <1>2 DEF IInv
  <2>1. \A s \in Session : session[s].acct # NoOne => session'[s].acct = session[s].acct
    <3>1. CASE WriterNext
      BY <2>0, <3>1 DEF WriterNext, SessionWithdrawal, BypassWithdrawal, AccountChange,
                        SessionRotation, Deactivated, TypeOK, SessionRow
    <3> QED
      BY <1>2, <3>1
         DEF Next, AttemptNext, Step, Retain, Claim, ClaimUncertain, BeginPublication,
             AbandonPublication, DeadlineGuard, FailPublication, ReturnFailure, CommitPublication,
             CommitUncertain, Restart, Tick, tables
  <2>2. \A c \in Candidate : Row(c) =>
          session'[captured'[c].sess].acct = captured'[c].acct
    BY <1>2, <2>0, <2>1, RowsStable, NoOneDistinct DEF RowsMatchSession, TypeOK, Row, CaptureRow
  <2>3. ASSUME NEW c \in Candidate, ~ Row(c), Row(c)'
        PROVE  session'[captured'[c].sess].acct = captured'[c].acct
    <3>1. CASE \E f \in Fence, a \in Account, s \in Session, d \in Candidate : Retain(f, a, s, d)
      BY <2>0, <2>3, <3>1 DEF Retain, Row, TypeOK
    <3>2. CASE \E w \in Call, f \in Fence, d \in Candidate : Claim(w, f, d) \/ ClaimUncertain(w, f, d)
      BY <2>0, <2>3, <3>2 DEF Claim, ClaimUncertain, Claimable, MarkAttempted, Row, TypeOK
    <3>3. CASE \E w \in Call : CommitPublication(w) \/ CommitUncertain(w)
      BY <2>0, <2>3, <3>3
         DEF CommitPublication, CommitUncertain, ApplyPublication, Row, TypeOK
    <3>4. CASE WriterNext
      BY <2>0, <2>3, <3>4, InvalidatedType
         DEF WriterNext, SessionWithdrawal, BypassWithdrawal, AccountChange, SessionRotation, Row
    <3> QED
      BY <1>2, <2>3, <3>1, <3>2, <3>3, <3>4
         DEF Next, AttemptNext, Step, BeginPublication, AbandonPublication, DeadlineGuard,
             FailPublication, ReturnFailure, Restart, Tick, tables, Row
  <2> QED
    BY <2>2, <2>3 DEF RowsMatchSession
<1>3. IInv /\ RowsMatchSession /\ [Next]_vars => RowsMatchSession'
  BY <1>2 DEF vars, RowsMatchSession, Row
<1> QED
  BY Invariant, <1>1, <1>3, PTL DEF Spec

Has(a, S) == \E c \in RowsOf(a) : state[c] \in S
Used == {"attempted", "issued", "revocation_required"}

StageKind(a) ==
  IF Has(a, {"issued"}) THEN "issued"
  ELSE IF Has(a, {"revocation_required"}) THEN "revoking"
  ELSE IF InFlight(a) THEN "claimed"
  ELSE IF Has(a, Used) THEN "spent" ELSE "open"

StagesByKind == \A a \in Account : StageOf(a) = StageKind(a)

LEMMA StageByKind == TypeOK => StagesByKind
BY DEF TypeOK, StageOf, StageKind, StagesByKind, Has, Settled, Row, RowsOf, RowState, Used

LEMMA StageByKindNext == TypeOK' => StagesByKind'
BY StageByKind, PTL

LEMMA StageSame ==
  ASSUME TypeOK, TypeOK', NEW a \in Account,
         InFlight(a)' <=> InFlight(a),
         Has(a, {"issued"})' <=> Has(a, {"issued"}),
         Has(a, {"revocation_required"})' <=> Has(a, {"revocation_required"}),
         Has(a, Used)' <=> Has(a, Used)
  PROVE  StageOf(a)' = StageOf(a)
BY StageByKind, StageByKindNext DEF StagesByKind, StageKind

\* An account in flight has been claimed and not published.
LEMMA FlightStage ==
  ASSUME IInv, NEW w \in Call, Busy(w), NEW a \in Account, captured[ref[w]].acct = a
  PROVE  StageOf(a) = "claimed" /\ Has(a, Used)
<1>1. InFlight(a) /\ ref[w] \in RowsOf(a) /\ state[ref[w]] = "attempted"
  BY DEF IInv, TypeOK, CallsOwnTheirClaim, InFlight, RowsOf, Row, Busy
<1>2. \A c \in RowsOf(a) : state[c] \notin {"issued", "revocation_required"}
  BY DEF IInv, PublicationTracksState, ClaimsExclusive, RowsOf
<1> QED
  BY <1>1, <1>2 DEF StageOf, Has, Used

\* A call that comes back without publishing spends its account.
LEMMA ReturnRefines ==
  ASSUME IInv, IInv', NEW w \in Call, Busy(w), Return(w), UNCHANGED <<state, captured>>
  PROVE  \E S \in SUBSET Account : Abs!Spend(S)
<1>a. PICK a \in Account : captured[ref[w]].acct = a
  BY DEF IInv, TypeOK, Busy, CaptureRow
<1>0. TypeOK /\ TypeOK' /\ a = captured[ref[w]].acct
  BY <1>a DEF IInv
<1>1. StageOf(a) = "claimed" /\ Has(a, Used)
  BY <1>0, FlightStage
<1>2. \A b \in Account : \A S : Has(b, S)' <=> Has(b, S)
  BY DEF Has, RowsOf, Row
<1>3. ~ InFlight(a)'
  <2>1. captured' = captured
    OBVIOUS
  <2>2. \A x \in Call \ {w} : Busy(x) => captured[ref[x]].acct # a
    BY <1>0 DEF IInv, ClaimsExclusive
  <2> QED
    BY <1>0, <2>1, <2>2, ReturnFlights
<1>4. \A b \in Account \ {a} : InFlight(b)' <=> InFlight(b)
  BY <1>0, ReturnFlights DEF InFlight
<1>5. StageOf(a)' = "spent"
  <2>1. ~ Has(a, {"issued"}) /\ ~ Has(a, {"revocation_required"})
    BY <1>0, <1>1, StageByKind DEF StagesByKind, StageKind
  <2> QED
    BY <1>0, <1>1, <1>2, <1>3, <2>1, StageByKindNext DEF StagesByKind, StageKind
<1>6. \A b \in Account \ {a} : StageOf(b)' = StageOf(b)
  BY <1>0, <1>2, <1>4, StageSame
<1>7. Abs!Spend({a})
  BY <1>0, <1>1, <1>5, <1>6 DEF Abs!Spend
<1> QED
  BY <1>0, <1>7

\* Marking a claimable row uses an open account, and only that one.
LEMMA MarkRefines ==
  ASSUME IInv, TypeOK', NEW c \in Candidate, NEW a \in Account, captured[c].acct = a,
         Claimable(c), MarkAttempted(c), UNCHANGED captured
  PROVE  /\ StageOf(a) = "open" /\ ~ InFlight(a)
         /\ ~ Has(a, {"issued"})' /\ ~ Has(a, {"revocation_required"})' /\ Has(a, Used)'
         /\ \A b \in Account \ {a} : \A S : Has(b, S)' <=> Has(b, S)
<1>0. TypeOK
  BY DEF IInv
<1>1. /\ c \in RowsOf(a) /\ \A d \in RowsOf(a) : ~ Settled(d)
      /\ RowsOf(a)' = RowsOf(a) /\ state'[c] = "attempted"
      /\ \A d \in Candidate \ {c} : state'[d] = state[d]
  BY <1>0 DEF Claimable, MarkAttempted, RowsOf, Row, Settled, TypeOK
<1>2. ~ InFlight(a)
  BY <1>0, <1>1 DEF InFlight, IInv, CallsOwnTheirClaim, TypeOK, RowsOf, Row, Settled
<1>3. StageOf(a) = "open"
  BY <1>1, <1>2 DEF StageOf, Settled, Row, RowsOf
<1>4. ~ Has(a, {"issued"})' /\ ~ Has(a, {"revocation_required"})' /\ Has(a, Used)'
  BY <1>1 DEF Has, Settled, Row, RowsOf, Used
<1>5. \A b \in Account \ {a} : \A S : Has(b, S)' <=> Has(b, S)
  BY <1>0, <1>1 DEF Has, RowsOf, Row, TypeOK
<1> QED
  BY <1>2, <1>3, <1>4, <1>5

\* Invalidating rows of one account uses it up, flags its publication, or
\* changes nothing that its stage depends on.
LEMMA InvalidateRefines ==
  ASSUME IInv, IInv', NEW a \in Account, NEW S \in SUBSET RowsOf(a),
         state' = Invalidated(S), UNCHANGED <<captured, calls>>
  PROVE  Abs!SINext \/ UNCHANGED stageBar
<1>0. TypeOK /\ TypeOK'
  BY DEF IInv
<1>1. /\ \A b \in Account : InFlight(b)' <=> InFlight(b)
      /\ \A b \in Account : RowsOf(b)' = RowsOf(b)
  BY <1>0, InvalidatedType DEF InFlight, Busy, calls, RowsOf, Row
<1>2. \A c \in RowsOf(a) :
        /\ state'[c] = "issued" <=> state[c] = "issued" /\ c \notin S
        /\ state'[c] = "revocation_required"
             <=> \/ state[c] = "revocation_required"
                 \/ state[c] = "issued" /\ c \in S
        /\ state'[c] \in Used <=> (state[c] \in Used \/ c \in S)
  BY <1>0 DEF Invalidated, RowsOf, Row, TypeOK, RowState, Used
<1>3. RowsOf(a)' = RowsOf(a) /\ S \subseteq RowsOf(a)
  BY <1>1
<1>4. \A b \in Account \ {a} : StageOf(b)' = StageOf(b)
  <2>1. \A b \in Account \ {a} : \A T : Has(b, T)' <=> Has(b, T)
    BY <1>1 DEF Has, RowsOf, Invalidated
  <2> QED
    BY <1>0, <1>1, <2>1, StageSame
<1>5. CASE Has(a, {"issued"})
  <2>1. PICK c \in RowsOf(a) : state[c] = "issued"
    BY <1>5 DEF Has
  <2>2. \A d \in RowsOf(a) \ {c} : state[d] \notin {"issued", "revocation_required"}
    BY <2>1 DEF IInv, OnePublicationPerAccount, PublicationTracksState, RowsOf
  <2>3. StageOf(a) = "issued"
    BY <2>1 DEF StageOf
  <2>4. CASE c \in S
    <3>1. StageOf(a)' = "revoking"
      BY <1>1, <1>2, <1>3, <2>1, <2>2, <2>4 DEF StageOf
    <3> QED
      BY <1>4, <2>3, <3>1 DEF Abs!SINext, Abs!FlagRevocation, Abs!Move
  <2>5. CASE c \notin S
    <3>1. StageOf(a)' = "issued"
      BY <1>1, <1>2, <2>1, <2>5 DEF StageOf
    <3> QED
      BY <1>4, <2>3, <3>1 DEF stageBar
  <2> QED
    BY <2>4, <2>5
<1>6. CASE ~ Has(a, {"issued"}) /\ (Has(a, Used) \/ InFlight(a) \/ S = {})
  <2>1. ~ Has(a, {"issued"})'
    BY <1>1, <1>2, <1>3, <1>6 DEF Has
  <2>2. Has(a, {"revocation_required"})' <=> Has(a, {"revocation_required"})
    BY <1>1, <1>2, <1>3, <1>6 DEF Has
  <2>3. Has(a, Used) => Has(a, Used)'
    BY <1>1, <1>2, <1>3 DEF Has, Used
  <2>4. S = {} => (Has(a, Used)' <=> Has(a, Used))
    BY <1>1, <1>2 DEF Has, RowsOf
  <2>5. InFlight(a) => Has(a, Used)
    BY FlightStage DEF InFlight
  <2>6. StageOf(a)' = StageOf(a)
    BY <1>0, <1>1, <1>6, <2>1, <2>2, <2>3, <2>4, <2>5, StageSame
  <2> QED
    BY <1>4, <2>6 DEF stageBar
<1>7. CASE ~ Has(a, Used) /\ ~ InFlight(a) /\ S # {}
  <2>1. ~ Has(a, {"issued"}) /\ ~ Has(a, {"revocation_required"})
    BY <1>7 DEF Has, Used
  <2>2. StageOf(a) = "open"
    BY <1>0, <1>7, <2>1, StageByKind DEF StagesByKind, StageKind
  <2>3. /\ Has(a, Used)' /\ ~ Has(a, {"issued"})' /\ ~ Has(a, {"revocation_required"})'
    BY <1>1, <1>2, <1>3, <1>7 DEF Has, Used
  <2>4. StageOf(a)' = "spent"
    BY <1>0, <1>1, <1>7, <2>3, StageByKindNext DEF StagesByKind, StageKind
  <2>5. Abs!Spend({a})
    BY <1>4, <2>2, <2>4 DEF Abs!Spend
  <2> QED
    BY <2>5 DEF Abs!SINext
<1> QED
  BY <1>5, <1>6, <1>7

\* Every step of the fence is a step of SingleIssuance or leaves all stages.
LEMMA RefinementStep ==
  ASSUME IInv, IInv', RowsMatchSession, Next
  PROVE  Abs!SINext \/ UNCHANGED stageBar
<1> DEFINE Same(b) == StageOf(b)' = StageOf(b)
<1>0. TypeOK /\ TypeOK'
  BY DEF IInv
<1>a. (\A b \in Account : Same(b)) => UNCHANGED stageBar
  BY DEF stageBar
<1>1. ASSUME NEW f \in Fence, NEW a \in Account, NEW s \in Session, NEW c \in Candidate,
             Retain(f, a, s, c), NEW b \in Account
      PROVE  Same(b)
  <2> USE <1>1 DEF Retain, calls
  <2>1. /\ state[c] = "absent" /\ state'[c] = "pending"
        /\ \A d \in Candidate \ {c} : state'[d] = state[d] /\ captured'[d] = captured[d]
        /\ \A w \in Call : Busy(w) => ref[w] # c
    BY <1>0 DEF TypeOK, IInv, CallsOwnTheirClaim
  <2>2. \A S \in SUBSET Used : Has(b, S)' <=> Has(b, S)
    BY <1>0, <2>1 DEF Has, RowsOf, Row, TypeOK, Used
  <2>3. InFlight(b)' <=> InFlight(b)
    BY <1>0, <2>1 DEF InFlight, Busy, TypeOK
  <2> QED
    BY <1>0, <2>2, <2>3, StageSame DEF Used
<1>2. ASSUME NEW w \in Call, NEW f \in Fence, NEW c \in Candidate, Claim(w, f, c)
      PROVE  Abs!SINext
  <2>1. PICK a \in Account : captured[c].acct = a
    BY <1>0, <1>2 DEF Claim, Claimable, TypeOK, CaptureRow
  <2>2. /\ StageOf(a) = "open" /\ ~ InFlight(a)
        /\ ~ Has(a, {"issued"})' /\ ~ Has(a, {"revocation_required"})'
        /\ \A b \in Account \ {a} : \A S : Has(b, S)' <=> Has(b, S)
    BY <1>0, <1>2, <2>1, MarkRefines DEF Claim
  <2>3. InFlight(a)' /\ \A b \in Account \ {a} : InFlight(b)' <=> InFlight(b)
    BY <1>0, <1>2, <2>1 DEF Claim, InFlight, Busy, TypeOK
  <2>4. StageOf(a)' = "claimed"
    BY <1>0, <2>2, <2>3, StageByKindNext DEF StagesByKind, StageKind
  <2>5. \A b \in Account \ {a} : Same(b)
    BY <1>0, <2>2, <2>3, StageSame
  <2>6. Abs!ClaimAccount(a)
    BY <2>2, <2>4, <2>5 DEF Abs!ClaimAccount, Abs!Move
  <2> QED
    BY <2>6 DEF Abs!SINext
<1>3. ASSUME NEW w \in Call, NEW f \in Fence, NEW c \in Candidate, ClaimUncertain(w, f, c)
      PROVE  Abs!SINext \/ UNCHANGED stageBar
  <2>1. UNCHANGED <<captured, calls>> /\ Claimable(c)
    BY <1>3 DEF ClaimUncertain
  <2>2. PICK a \in Account : captured[c].acct = a
    BY <1>0, <2>1 DEF Claimable, TypeOK, CaptureRow
  <2>3. \A b \in Account : InFlight(b)' <=> InFlight(b)
    BY <2>1 DEF InFlight, Busy, calls
  <2>4. CASE MarkAttempted(c)
    <3>1. /\ StageOf(a) = "open" /\ ~ InFlight(a)
          /\ ~ Has(a, {"issued"})' /\ ~ Has(a, {"revocation_required"})' /\ Has(a, Used)'
          /\ \A b \in Account \ {a} : \A S : Has(b, S)' <=> Has(b, S)
      BY <1>0, <2>1, <2>2, <2>4, MarkRefines
    <3>2. StageOf(a)' = "spent"
      BY <1>0, <2>3, <3>1, StageByKindNext DEF StagesByKind, StageKind
    <3>3. \A b \in Account \ {a} : Same(b)
      BY <1>0, <2>3, <3>1, StageSame
    <3>4. Abs!Spend({a})
      BY <3>1, <3>2, <3>3 DEF Abs!Spend
    <3> QED
      BY <3>4 DEF Abs!SINext
  <2>5. CASE UNCHANGED state
    <3>1. \A b \in Account : Same(b)
      BY <2>1, <2>3, <2>5 DEF StageOf, RowsOf, Row, Settled
    <3> QED
      BY <1>a, <3>1
  <2> QED
    BY <1>3, <2>4, <2>5 DEF ClaimUncertain
<1>4. CASE Tick \/ \E w \in Call : BeginPublication(w) \/ DeadlineGuard(w)
  <2>1. /\ UNCHANGED <<state, captured, ref>>
        /\ \A w \in Call : Busy(w)' <=> Busy(w)
    BY <1>0, <1>4 DEF Tick, BeginPublication, DeadlineGuard, tables, calls, Busy, TypeOK
  <2>2. \A b \in Account : Same(b)
    BY <2>1 DEF StageOf, RowsOf, Row, Settled, InFlight
  <2> QED
    BY <1>a, <2>2
<1>5. ASSUME NEW w \in Call, AbandonPublication(w) \/ FailPublication(w)
      PROVE  Abs!SINext
  <2>1. Busy(w) /\ Return(w) /\ UNCHANGED <<state, captured>>
    BY <1>5 DEF AbandonPublication, FailPublication, ReturnFailure, tables, Busy
  <2> QED
    BY <2>1, ReturnRefines DEF Abs!SINext
<1>6. ASSUME NEW w \in Call, CommitPublication(w) \/ CommitUncertain(w)
      PROVE  Abs!SINext
  <2>1. Busy(w) /\ Return(w) /\ captured' = captured
    BY <1>6 DEF CommitPublication, CommitUncertain, Busy
  <2>2. CASE UNCHANGED state
    BY <2>1, <2>2, ReturnRefines DEF Abs!SINext
  <2>3. CASE state' = [state EXCEPT ![ref[w]] = "issued"]
    <3>1. PICK a \in Account : captured[ref[w]].acct = a
      BY <1>0, <2>1 DEF TypeOK, Busy, CaptureRow
    <3>2. ref[w] \in RowsOf(a)' /\ state'[ref[w]] = "issued" /\ state[ref[w]] # "absent"
      BY <1>0, <2>1, <2>3, <3>1 DEF TypeOK, Busy, RowsOf, Row
    <3>3. StageOf(a)' = "issued" /\ StageOf(a) = "claimed"
      BY <2>1, <3>1, <3>2, FlightStage DEF StageOf
    <3>4. \A b \in Account \ {a} : Same(b)
      <4>1. \A b \in Account \ {a} : InFlight(b)' <=> InFlight(b)
        BY <2>1, <3>1, ReturnFlights DEF InFlight
      <4>2. \A b \in Account \ {a} : \A S : Has(b, S)' <=> Has(b, S)
        BY <1>0, <2>1, <2>3, <3>1, <3>2 DEF Has, RowsOf, Row, TypeOK
      <4> QED
        BY <1>0, <4>1, <4>2, StageSame
    <3>5. Abs!Publish(a)
      BY <3>3, <3>4 DEF Abs!Publish, Abs!Move
    <3> QED
      BY <3>5 DEF Abs!SINext
  <2> QED
    BY <1>6, <2>2, <2>3 DEF CommitPublication, CommitUncertain, ApplyPublication
<1>7. CASE WriterNext
  <2>1. ASSUME NEW s \in Session, UNCHANGED <<captured, calls>>, session[s].acct # NoOne,
               state' = Invalidated(BoundTo(s))
        PROVE  Abs!SINext \/ UNCHANGED stageBar
    <3>1. PICK a \in Account : session[s].acct = a
      BY <1>0, <2>1 DEF TypeOK, SessionRow
    <3>2. BoundTo(s) \in SUBSET RowsOf(a)
      BY <3>1 DEF BoundTo, RowsOf, RowsMatchSession
    <3> QED
      BY <2>1, <3>2, InvalidateRefines
  <2>2. ASSUME NEW a \in Account, UNCHANGED <<captured, calls>>, state' = Invalidated(RowsOf(a))
        PROVE  Abs!SINext \/ UNCHANGED stageBar
    BY <2>2, InvalidateRefines
  <2>3. ASSUME UNCHANGED <<state, captured, calls>>
        PROVE  UNCHANGED stageBar
    <3>1. \A b \in Account : Same(b)
      BY <2>3 DEF StageOf, RowsOf, Row, Settled, InFlight, Busy, calls
    <3> QED
      BY <1>a, <3>1
  <2> QED
    BY <1>7, <2>1, <2>2, <2>3
       DEF WriterNext, SessionWithdrawal, BypassWithdrawal, AccountChange, SessionRotation
<1>8. ASSUME NEW f \in Fence, Restart(f)
      PROVE  Abs!SINext
  <2> DEFINE L == {a \in Account : \E w \in Call : Lost(f, w) /\ captured[ref[w]].acct = a}
  <2>0. PICK S \in SUBSET Account : S = L
    OBVIOUS
  <2>1. state' = state /\ captured' = captured
    BY <1>8 DEF Restart, tables
  <2>2. \A w \in Call : /\ Lost(f, w) => pc'[w] = "idle"
                        /\ ~ Lost(f, w) => ref'[w] = ref[w] /\ pc'[w] = pc[w]
    BY <1>0, <1>8 DEF Restart, TypeOK
  <2>3. \A b \in Account : \A T : Has(b, T)' <=> Has(b, T)
    BY <2>1 DEF Has, RowsOf, Row
  <2>4. ASSUME NEW a \in S PROVE StageOf(a) = "claimed" /\ StageOf(a)' = "spent"
    <3>1. PICK w \in Call : Lost(f, w) /\ captured[ref[w]].acct = a
      BY <2>0, <2>4
    <3>2. StageOf(a) = "claimed" /\ Has(a, Used)
      BY <3>1, FlightStage DEF Lost
    <3>a. \A x \in Call \ {w} : Busy(x) => captured[ref[x]].acct # a
      BY <3>1 DEF IInv, ClaimsExclusive, Lost
    <3>3. ~ InFlight(a)'
      <4> SUFFICES ASSUME NEW x \in Call, pc'[x] # "idle", captured'[ref'[x]].acct = a
                   PROVE  FALSE
        BY DEF InFlight, Busy
      <4>1. ~ Lost(f, x) /\ ref'[x] = ref[x] /\ pc[x] # "idle" /\ x # w
        BY <2>2, <3>1
      <4> QED
        BY <2>1, <3>a, <4>1 DEF Busy
    <3>4. ~ Has(a, {"issued"}) /\ ~ Has(a, {"revocation_required"})
      BY <1>0, <3>2, StageByKind DEF StagesByKind, StageKind
    <3> QED
      BY <1>0, <2>3, <3>2, <3>3, <3>4, StageByKindNext DEF StagesByKind, StageKind
  <2>5. ASSUME NEW b \in Account \ S PROVE Same(b)
    <3>1. \A w \in Call : Busy(w) /\ captured[ref[w]].acct = b => ~ Lost(f, w)
      BY <2>0, <2>5
    <3>2. \A x \in Call : (pc'[x] # "idle" /\ captured'[ref'[x]].acct = b)
                          <=> (pc[x] # "idle" /\ captured[ref[x]].acct = b)
      BY <2>1, <2>2, <3>1 DEF Lost, Busy
    <3>3. InFlight(b)' <=> InFlight(b)
      BY <3>2 DEF InFlight, Busy
    <3> QED
      BY <1>0, <2>3, <3>3, StageSame
  <2>6. Abs!Spend(S)
    BY <2>4, <2>5 DEF Abs!Spend
  <2> QED
    BY <2>6 DEF Abs!SINext
<1> QED
  BY <1>a, <1>1, <1>2, <1>3, <1>4, <1>5, <1>6, <1>7, <1>8 DEF Next, AttemptNext, Step

\* Per account the fence is a SingleIssuance: open, claimed, issued once, then
\* only flagged; or spent without a publication.
THEOREM Refinement == Spec => ImplementsSingleIssuance
<1>1. Init => Abs!SIInit
  BY DEF Init, Abs!SIInit, StageOf, RowsOf, Row, InFlight, Busy
<1>2. IInv /\ IInv' /\ RowsMatchSession /\ [Next]_vars
        => [Abs!SINext]_([a \in Account |-> StageOf(a)])
  <2>1. UNCHANGED vars => UNCHANGED stageBar
    BY DEF vars, stageBar, StageOf, RowsOf, Row, Settled, InFlight, Busy
  <2> QED
    BY <2>1, RefinementStep DEF stageBar
<1> QED
  BY Invariant, RowsMatch, <1>1, <1>2, PTL DEF Spec, ImplementsSingleIssuance, Abs!SISpec
=============================================================================
