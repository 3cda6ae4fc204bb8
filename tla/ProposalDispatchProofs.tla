------------------------ MODULE ProposalDispatchProofs ------------------------
(***************************************************************************)
(* Proofs about ProposalDispatch for every set of accesses and evidence,   *)
(* every quota and any nesting of invocations.                             *)
(***************************************************************************)
EXTENDS ProposalDispatch, FiniteSetTheorems, SequenceTheorems, TLAPS

\* Nil is no state of an access.
LEMMA NilDistinct == Nil \notin AccessState
BY ConstantsAssumption DEF AccessState

\* The invocations around the innermost one.
LEMMA OuterCalls ==
  ASSUME TypeOK, calls # <<>>
  PROVE  /\ Len(calls) \in Nat \ {0}
         /\ Innermost \in Call
         /\ Outer \in Seq(Call) /\ Len(Outer) = Len(calls) - 1
         /\ \A i \in 1..(Len(calls) - 1) : Outer[i] = calls[i]
<1>1. calls \in Seq(Call) /\ Len(calls) \in Nat \ {0}
  BY DEF TypeOK
<1>2. Innermost \in Call
  BY <1>1 DEF Innermost
<1>3. Outer \in Seq(Call) /\ Len(Outer) = Len(calls) - 1
      /\ \A i \in 1..(Len(calls) - 1) : Outer[i] = calls[i]
  <2> DEFINE n == Len(calls) - 1
  <2>1. n \in Nat /\ \A i \in 1..n : calls[i] \in Call
    BY <1>1
  <2> HIDE DEF n
  <2>2. SubSeq(calls, 1, n) \in Seq(Call)
    BY <2>1, SubSeqProperties
  <2>3. Len(SubSeq(calls, 1, n)) = n
    BY <2>1, SubSeqProperties
  <2>4. \A i \in 1..n : SubSeq(calls, 1, n)[i] = calls[i]
    BY <2>1, SubSeqProperties
  <2> QED
    BY <2>2, <2>3, <2>4 DEF Outer, n
<1> QED
  BY <1>1, <1>2, <1>3

\* A provisioned access is a record.
LEMMA ProvisionedType ==
  ASSUME TypeOK, NEW a \in Provisioned
  PROVE  access[a] \in AccessState
BY DEF TypeOK, Provisioned

\* The innermost call has an access that was provisioned.
LEMMA InnermostKnown ==
  ASSUME TypeOK, CallsKnown, calls # <<>>
  PROVE  Innermost.access \in Provisioned
BY OuterCalls DEF CallsKnown, Innermost, TypeOK

\* What dispatch makes of the access of an invocation that is admitted.
Paid(r) == [r EXCEPT !.remaining = @ - 1, !.entries = @ + 1]

\* Paying for an entry takes one from what remains, and never below nothing.
LEMMA EntryType ==
  ASSUME NEW r \in AccessState, r.remaining > 0
  PROVE  /\ Paid(r) \in AccessState
         /\ Paid(r).remaining = r.remaining - 1 /\ Paid(r).entries = r.entries + 1
         /\ Paid(r).quota = r.quota
<1>1. r.remaining - 1 \in Nat /\ r.entries + 1 \in Nat
  BY DEF AccessState
<1> DEFINE claimed == [r EXCEPT !.remaining = r.remaining - 1]
<1>2. /\ claimed \in AccessState /\ claimed.remaining = r.remaining - 1
      /\ claimed.entries = r.entries /\ claimed.quota = r.quota
  BY <1>1 DEF AccessState
<1>3. Paid(r) = [claimed EXCEPT !.entries = r.entries + 1]
  BY DEF AccessState, Paid
<1> QED
  BY <1>1, <1>2, <1>3 DEF AccessState

\* A dispatch that is admitted is paid for once, by the access of the innermost call.
LEMMA Entry ==
  ASSUME TypeOK, CallsKnown, Dispatch, Admitted(Innermost)
  PROVE  /\ access[Innermost.access] \in AccessState
         /\ access' = [access EXCEPT ![Innermost.access] = Paid(access[Innermost.access])]
         /\ Paid(access[Innermost.access]) \in AccessState
         /\ calls' = Append(Outer, [Innermost EXCEPT !.step = "handling"])
         /\ [Innermost EXCEPT !.step = "handling"] \in Call
         /\ UNCHANGED <<now, retired>>
<1>1. calls # <<>>
  BY DEF Dispatch
<1>2. access[Innermost.access] \in AccessState /\ Innermost.access \in Access
  BY <1>1, InnermostKnown, ProvisionedType DEF Provisioned
<1>3. /\ access' = [access EXCEPT ![Innermost.access].remaining = @ - 1,
                                  ![Innermost.access].entries = @ + 1]
      /\ calls' = Append(Outer, [Innermost EXCEPT !.step = "handling"])
      /\ UNCHANGED <<now, retired>>
  BY DEF Dispatch
<1>4. access' = [access EXCEPT ![Innermost.access] = Paid(access[Innermost.access])]
  BY <1>2, <1>3 DEF Paid, TypeOK
<1>5. Paid(access[Innermost.access]) \in AccessState
  BY <1>2, EntryType DEF Admitted
<1>6. [Innermost EXCEPT !.step = "handling"] \in Call
  BY <1>1, OuterCalls DEF Call
<1> QED
  BY <1>2, <1>3, <1>4, <1>5, <1>6
-----------------------------------------------------------------------------
\* Every step keeps the types.
LEMMA TypeStep == TypeOK /\ CallsKnown /\ [Next]_vars => TypeOK'
<1> SUFFICES ASSUME TypeOK, CallsKnown, [Next]_vars PROVE TypeOK'
  OBVIOUS
<1> USE DEF TypeOK
<1>1. ASSUME NEW a \in Access, NEW quota \in 1..MaxQuota, Provision(a, quota)
      PROVE  TypeOK'
  <2>1. [generation |-> 1, active |-> TRUE, identity |-> "active", identityUntil |-> ExpiresAt,
         quota |-> quota, remaining |-> quota, entries |-> 0] \in AccessState
    BY ConstantsAssumption DEF AccessState, Identity
  <2> QED
    BY <1>1, <2>1 DEF Provision
<1>2. ASSUME NEW a \in Access, NEW grant \in Access, NEW generation \in 1..MaxGeneration,
             Invoke(a, grant, generation)
      PROVE  TypeOK'
  <2>1. [access |-> a, grant |-> grant, generation |-> generation,
         aborted |-> FALSE, step |-> "admitting"] \in Call
    BY ConstantsAssumption DEF Call
  <2> QED
    BY <1>2, <2>1 DEF Invoke
<1>3. ASSUME NEW a \in Access, Revoke(a)
      PROVE  TypeOK'
  <2>1. [access[a] EXCEPT !.active = FALSE] \in AccessState
    BY <1>3, ProvisionedType DEF Revoke, AccessState
  <2> QED
    BY <1>3, <2>1 DEF Revoke
<1>4. ASSUME NEW a \in Access, Rotate(a)
      PROVE  TypeOK'
  <2>1. [access[a] EXCEPT !.generation = @ + 1] \in AccessState
    BY <1>4, ProvisionedType DEF Rotate, AccessState
  <2> QED
    BY <1>4, <2>1 DEF Rotate
<1>5. ASSUME NEW a \in Access, NEW e \in Evidence, SetIdentity(a, e[1], e[2])
      PROVE  TypeOK'
  <2>1. e[1] \in Identity /\ e[2] \in Nat
    BY ConstantsAssumption
  <2>2. [access[a] EXCEPT !.identity = e[1], !.identityUntil = e[2]] \in AccessState
    BY <1>5, <2>1, ProvisionedType DEF SetIdentity, AccessState
  <2> QED
    BY <1>5, <2>2 DEF SetIdentity
<1>6. CASE Dispatch
  <2>1. CASE Admitted(Innermost)
    <3>1. Outer \in Seq(Call)
      BY <1>6, OuterCalls DEF Dispatch
    <3>2. calls' \in Seq(Call)
      <4>1. /\ calls' = Append(Outer, [Innermost EXCEPT !.step = "handling"])
            /\ [Innermost EXCEPT !.step = "handling"] \in Call
        BY <1>6, <2>1, Entry
      <4> QED
        BY <3>1, <4>1, AppendProperties
    <3>3. access' \in [Access -> AccessState \cup {Nil}] /\ now' \in Nat /\ retired' \in BOOLEAN
      BY <1>6, <2>1, Entry
    <3> QED
      BY <3>2, <3>3
  <2>2. CASE ~ Admitted(Innermost)
    BY <1>6, <2>2, OuterCalls DEF Dispatch
  <2> QED
    BY <2>1, <2>2
<1>7. CASE Leave
  BY <1>7, OuterCalls DEF Leave
<1>8. ASSUME NEW i \in DOMAIN calls, Abort(i)
      PROVE  TypeOK'
  <2>1. calls[i] \in Call
    OBVIOUS
  <2>2. [calls[i] EXCEPT !.aborted = TRUE] \in Call
    BY <2>1 DEF Call
  <2> QED
    BY <1>8, <2>2 DEF Abort
<1>9. CASE Retire
  BY <1>9 DEF Retire
<1>10. ASSUME NEW time \in 0..ExpiresAt, AdvanceTo(time)
       PROVE  TypeOK'
  BY <1>10 DEF AdvanceTo
<1>11. CASE UNCHANGED vars
  BY <1>11 DEF vars
<1> QED
  BY <1>1, <1>2, <1>3, <1>4, <1>5, <1>6, <1>7, <1>8, <1>9, <1>10, <1>11 DEF Next

\* The running handlers are finitely many.
LEMMA HandlingFinite ==
  ASSUME TypeOK, NEW a
  PROVE  IsFiniteSet(Handling(a)) /\ Cardinality(Handling(a)) \in Nat
<1>1. Handling(a) \subseteq 1..Len(calls) /\ Len(calls) \in Nat
  BY DEF TypeOK, Handling
<1>2. IsFiniteSet(1..Len(calls))
  BY <1>1, FS_Interval
<1> QED
  BY <1>1, <1>2, FS_Subset, FS_CardinalityType

\* Fewer handlers run when no one was entered.
LEMMA HandlingShrinks ==
  ASSUME TypeOK, NEW a, Handling(a)' \subseteq Handling(a)
  PROVE  Cardinality(Handling(a)') <= Cardinality(Handling(a))
<1>1. IsFiniteSet(Handling(a)) /\ Cardinality(Handling(a)) \in Nat
  BY HandlingFinite
<1> QED
  BY <1>1, FS_Subset

\* An access that keeps its quota, with no further handler, stays accounted for.
LEMMA AccountedStays ==
  ASSUME TypeOK, NEW a \in Provisioned, QuotaConserved,
         access'[a].entries = access[a].entries, access'[a].remaining = access[a].remaining,
         access'[a].quota = access[a].quota, Handling(a)' \subseteq Handling(a)
  PROVE  /\ access'[a].entries + access'[a].remaining = access'[a].quota
         /\ access'[a].entries <= access'[a].quota
         /\ Cardinality(Handling(a)') <= access'[a].entries
<1>1. /\ access[a].entries + access[a].remaining = access[a].quota
      /\ access[a].entries <= access[a].quota
      /\ Cardinality(Handling(a)) <= access[a].entries
  BY DEF QuotaConserved
<1>2. Cardinality(Handling(a)') <= Cardinality(Handling(a))
  BY HandlingShrinks
<1>3. /\ access[a].entries \in Nat
      /\ Cardinality(Handling(a)) \in Nat /\ Cardinality(Handling(a)') \in Nat
  <2>1. IsFiniteSet(Handling(a)')
    BY HandlingFinite, FS_Subset
  <2> QED
    BY <2>1, HandlingFinite, ProvisionedType, FS_CardinalityType DEF AccessState
<1> QED
  BY <1>1, <1>2, <1>3
-----------------------------------------------------------------------------
(***************************************************************************)
(* One step: what becomes of a provisioned access, of one that is not, and *)
(* of the running invocations.                                             *)
(***************************************************************************)
Admits == Dispatch /\ Admitted(Innermost)

\* A provisioned access stays a record with its quota; only an admitted dispatch
\* of its own changes its accounts.
LEMMA AccessStep ==
  ASSUME TypeOK, CallsKnown, [Next]_vars, NEW a \in Provisioned
  PROVE  /\ access'[a] \in AccessState
         /\ access'[a].quota = access[a].quota
         /\ \/ /\ access'[a].entries = access[a].entries
               /\ access'[a].remaining = access[a].remaining
            \/ /\ Admits /\ a = Innermost.access /\ access[a].remaining > 0
               /\ access'[a].entries = access[a].entries + 1
               /\ access'[a].remaining = access[a].remaining - 1
<1> DEFINE Kept == /\ access'[a] \in AccessState
                   /\ access'[a].quota = access[a].quota
                   /\ access'[a].entries = access[a].entries
                   /\ access'[a].remaining = access[a].remaining
<1>0. access[a] \in AccessState /\ a \in Access /\ access \in [Access -> AccessState \cup {Nil}]
  BY ProvisionedType DEF Provisioned, TypeOK
<1>1. ASSUME NEW b \in Access, NEW quota \in 1..MaxQuota, Provision(b, quota)
      PROVE  Kept
  BY <1>0, <1>1 DEF Provision
<1>2. ASSUME NEW b \in Access, Revoke(b)
      PROVE  Kept
  <2>1. CASE a = b
    <3>1. access'[a] = [access[a] EXCEPT !.active = FALSE]
      BY <1>0, <1>2, <2>1 DEF Revoke
    <3> QED
      BY <1>0, <3>1 DEF AccessState
  <2>2. CASE a # b
    BY <1>0, <1>2, <2>2 DEF Revoke
  <2> QED
    BY <2>1, <2>2
<1>3. ASSUME NEW b \in Access, Rotate(b)
      PROVE  Kept
  <2>1. CASE a = b
    <3>1. access'[a] = [access[a] EXCEPT !.generation = @ + 1]
      BY <1>0, <1>3, <2>1 DEF Rotate
    <3> QED
      BY <1>0, <3>1 DEF AccessState
  <2>2. CASE a # b
    BY <1>0, <1>3, <2>2 DEF Rotate
  <2> QED
    BY <2>1, <2>2
<1>4. ASSUME NEW b \in Access, NEW e \in Evidence, SetIdentity(b, e[1], e[2])
      PROVE  Kept
  <2>1. CASE a = b
    <3>1. e[1] \in Identity /\ e[2] \in Nat
      BY ConstantsAssumption
    <3>2. access'[a] = [access[a] EXCEPT !.identity = e[1], !.identityUntil = e[2]]
      BY <1>0, <1>4, <2>1 DEF SetIdentity
    <3> QED
      BY <1>0, <3>1, <3>2 DEF AccessState
  <2>2. CASE a # b
    BY <1>0, <1>4, <2>2 DEF SetIdentity
  <2> QED
    BY <2>1, <2>2
<1>5. ASSUME Dispatch, ~ Admitted(Innermost)
      PROVE  Kept
  BY <1>0, <1>5 DEF Dispatch
<1>6. CASE Admits /\ a = Innermost.access
  <2>1. access'[a] = Paid(access[a]) /\ access[a].remaining > 0
    BY <1>0, <1>6, Entry DEF Admits, Admitted
  <2> QED
    BY <1>0, <1>6, <2>1, EntryType
<1>7. CASE Admits /\ a # Innermost.access
  <2>1. access'[a] = access[a]
    BY <1>0, <1>7, Entry DEF Admits
  <2> QED
    BY <1>0, <2>1
<1>8. ASSUME UNCHANGED access
      PROVE  Kept
  BY <1>0, <1>8
<1>9. CASE Next
  <2>1. ASSUME Leave \/ Retire PROVE UNCHANGED access
    BY <2>1 DEF Leave, Retire
  <2>2. ASSUME NEW i \in DOMAIN calls, Abort(i) PROVE UNCHANGED access
    BY <2>2 DEF Abort
  <2>3. ASSUME NEW time \in 0..ExpiresAt, AdvanceTo(time) PROVE UNCHANGED access
    BY <2>3 DEF AdvanceTo
  <2>4. ASSUME NEW b \in Access, NEW grant \in Access, NEW generation \in 1..MaxGeneration,
               Invoke(b, grant, generation)
        PROVE  UNCHANGED access
    BY <2>4 DEF Invoke
  <2> QED
    BY <1>1, <1>2, <1>3, <1>4, <1>5, <1>6, <1>7, <1>8, <1>9, <2>1, <2>2, <2>3, <2>4
    DEF Next, Admits
<1>10. CASE UNCHANGED vars
  BY <1>8, <1>10 DEF vars
<1> QED
  BY <1>9, <1>10

\* Only provisioning makes an access.
LEMMA Unprovisioned ==
  ASSUME TypeOK, CallsKnown, [Next]_vars, NEW a \in Access \ Provisioned
  PROVE  access'[a] = Nil \/ \E quota \in 1..MaxQuota : Provision(a, quota)
<1>0. access[a] = Nil /\ access \in [Access -> AccessState \cup {Nil}]
  BY DEF Provisioned, TypeOK
<1>1. ASSUME NEW b \in Access, NEW quota \in 1..MaxQuota, Provision(b, quota)
      PROVE  access'[a] = Nil \/ \E q \in 1..MaxQuota : Provision(a, q)
  <2>1. CASE a = b
    BY <1>1, <2>1
  <2>2. CASE a # b
    BY <1>0, <1>1, <2>2 DEF Provision
  <2> QED
    BY <2>1, <2>2
<1>2. ASSUME NEW b \in Access, Revoke(b) \/ Rotate(b) \/ \E e \in Evidence : SetIdentity(b, e[1], e[2])
      PROVE  access'[a] = Nil
  BY <1>0, <1>2 DEF Revoke, Rotate, SetIdentity
<1>3. CASE Dispatch
  <2>1. Innermost.access \in Provisioned
    BY <1>3, InnermostKnown DEF Dispatch
  <2>2. CASE Admitted(Innermost)
    BY <1>0, <1>3, <2>1, <2>2, Entry
  <2>3. CASE ~ Admitted(Innermost)
    BY <1>0, <1>3, <2>3 DEF Dispatch
  <2> QED
    BY <2>2, <2>3
<1>4. ASSUME UNCHANGED access PROVE access'[a] = Nil
  BY <1>0, <1>4
<1>5. CASE Next
  <2>1. ASSUME Leave \/ Retire PROVE UNCHANGED access
    BY <2>1 DEF Leave, Retire
  <2>2. ASSUME NEW i \in DOMAIN calls, Abort(i) PROVE UNCHANGED access
    BY <2>2 DEF Abort
  <2>3. ASSUME NEW time \in 0..ExpiresAt, AdvanceTo(time) PROVE UNCHANGED access
    BY <2>3 DEF AdvanceTo
  <2>4. ASSUME NEW b \in Access, NEW grant \in Access, NEW generation \in 1..MaxGeneration,
               Invoke(b, grant, generation)
        PROVE  UNCHANGED access
    BY <2>4 DEF Invoke
  <2> QED
    BY <1>1, <1>2, <1>3, <1>4, <1>5, <2>1, <2>2, <2>3, <2>4 DEF Next
<1>6. CASE UNCHANGED vars
  BY <1>4, <1>6 DEF vars
<1> QED
  BY <1>5, <1>6

\* Running invocations after a step: the same, one fewer, one more that is not a
\* handler yet, or the innermost one become a handler.
LEMMA CallsStep ==
  ASSUME TypeOK, CallsKnown, [Next]_vars, ~ Admits
  PROVE  /\ \A i \in DOMAIN calls' : calls'[i].access \in Provisioned
         /\ \A a : Handling(a)' \subseteq Handling(a)
<1> DEFINE Goal == /\ \A i \in DOMAIN calls' : calls'[i].access \in Provisioned
                   /\ \A a : Handling(a)' \subseteq Handling(a)
<1>0. calls \in Seq(Call)
  BY DEF TypeOK
<1>1. ASSUME NEW a \in Access, NEW grant \in Access, NEW generation \in 1..MaxGeneration,
             Invoke(a, grant, generation)
      PROVE  Goal
  <2> DEFINE k == [access |-> a, grant |-> grant, generation |-> generation,
                   aborted |-> FALSE, step |-> "admitting"]
  <2>1. k \in Call /\ k.access = a /\ k.step # "handling"
    BY ConstantsAssumption DEF Call
  <2>2. calls' = Append(calls, k) /\ a \in Provisioned
    BY <1>1 DEF Invoke
  <2> HIDE DEF k
  <2>3. /\ DOMAIN calls' = 1..(Len(calls) + 1) /\ DOMAIN calls = 1..Len(calls)
        /\ \A i \in 1..Len(calls) : calls'[i] = calls[i]
        /\ calls'[Len(calls) + 1] = k
    BY <1>0, <2>1, <2>2
  <2>4. Len(calls) \in Nat
    BY <1>0
  <2>5. \A i \in DOMAIN calls' : i \in DOMAIN calls \/ i = Len(calls) + 1
    BY <2>3, <2>4
  <2> QED
    BY <2>1, <2>2, <2>3, <2>5 DEF CallsKnown, Handling
<1>2. ASSUME calls # <<>>, calls' = Outer
      PROVE  Goal
  <2>1. /\ DOMAIN calls' = 1..(Len(calls) - 1) /\ DOMAIN calls = 1..Len(calls)
        /\ \A i \in 1..(Len(calls) - 1) : calls'[i] = calls[i]
        /\ Len(calls) \in Nat \ {0}
    BY <1>0, <1>2, OuterCalls
  <2>2. DOMAIN calls' \subseteq DOMAIN calls
    BY <2>1
  <2> QED
    BY <2>1, <2>2 DEF CallsKnown, Handling
<1>3. ASSUME NEW j \in DOMAIN calls, Abort(j)
      PROVE  Goal
  <2>1. DOMAIN calls' = DOMAIN calls
    BY <1>0, <1>3 DEF Abort
  <2>2. ASSUME NEW i \in DOMAIN calls
        PROVE  calls'[i].access = calls[i].access /\ calls'[i].step = calls[i].step
    <3>1. calls[i] \in Call
      BY <1>0
    <3>2. calls'[i] = IF i = j THEN [calls[i] EXCEPT !.aborted = TRUE] ELSE calls[i]
      BY <1>0, <1>3 DEF Abort
    <3> QED
      BY <3>1, <3>2 DEF Call
  <2> QED
    BY <2>1, <2>2 DEF CallsKnown, Handling
<1>4. ASSUME UNCHANGED calls
      PROVE  Goal
  BY <1>4 DEF CallsKnown, Handling
<1>5. ASSUME Dispatch PROVE Goal
  <2>1. calls # <<>> /\ calls' = Outer
    BY <1>5 DEF Dispatch, Admits
  <2> QED
    BY <1>2, <2>1
<1>6. ASSUME Next PROVE Goal
  <2>1. ASSUME Leave PROVE Goal
    BY <1>2, <2>1 DEF Leave
  <2>2. ASSUME Retire PROVE UNCHANGED calls
    BY <2>2 DEF Retire
  <2>3. ASSUME NEW time \in 0..ExpiresAt, AdvanceTo(time) PROVE UNCHANGED calls
    BY <2>3 DEF AdvanceTo
  <2>4. ASSUME NEW b \in Access, NEW quota \in 1..MaxQuota, Provision(b, quota)
        PROVE  UNCHANGED calls
    BY <2>4 DEF Provision
  <2>5. ASSUME NEW b \in Access, Revoke(b) \/ Rotate(b) PROVE UNCHANGED calls
    BY <2>5 DEF Revoke, Rotate
  <2>6. ASSUME NEW b \in Access, NEW e \in Evidence, SetIdentity(b, e[1], e[2])
        PROVE  UNCHANGED calls
    BY <2>6 DEF SetIdentity
  <2> HIDE DEF Goal
  <2> QED
    BY <1>1, <1>3, <1>4, <1>5, <1>6, <2>1, <2>2, <2>3, <2>4, <2>5, <2>6 DEF Next
<1>7. ASSUME UNCHANGED vars PROVE Goal
  BY <1>4, <1>7 DEF vars
<1> QED
  BY <1>6, <1>7

\* An admitted dispatch makes the innermost invocation a handler.
LEMMA AdmitStep ==
  ASSUME TypeOK, CallsKnown, Admits
  PROVE  /\ \A i \in DOMAIN calls' : calls'[i].access \in Provisioned
         /\ \A a : a # Innermost.access => Handling(a)' \subseteq Handling(a)
         /\ \A a : a = Innermost.access => Handling(a)' \subseteq Handling(a) \cup {Len(calls)}
<1> DEFINE k == [Innermost EXCEPT !.step = "handling"]
<1>1. calls # <<>>
  BY DEF Admits, Dispatch
<1>2. calls' = Append(Outer, k) /\ k \in Call
  BY Entry DEF Admits
<1>3. k.access = Innermost.access
  BY <1>1, OuterCalls DEF Call
<1> HIDE DEF k
<1>4. /\ Outer \in Seq(Call) /\ Len(Outer) = Len(calls) - 1 /\ Len(calls) \in Nat \ {0}
      /\ \A i \in 1..(Len(calls) - 1) : Outer[i] = calls[i]
  BY <1>1, OuterCalls
<1>5. /\ DOMAIN calls' = 1..Len(calls)
      /\ \A i \in 1..(Len(calls) - 1) : calls'[i] = calls[i]
      /\ calls'[Len(calls)] = k
  BY <1>2, <1>4
<1>6. DOMAIN calls = 1..Len(calls)
  BY DEF TypeOK
<1>7. \A i \in 1..Len(calls) : i \in 1..(Len(calls) - 1) \/ i = Len(calls)
  BY <1>4
<1>8. Innermost.access \in Provisioned
  BY <1>1, InnermostKnown
<1>9. \A i \in DOMAIN calls' : calls'[i].access \in Provisioned
  BY <1>3, <1>5, <1>6, <1>7, <1>8 DEF CallsKnown
<1>10. ASSUME NEW a, NEW i \in Handling(a)'
       PROVE  i \in Handling(a) \/ (i = Len(calls) /\ a = Innermost.access)
  BY <1>3, <1>5, <1>6, <1>7, <1>10 DEF Handling
<1> QED
  BY <1>9, <1>10

\* Every step keeps the calls known.
LEMMA CallsKnownStep == TypeOK /\ CallsKnown /\ [Next]_vars => CallsKnown'
<1> SUFFICES ASSUME TypeOK, CallsKnown, [Next]_vars PROVE CallsKnown'
  OBVIOUS
<1>1. \A i \in DOMAIN calls' : calls'[i].access \in Provisioned
  BY CallsStep, AdmitStep
<1>2. Provisioned \subseteq Provisioned'
  BY AccessStep, NilDistinct DEF Provisioned
<1> QED
  BY <1>1, <1>2 DEF CallsKnown

\* Every step conserves the quota.
LEMMA QuotaStep == TypeOK /\ CallsKnown /\ QuotaConserved /\ [Next]_vars => QuotaConserved'
<1> SUFFICES ASSUME TypeOK, CallsKnown, QuotaConserved, [Next]_vars, NEW a \in Provisioned'
             PROVE  /\ access'[a].entries + access'[a].remaining = access'[a].quota
                    /\ access'[a].entries <= access'[a].quota
                    /\ Cardinality(Handling(a)') <= access'[a].entries
  BY DEF QuotaConserved
<1>1. CASE a \notin Provisioned
  <2>1. access'[a] # Nil /\ a \in Access
    BY DEF Provisioned
  <2>2. PICK quota \in 1..MaxQuota : Provision(a, quota)
    BY <1>1, <2>1, Unprovisioned
  <2>3. access'[a].entries = 0 /\ access'[a].remaining = quota /\ access'[a].quota = quota
    BY <2>1, <2>2 DEF Provision, TypeOK
  <2>4. Handling(a)' = {}
    BY <1>1, <2>2 DEF Provision, Handling, CallsKnown
  <2>5. Cardinality(Handling(a)') = 0
    BY <2>4, FS_EmptySet
  <2>6. quota \in Nat
    BY ConstantsAssumption
  <2> QED
    BY <2>3, <2>5, <2>6
<1>2. CASE a \in Provisioned /\ Handling(a)' \subseteq Handling(a)
           /\ access'[a].entries = access[a].entries /\ access'[a].remaining = access[a].remaining
  BY <1>2, AccessStep, AccountedStays
<1>3. CASE a \in Provisioned /\ Admits /\ a = Innermost.access
           /\ access'[a].entries = access[a].entries + 1
           /\ access'[a].remaining = access[a].remaining - 1 /\ access[a].remaining > 0
  <2>1. /\ access[a].entries + access[a].remaining = access[a].quota
        /\ Cardinality(Handling(a)) <= access[a].entries
    BY <1>3 DEF QuotaConserved
  <2>2. access[a].entries \in Nat /\ access[a].remaining \in Nat /\ access[a].quota \in Nat
    BY <1>3, ProvisionedType DEF AccessState
  <2>3. access'[a].quota = access[a].quota
    BY <1>3, AccessStep
  <2>4. IsFiniteSet(Handling(a)) /\ Cardinality(Handling(a)) \in Nat
    BY HandlingFinite
  <2>5. /\ IsFiniteSet(Handling(a) \cup {Len(calls)})
        /\ \/ Cardinality(Handling(a) \cup {Len(calls)}) = Cardinality(Handling(a))
           \/ Cardinality(Handling(a) \cup {Len(calls)}) = Cardinality(Handling(a)) + 1
    BY <2>4, FS_AddElement, Zenon
  <2>6. Handling(a)' \subseteq Handling(a) \cup {Len(calls)}
    BY <1>3, AdmitStep
  <2>7. /\ Cardinality(Handling(a)') <= Cardinality(Handling(a) \cup {Len(calls)})
        /\ IsFiniteSet(Handling(a)')
    BY <2>5, <2>6, FS_Subset
  <2>8. Cardinality(Handling(a)') \in Nat /\ Cardinality(Handling(a) \cup {Len(calls)}) \in Nat
    BY <2>5, <2>7, FS_CardinalityType
  <2> QED
    BY <1>3, <2>1, <2>2, <2>3, <2>4, <2>5, <2>7, <2>8
<1>4. ASSUME a \in Provisioned,
             access'[a].entries = access[a].entries, access'[a].remaining = access[a].remaining
      PROVE  Handling(a)' \subseteq Handling(a)
  <2>1. CASE ~ Admits
    BY <2>1, CallsStep
  <2>2. CASE Admits /\ a # Innermost.access
    BY <2>2, AdmitStep
  <2>3. CASE Admits /\ a = Innermost.access
    <3>1. access'[a] = Paid(access[a]) /\ access[a].remaining > 0
      BY <1>4, <2>3, Entry DEF Admits, Admitted, TypeOK, Provisioned
    <3>2. access[a] \in AccessState
      BY <1>4, ProvisionedType
    <3>3. access[a].remaining \in Nat /\ access'[a].remaining = access[a].remaining - 1
      BY <3>1, <3>2, EntryType DEF AccessState
    <3> QED
      BY <1>4, <3>3
  <2> QED
    BY <2>1, <2>2, <2>3
<1> QED
  BY <1>1, <1>2, <1>3, <1>4, AccessStep

\* The invariant holds initially.
LEMMA InvInit == Init => Inv
<1> SUFFICES ASSUME Init PROVE Inv
  OBVIOUS
<1>1. Provisioned = {}
  BY DEF Init, Provisioned
<1>2. TypeOK
  <2>1. access \in [Access -> AccessState \cup {Nil}] /\ now \in Nat /\ retired \in BOOLEAN
    BY DEF Init
  <2>2. calls \in Seq(Call)
    BY DEF Init
  <2> QED
    BY <2>1, <2>2 DEF TypeOK
<1>3. CallsKnown
  BY DEF Init, CallsKnown
<1> QED
  BY <1>1, <1>2, <1>3 DEF Inv, QuotaConserved

\* In every state the variables have their types, running invocations know their
\* access, and every entry of a handler is paid from the quota, once: for every
\* quota and any nesting of invocations.
THEOREM QuotaHolds == Spec => []Inv
<1>1. Inv /\ [Next]_vars => Inv'
  BY TypeStep, CallsKnownStep, QuotaStep DEF Inv
<1> QED
  BY InvInit, <1>1, PTL DEF Spec

\* Whatever happened since a request was verified, its handler is entered only
\* while the access is active, in its time, with a good identity and its current
\* generation, through a binding of its own.
THEOREM EntryIsAdmitted == Spec => OnlyAdmittedEnter
<1>1. ASSUME Inv, [Next]_vars, NEW a \in Access, Entered(a)
      PROVE  Admitted(Innermost) /\ a = Innermost.access
  <2>1. TypeOK /\ CallsKnown
    BY <1>1 DEF Inv
  <2>2. a \in Provisioned /\ access'[a].entries > access[a].entries
    BY <1>1 DEF Entered, Provisioned
  <2>3. access[a].entries \in Nat
    BY <2>1, <2>2, ProvisionedType DEF AccessState
  <2>4. access'[a].entries # access[a].entries
    BY <2>2, <2>3
  <2> QED
    BY <1>1, <2>1, <2>2, <2>4, AccessStep DEF Admits
<1>2. Inv /\ [Next]_vars =>
        [\A a \in Access : Entered(a) =>
           /\ ~ retired /\ access[a].active /\ now < ExpiresAt
           /\ access[a].identity = "active" /\ now < access[a].identityUntil]_vars
  BY <1>1 DEF Admitted, Current
<1>3. Inv /\ [Next]_vars =>
        [\A a \in Access : Entered(a) =>
           Innermost.access = a /\ Innermost.grant = a
             /\ Innermost.generation = access[a].generation]_vars
  BY <1>1 DEF Admitted
<1>4. Spec => ClosedNeverEnters
  BY QuotaHolds, <1>2, PTL DEF Spec, ClosedNeverEnters
<1>5. Spec => RotatedNeverEnters
  BY QuotaHolds, <1>3, PTL DEF Spec, RotatedNeverEnters
<1> QED
  BY <1>4, <1>5 DEF OnlyAdmittedEnter
=============================================================================
