------------------------ MODULE FinalizationHostProofs ------------------------
(***************************************************************************)
(* Proofs about FinalizationHost, for every set of records and every bound *)
(* of the external revision.                                               *)
(***************************************************************************)
EXTENDS FinalizationHost, TLAPS

\* The lineage of a record was founded by a record.
Rooted == \A r \in Record : phase[r] # "absent" => phase[lineage[r]] # "absent"

\* What was said and what is in doubt fits the phase a record is in: doubt
\* surrounds every pending commit, and a commit outside doubt was acknowledged.
HistoryFits ==
  \A r \in Record :
    /\ phase[r] \in {"absent", "approved", "pending"} => answer[r] = "none"
    /\ r \in quarantined => phase[r] \in {"pending", "committed", "closed"}
    /\ phase[r] = "pending" => r \in quarantined
    /\ phase[r] = "committed" /\ r \notin quarantined => answer[r] = "committed"

IInv ==
  /\ TypeOK /\ Rooted /\ HistoryFits
  /\ OneUnresolvedPerLineage /\ AnswersStayTrue /\ DeliveredWasAcknowledged

\* Nothing is said, founded or in doubt at the start.
LEMMA InitIInv == Init => IInv
  BY ConstantsAssumption DEF Init, IInv, TypeOK, Rooted, HistoryFits, OneUnresolvedPerLineage,
       AnswersStayTrue, DeliveredWasAcknowledged, Phase, Answer, Revision, Unresolved, IsHead

\* A new record enters a lineage that has no unresolved one: one it founds, or
\* one whose head is resolved.
LEMMA EnterIInv ==
  ASSUME IInv, NEW r \in Record, NEW l \in Record, NEW m \in BOOLEAN, Enter(r, l, m),
         l = r \/ phase[l] # "absent",
         \A s \in Record : phase[s] # "absent" /\ lineage[s] = l => ~ Unresolved(s)
  PROVE  IInv'
<1> USE DEF IInv, Enter
<1>1. TypeOK'
  BY DEF TypeOK, Phase
<1>2. Rooted'
  BY DEF TypeOK, Rooted
<1>3. HistoryFits'
  BY DEF TypeOK, HistoryFits
<1>4. OneUnresolvedPerLineage'
  <2> SUFFICES ASSUME NEW x \in Record, phase'[x] # "absent", Unresolved(x)'
               PROVE  /\ IsHead(x)'
                      /\ \A s \in Record \ {x} :
                           phase'[s] # "absent" /\ lineage'[s] = lineage'[x] => ~ Unresolved(s)'
    BY DEF OneUnresolvedPerLineage
  <2>1. CASE x = r
    BY <2>1 DEF TypeOK, IsHead, Unresolved
  <2>2. CASE x # r
    <3>1. phase[x] # "absent" /\ Unresolved(x)
      BY <2>2 DEF TypeOK, Unresolved
    <3>2. lineage[x] # l
      BY <3>1
    <3> QED
      BY <2>2, <3>1, <3>2 DEF TypeOK, IsHead, Unresolved, OneUnresolvedPerLineage
  <2> QED BY <2>1, <2>2
<1>5. AnswersStayTrue'
  BY DEF TypeOK, HistoryFits, AnswersStayTrue, Unresolved
<1>6. DeliveredWasAcknowledged'
  BY DEF DeliveredWasAcknowledged
<1> QED BY <1>1, <1>2, <1>3, <1>4, <1>5, <1>6

\* Every step keeps the invariant.
LEMMA NextIInv == IInv /\ [Next]_vars => IInv'
<1> SUFFICES ASSUME IInv, [Next]_vars PROVE IInv'
  OBVIOUS
<1> USE DEF IInv
\* A step that opens no record and leaves the lineages alone keeps the rest.
<1>0. ASSUME UNCHANGED <<lineage, head>>,
             \A x \in Record : phase'[x] = "absent" <=> phase[x] = "absent",
             \A x \in Record : Unresolved(x)' => Unresolved(x)
      PROVE  Rooted' /\ OneUnresolvedPerLineage'
  BY <1>0 DEF TypeOK, Rooted, OneUnresolvedPerLineage, IsHead
<1>1. ASSUME NEW n \in 0..MaxRevision, SetExternalRevision(n) PROVE IInv'
  BY <1>1, ConstantsAssumption DEF SetExternalRevision, captured, TypeOK, Revision, Rooted, HistoryFits,
       OneUnresolvedPerLineage, AnswersStayTrue, DeliveredWasAcknowledged, Unresolved, IsHead
<1>2. ASSUME NEW r \in Record, NEW m \in BOOLEAN, Approve(r, m) PROVE IInv'
  <2>1. Enter(r, r, m) /\ phase[r] = "absent"
    BY <1>2 DEF Approve, Enter
  <2>2. \A s \in Record : phase[s] # "absent" /\ lineage[s] = r => ~ Unresolved(s)
    BY <2>1 DEF Rooted
  <2> QED BY <2>1, <2>2, EnterIInv
<1>3. ASSUME NEW r \in Record, NEW fresh \in Record, Replace(r, fresh) PROVE IInv'
  <2>1. /\ Enter(fresh, lineage[r], TRUE)
        /\ phase[r] # "absent" /\ ~ Unresolved(r) /\ IsHead(r)
    BY <1>3 DEF Replace, Replaceable, Unresolved
  <2>2. lineage[r] \in Record /\ phase[lineage[r]] # "absent"
    BY <2>1 DEF TypeOK, Rooted
  <2>3. \A s \in Record : phase[s] # "absent" /\ lineage[s] = lineage[r] => ~ Unresolved(s)
    BY <2>1 DEF OneUnresolvedPerLineage, IsHead
  <2> QED BY <2>1, <2>2, <2>3, EnterIInv
<1>4. ASSUME NEW r \in Record, NEW safeNow \in BOOLEAN, NEW s \in Scenario,
             NEW c \in (0..MaxRevision) \cup {Nil}, Finalize(r, safeNow, s, c)
      PROVE  IInv'
  <2> USE DEF Finalize, captured
  <2>0. phase[r] = "approved" /\ r \notin quarantined
    BY <1>4
  <2>1. CASE Valid(r, safeNow, c)
    <3>1. CommittedPhase(s) \in {"pending", "closed", "committed"}
      BY DEF CommittedPhase
    <3>2. s = "acknowledged" => CommittedPhase(s) = "committed"
      BY DEF CommittedPhase
    <3>3. /\ phase' = [phase EXCEPT ![r] = CommittedPhase(s)]
          /\ s # "acknowledged" => quarantined' = quarantined \cup {r} /\ answer' = [answer EXCEPT ![r] = answer[r]]
          /\ s = "acknowledged" => quarantined' = quarantined /\ answer' = [answer EXCEPT ![r] = "committed"]
      BY <1>4, <2>1
    <3>4. UNCHANGED <<lineage, revision, matches, delivered, head, externalRevision>>
      BY <1>4
    <3> HIDE DEF Finalize
    <3>5. TypeOK'
      BY <3>1, <3>2, <3>3, <3>4 DEF TypeOK, Phase, Answer
    <3>6. Rooted' /\ OneUnresolvedPerLineage'
      BY <1>0, <2>0, <3>1, <3>3, <3>4 DEF TypeOK, Unresolved
    <3>7. HistoryFits'
      BY <2>0, <3>1, <3>2, <3>3 DEF TypeOK, HistoryFits
    <3>8. AnswersStayTrue'
      BY <2>0, <3>1, <3>2, <3>3 DEF TypeOK, HistoryFits, AnswersStayTrue, Unresolved
    <3>9. DeliveredWasAcknowledged'
      BY <2>0, <3>3, <3>4 DEF TypeOK, HistoryFits, DeliveredWasAcknowledged
    <3> QED BY <3>5, <3>6, <3>7, <3>8, <3>9
  <2>2. CASE ~ Valid(r, safeNow, c)
    <3>1. /\ phase' = [phase EXCEPT ![r] = "closed"]
          /\ answer' = [answer EXCEPT ![r] = "rejected"]
          /\ UNCHANGED <<lineage, revision, matches, quarantined, delivered, head, externalRevision>>
      BY <1>4, <2>2
    <3> HIDE DEF Finalize
    <3>2. Rooted' /\ OneUnresolvedPerLineage'
      BY <1>0, <2>0, <3>1 DEF TypeOK, Unresolved
    <3> QED
      BY <2>0, <3>1, <3>2 DEF TypeOK, Phase, Answer, HistoryFits, AnswersStayTrue,
           DeliveredWasAcknowledged, Unresolved
  <2> QED BY <2>1, <2>2
<1>5. ASSUME NEW r \in Record, NEW committed \in BOOLEAN, Settle(r, committed) PROVE IInv'
  <2>1. r \in quarantined /\ answer[r] = "none"
    BY <1>5 DEF Settle, HistoryFits
  <2>2. Rooted' /\ OneUnresolvedPerLineage'
    BY <1>0, <1>5, <2>1 DEF Settle, captured, TypeOK, Unresolved
  <2> QED
    BY <1>5, <2>1, <2>2 DEF Settle, captured, TypeOK, Phase, HistoryFits, AnswersStayTrue,
         DeliveredWasAcknowledged, Unresolved
<1>6. ASSUME NEW r \in Record, NEW read \in {"authoritative", "stale", "unavailable"},
             Reconcile(r, read)
      PROVE  IInv'
  <2>1. /\ r \in quarantined /\ phase[r] \in {"pending", "committed", "closed"}
        /\ UNCHANGED <<lineage, revision, matches, phase, delivered, head, externalRevision>>
    BY <1>6 DEF Reconcile, captured, HistoryFits
  <2>2. \/ quarantined' = quarantined /\ answer' = answer
        \/ /\ quarantined' = quarantined /\ phase[r] = "committed"
           /\ answer' = [answer EXCEPT ![r] = "committed-frozen"]
        \/ /\ quarantined' = quarantined \ {r} /\ phase[r] = "closed"
           /\ answer' = [answer EXCEPT ![r] = "no-commit-closed"]
    <3>1. CASE Outcome(r, read) = "unknown"
      BY <1>6, <3>1 DEF Reconcile, TypeOK
    <3>2. CASE Outcome(r, read) # "unknown"
      BY <1>6, <2>1, <3>2 DEF Reconcile, Outcome
    <3> QED BY <3>1, <3>2
  <2>3. Rooted' /\ OneUnresolvedPerLineage'
    BY <1>0, <2>1, <2>2 DEF TypeOK, Unresolved
  <2> QED
    BY <2>1, <2>2, <2>3 DEF TypeOK, Answer, HistoryFits, AnswersStayTrue,
         DeliveredWasAcknowledged, Unresolved
<1>7. ASSUME NEW r \in Record, ConfirmRevocation(r) PROVE IInv'
  <2>1. Rooted' /\ OneUnresolvedPerLineage'
    BY <1>0, <1>7 DEF ConfirmRevocation, captured, TypeOK, Unresolved
  <2> QED
    BY <1>7, <2>1 DEF ConfirmRevocation, captured, TypeOK, Phase, HistoryFits, AnswersStayTrue,
         DeliveredWasAcknowledged, Unresolved
<1>8. ASSUME NEW r \in Record, Deliver(r) PROVE IInv'
  <2>1. Rooted' /\ OneUnresolvedPerLineage'
    BY <1>0, <1>8 DEF Deliver, captured, TypeOK, Unresolved
  <2> QED
    BY <1>8, <2>1 DEF Deliver, captured, TypeOK, HistoryFits, AnswersStayTrue,
         DeliveredWasAcknowledged, Unresolved
<1>9. CASE UNCHANGED vars
  BY <1>9 DEF vars, TypeOK, Rooted, HistoryFits, OneUnresolvedPerLineage, AnswersStayTrue,
       DeliveredWasAcknowledged, Unresolved, IsHead
<1> QED
  BY <1>1, <1>2, <1>3, <1>4, <1>5, <1>6, <1>7, <1>8, <1>9 DEF Next

\* The inductive invariant holds in every reachable state.
THEOREM Invariant == Spec => []IInv
  BY InitIInv, NextIInv, PTL DEF Spec

\* No lineage ever has two records that may hold authority: replace cannot fork
\* a lineage or overtake an unknown outcome.
THEOREM LineagesNeverFork == Spec => []OneUnresolvedPerLineage
  BY Invariant, PTL DEF IInv

\* No answer of finalize or reconcile is contradicted by what happens later.
THEOREM AnswersAreFinal == Spec => []AnswersStayTrue
  BY Invariant, PTL DEF IInv

\* deliver hands out only what finalize acknowledged as committed.
THEOREM DeliveryIsAcknowledged == Spec => []DeliveredWasAcknowledged
  BY Invariant, PTL DEF IInv
=============================================================================
