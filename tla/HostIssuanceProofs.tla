-------------------------- MODULE HostIssuanceProofs --------------------------
(***************************************************************************)
(* Proofs about HostIssuance for every set of records, decisions and       *)
(* sources, any nesting of commits and any number of restarts.             *)
(***************************************************************************)
EXTENDS HostIssuance, SequenceTheorems, TLAPS

(***************************************************************************)
(* What one step can make of one record.                                   *)
(***************************************************************************)
Keeps(o, n) ==
  /\ o \in RecordState /\ n \in RecordState
  /\ n.captured = o.captured /\ n.epoch = o.epoch

Stays(o, n) ==
  n.status = o.status /\ (n.consumed <=> o.consumed) /\ (n.needsRevocation <=> o.needsRevocation)

Closes(o, n) ==
  ~ o.consumed /\ ~ n.consumed /\ n.status = "invalidated"
    /\ (n.needsRevocation <=> o.needsRevocation)

Doubts(o, n) == o.consumed /\ n.consumed /\ n.status = "frozen" /\ n.needsRevocation

Stales(o, n) ==
  /\ o.status \in {"committed", "delivered"} /\ n.status = o.status
  /\ (n.consumed <=> o.consumed) /\ n.needsRevocation

Delivers(o, n) ==
  /\ o.status = "committed" /\ ~ o.needsRevocation
  /\ n.status = "delivered" /\ (n.consumed <=> o.consumed) /\ ~ n.needsRevocation

Revokes(o, n) ==
  /\ o.status # "revoked" /\ o.needsRevocation
  /\ n.status = "revoked" /\ (n.consumed <=> o.consumed) /\ ~ n.needsRevocation

Ends(o, n) == o.consumed /\ n.consumed /\ n.status = "epoch-invalidated" /\ ~ n.needsRevocation

Approves(o, n) ==
  /\ o = Absent /\ n \in RecordState
  /\ n.status = "approved" /\ ~ n.consumed /\ ~ n.needsRevocation

Moves(o, n) ==
  \/ n = o
  \/ Approves(o, n)
  \/ /\ Keeps(o, n)
     /\ \/ Stays(o, n) \/ Closes(o, n) \/ Doubts(o, n) \/ Stales(o, n)
        \/ Delivers(o, n) \/ Revokes(o, n) \/ Ends(o, n)

\* Absent is no state of a record, and every state has a status.
LEMMA AbsentNoState == Absent \notin RecordState /\ \A rec \in RecordState : rec.status \in Status
<1>1. \A rec \in RecordState : rec.status \in Status
  BY DEF RecordState
<1>2. Absent.status \notin Status
  BY DEF Absent, Status
<1> QED
  BY <1>1, <1>2

\* A failure, before or after publication, is a move.
LEMMA FailedMoves ==
  ASSUME NEW rec \in RecordState
  PROVE  Moves(rec, Failed(rec)) /\ Failed(rec) \in RecordState
<1>1. CASE rec.consumed
  <2>1. Keeps(rec, Failed(rec))
    BY <1>1 DEF Keeps, Failed, RecordState, Status
  <2>2. Doubts(rec, Failed(rec))
    BY <1>1 DEF Doubts, Failed, RecordState, Status
  <2> QED
    BY <2>1, <2>2 DEF Moves, Keeps
<1>2. CASE ~ rec.consumed
  <2>1. Keeps(rec, Failed(rec))
    BY <1>2 DEF Keeps, Failed, RecordState, Status
  <2>2. Closes(rec, Failed(rec))
    BY <1>2 DEF Closes, Failed, RecordState, Status
  <2> QED
    BY <2>1, <2>2 DEF Moves, Keeps
<1> QED
  BY <1>1, <1>2

\* WithdrawConsent and Commit change what no property looks at first.
Attempted(rec) == [rec EXCEPT !.attempted = TRUE]
Revised(rec) == [rec EXCEPT !.consentRevision = @ + 1]

\* Marking an attempt changes neither what is captured nor the status.
LEMMA AttemptedStays ==
  ASSUME NEW rec \in RecordState
  PROVE  Keeps(rec, Attempted(rec)) /\ Stays(rec, Attempted(rec))
BY DEF Attempted, Keeps, Stays, RecordState

\* Revising consent changes neither what is captured nor the status.
LEMMA RevisedStays ==
  ASSUME NEW rec \in RecordState
  PROVE  Keeps(rec, Revised(rec)) /\ Stays(rec, Revised(rec))
BY DEF Revised, Keeps, Stays, RecordState

Withdrawn(rec) ==
  IF rec.status = "approved" THEN [rec EXCEPT !.status = "invalidated"]
  ELSE IF rec.status \in {"committed", "delivered"} THEN [rec EXCEPT !.needsRevocation = TRUE]
  ELSE rec

\* A withdrawal closes what is only approved and demands the revocation of what is issued.
LEMMA WithdrawnMoves ==
  ASSUME NEW rec \in RecordState, rec.status = "approved" => ~ rec.consumed
  PROVE  /\ Keeps(rec, Withdrawn(rec))
         /\ Closes(rec, Withdrawn(rec)) \/ Stales(rec, Withdrawn(rec)) \/ Withdrawn(rec) = rec
         /\ rec.status \in {"committed", "delivered"} => Withdrawn(rec).needsRevocation
<1>1. CASE rec.status = "approved"
  BY <1>1 DEF Withdrawn, Keeps, Closes, RecordState, Status
<1>2. CASE rec.status \in {"committed", "delivered"}
  BY <1>2 DEF Withdrawn, Keeps, Stales, RecordState, Status
<1>3. CASE rec.status \notin {"approved", "committed", "delivered"}
  BY <1>3 DEF Withdrawn, Keeps
<1> QED
  BY <1>1, <1>2, <1>3

\* A change of the source is a move of every record, and what is issued needs revocation.
LEMMA OutdatedMoves ==
  ASSUME NEW rec \in RecordState \cup {Absent}
  PROVE  /\ Moves(rec, Outdated(rec))
         /\ rec.status \in {"committed", "delivered"} => Outdated(rec).needsRevocation
<1>1. CASE rec \in RecordState /\ rec.status = "approved" /\ ~ rec.consumed
  <2>1. Keeps(rec, Outdated(rec)) /\ Closes(rec, Outdated(rec))
    BY <1>1 DEF Outdated, Keeps, Closes, RecordState, Status
  <2> QED
    BY <1>1, <2>1 DEF Moves
<1>2. CASE rec \in RecordState /\ rec.status \in {"committed", "delivered"}
  <2>1. Keeps(rec, Outdated(rec)) /\ Stales(rec, Outdated(rec))
    BY <1>2 DEF Outdated, Keeps, Stales, RecordState, Status
  <2> QED
    BY <2>1 DEF Moves, Stales
<1>3. CASE /\ rec.status \notin {"committed", "delivered"}
           /\ ~ (rec.status = "approved" /\ ~ rec.consumed)
  BY <1>3 DEF Outdated, Moves
<1>4. CASE rec = Absent
  BY <1>3, <1>4 DEF Absent
<1> QED
  BY <1>1, <1>2, <1>3, <1>4

\* The end of an epoch is a move, and leaves nothing committed.
LEMMA EpochEndedMoves ==
  ASSUME NEW rec \in RecordState \cup {Absent}
  PROVE  Moves(rec, EpochEnded(rec)) /\ EpochEnded(rec).status # "committed"
<1>1. CASE rec = Absent
  BY <1>1 DEF EpochEnded, Moves, Absent
<1>2. CASE rec # Absent /\ ~ rec.consumed
  <2>1. Keeps(rec, EpochEnded(rec)) /\ Closes(rec, EpochEnded(rec))
    BY <1>2 DEF EpochEnded, Keeps, Closes, RecordState, Status
  <2> QED
    BY <2>1 DEF Moves, Closes
<1>3. CASE rec # Absent /\ rec.consumed /\ rec.status \in {"revoked", "epoch-invalidated"}
  BY <1>3 DEF EpochEnded, Moves
<1>4. CASE rec # Absent /\ rec.consumed /\ rec.status \notin {"revoked", "epoch-invalidated"}
  <2>1. Keeps(rec, EpochEnded(rec)) /\ Ends(rec, EpochEnded(rec))
    BY <1>4 DEF EpochEnded, Keeps, Ends, RecordState, Status
  <2> QED
    BY <2>1 DEF Moves, Ends
<1> QED
  BY <1>1, <1>2, <1>3, <1>4

\* A restart that retains state is a move, and leaves nothing committed either.
LEMMA RetainedMoves ==
  ASSUME NEW rec \in RecordState \cup {Absent}, rec.status = "committed" => rec.consumed
  PROVE  Moves(rec, Retained(rec)) /\ Retained(rec).status # "committed"
<1>1. CASE rec.status = "committed"
  <2>1. rec \in RecordState
    BY <1>1 DEF Absent
  <2>2. Keeps(rec, Retained(rec)) /\ Doubts(rec, Retained(rec))
    BY <1>1, <2>1 DEF Retained, Keeps, Doubts, RecordState, Status
  <2> QED
    BY <2>2 DEF Moves, Doubts
<1>2. CASE rec.status # "committed"
  BY <1>2 DEF Retained, Moves
<1> QED
  BY <1>1, <1>2

\* A change that no property looks at, and then a move.
LEMMA StaysThenMoves ==
  ASSUME NEW o, NEW m, NEW n, Keeps(o, m), Stays(o, m), Moves(m, n)
  PROVE  Moves(o, n)
<1>1. ~ Approves(m, n)
  BY AbsentNoState DEF Keeps, Approves
<1>2. CASE n = m
  BY <1>2 DEF Moves
<1>3. CASE Keeps(m, n) /\ (Stays(m, n) \/ Closes(m, n) \/ Doubts(m, n) \/ Stales(m, n))
  <2>1. Keeps(o, n)
    BY <1>3 DEF Keeps
  <2>2. Stays(o, n) \/ Closes(o, n) \/ Doubts(o, n) \/ Stales(o, n)
    BY <1>3 DEF Stays, Closes, Doubts, Stales
  <2> QED
    BY <2>1, <2>2 DEF Moves
<1>4. CASE Keeps(m, n) /\ (Delivers(m, n) \/ Revokes(m, n) \/ Ends(m, n))
  <2>1. Keeps(o, n)
    BY <1>4 DEF Keeps
  <2>2. Delivers(o, n) \/ Revokes(o, n) \/ Ends(o, n)
    BY <1>4 DEF Stays, Delivers, Revokes, Ends
  <2> QED
    BY <2>1, <2>2 DEF Moves
<1> QED
  BY <1>1, <1>2, <1>3, <1>4 DEF Moves

\* Moves keep the types of the records.
LEMMA MovesType ==
  ASSUME NEW o \in RecordState \cup {Absent}, NEW n, Moves(o, n)
  PROVE  /\ n \in RecordState \cup {Absent}
         /\ o \in RecordState => n \in RecordState
BY AbsentNoState DEF Moves, Keeps, Approves
-----------------------------------------------------------------------------
(***************************************************************************)
(* What one step can make of all of them: every record moves, or one is    *)
(* published and the others stay.                                          *)
(***************************************************************************)
\* The calls below the innermost one are calls.
LEMMA OuterCalls ==
  ASSUME TypeOK, calls # <<>>
  PROVE  /\ Len(calls) \in Nat \ {0}
         /\ Innermost \in Call
         /\ Outer \in Seq(Call) /\ Len(Outer) = Len(calls) - 1
         /\ \A i \in 1..(Len(calls) - 1) : Outer[i] = calls[i]
<1>1. calls \in Seq(Call) /\ Len(calls) \in Nat \ {0}
  BY DEF TypeOK
<1>2. Innermost \in Call
  BY <1>1 DEF Innermost
<1> DEFINE n == Len(calls) - 1
<1>3. n \in Nat /\ \A i \in 1..n : calls[i] \in Call
  BY <1>1
<1> HIDE DEF n
<1>4. SubSeq(calls, 1, n) \in Seq(Call)
  BY <1>3, SubSeqProperties
<1>5. Len(SubSeq(calls, 1, n)) = n
  BY <1>3, SubSeqProperties
<1>6. \A i \in 1..n : SubSeq(calls, 1, n)[i] = calls[i]
  BY <1>3, SubSeqProperties
<1> QED
  BY <1>1, <1>2, <1>4, <1>5, <1>6 DEF Outer, n

\* The record of a running commit was approved.
LEMMA InnermostRecord ==
  ASSUME TypeOK, RecordsKnown, calls # <<>>
  PROVE  Innermost.record \in Record /\ record[Innermost.record] \in RecordState
<1>1. Innermost \in Call /\ Len(calls) \in DOMAIN calls
  BY OuterCalls DEF TypeOK
<1>2. Innermost.record \in Record
  BY <1>1 DEF Call
<1>3. record[Innermost.record] # Absent
  BY <1>1 DEF RecordsKnown, Innermost
<1> QED
  BY <1>2, <1>3 DEF TypeOK

AllMove ==
  /\ record' \in [Record -> RecordState \cup {Absent}]
  /\ \A r \in Record : Moves(record[r], record'[r])

\* A step that changes one record by a move is one in which all move.
LEMMA OneMoves ==
  ASSUME TypeOK, NEW r \in Record, NEW n, Moves(record[r], n), record' = [record EXCEPT ![r] = n]
  PROVE  AllMove
<1>1. record \in [Record -> RecordState \cup {Absent}]
  BY DEF TypeOK
<1>2. n \in RecordState \cup {Absent}
  BY <1>1, MovesType
<1>3. \A s \in Record : record'[s] = IF s = r THEN n ELSE record[s]
  BY <1>1
<1>4. \A s \in Record : Moves(record[s], record[s])
  BY DEF Moves
<1>5. \A s \in Record : Moves(record[s], record'[s])
  BY <1>3, <1>4
<1> QED
  BY <1>1, <1>2, <1>5 DEF AllMove

\* A step that changes no record is one in which all move.
LEMMA NoneMoves == TypeOK /\ UNCHANGED record => AllMove
BY DEF TypeOK, AllMove, Moves

\* The linearization point of a commit.
Committed(rec) == [rec EXCEPT !.consumed = TRUE, !.status = "committed"]

Publishes ==
  /\ Linearize /\ Rechecked(Innermost)
  /\ record' = [record EXCEPT ![Innermost.record] = Committed(record[Innermost.record])]

\* What a commit writes is a state of a record.
LEMMA CommittedState ==
  ASSUME NEW rec \in RecordState
  PROVE  /\ Keeps(rec, Committed(rec))
         /\ Committed(rec).status = "committed" /\ Committed(rec).consumed
         /\ Committed(rec).needsRevocation <=> rec.needsRevocation
<1> DEFINE consumed == [rec EXCEPT !.consumed = TRUE]
<1>1. Keeps(rec, consumed) /\ consumed.consumed
      /\ (consumed.needsRevocation <=> rec.needsRevocation)
  BY DEF Keeps, RecordState
<1>2. Committed(rec) = [consumed EXCEPT !.status = "committed"]
  BY DEF Committed, RecordState
<1> HIDE DEF consumed
<1> QED
  BY <1>1, <1>2 DEF Keeps, RecordState, Status

\* Linearizing a commit publishes one record, or is a move.
LEMMA LinearizeStep ==
  ASSUME TypeOK, RecordsKnown, Linearize
  PROVE  AllMove \/ Publishes
<1>1. Innermost.record \in Record /\ record[Innermost.record] \in RecordState
  BY InnermostRecord DEF Linearize
<1>2. CASE Rechecked(Innermost)
  <2>1. record' = [record EXCEPT ![Innermost.record].consumed = TRUE,
                                 ![Innermost.record].status = "committed"]
    BY <1>2 DEF Linearize
  <2>2. record' = [record EXCEPT ![Innermost.record] = Committed(record[Innermost.record])]
    BY <1>1, <2>1 DEF Committed, TypeOK
  <2> QED
    BY <1>2, <2>2 DEF Publishes
<1>3. CASE ~ Rechecked(Innermost)
  <2>1. record' = [record EXCEPT ![Innermost.record] = Failed(record[Innermost.record])]
    BY <1>3 DEF Linearize
  <2> QED
    BY <1>1, <2>1, FailedMoves, OneMoves
<1> QED
  BY <1>2, <1>3

\* An approval moves a record from nothing.
LEMMA ApproveStep ==
  ASSUME TypeOK, NEW r \in Record, ApproveCurrentMaterial(r)
  PROVE  AllMove
<1> DEFINE n == [status |-> "approved", captured |-> Binding, attempted |-> FALSE,
                 consumed |-> FALSE, consentRevision |-> 1, needsRevocation |-> FALSE,
                 epoch |-> epoch]
<1>1. Binding \in Captured
  BY DEF TypeOK, Binding, Captured, Source
<1>2. n \in RecordState /\ n.status = "approved" /\ ~ n.consumed /\ ~ n.needsRevocation
  BY <1>1 DEF TypeOK, RecordState, Status
<1>3. record[r] = Absent /\ record' = [record EXCEPT ![r] = n]
  BY DEF ApproveCurrentMaterial
<1> HIDE DEF n
<1>4. Moves(record[r], n)
  BY <1>2, <1>3 DEF Moves, Approves
<1> QED
  BY <1>3, <1>4, OneMoves

\* The begin of a commit is a move.
LEMMA CommitStep ==
  ASSUME TypeOK, NEW r \in Record, NEW local, NEW issuer, Commit(r, local, issuer)
  PROVE  AllMove
<1>1. record[r] \in RecordState
  BY DEF TypeOK, Commit, Absent
<1>2. Keeps(record[r], Attempted(record[r])) /\ Stays(record[r], Attempted(record[r]))
  BY <1>1, AttemptedStays
<1>3. Attempted(record[r]) \in RecordState
  BY <1>2 DEF Keeps
<1>4. Moves(Attempted(record[r]), Failed(Attempted(record[r])))
  BY <1>3, FailedMoves
<1>5. Moves(record[r], Failed(Attempted(record[r]))) /\ Moves(record[r], Attempted(record[r]))
  BY <1>2, <1>4, StaysThenMoves DEF Moves
<1>6. \/ record' = [record EXCEPT ![r] = Failed(Attempted(record[r]))]
      \/ record' = [record EXCEPT ![r] = Attempted(record[r])]
  BY DEF Commit, Attempted
<1> QED
  BY <1>5, <1>6, OneMoves

\* The record of a decision that is withdrawn.
LEMMA WithdrawStep ==
  ASSUME TypeOK, RecordsKnown, ConsumedByPublication, NEW c \in Consent, WithdrawConsent(c)
  PROVE  /\ AllMove
         /\ consent[c].record \in Record
         /\ consent' = [consent EXCEPT ![c].withdrawn = TRUE]
         /\ record[consent[c].record].status \in {"committed", "delivered"} =>
              record'[consent[c].record].needsRevocation
<1> DEFINE r == consent[c].record
<1> DEFINE o == record[r]
<1>1. consent[c] \in ConsentState /\ ~ consent[c].withdrawn
  BY DEF WithdrawConsent, TypeOK, Unrecorded
<1>2. r \in Record
  BY <1>1 DEF ConsentState
<1>3. o \in RecordState
  BY <1>1, <1>2 DEF RecordsKnown, TypeOK
<1>4. Keeps(o, Revised(o)) /\ Stays(o, Revised(o)) /\ Revised(o) \in RecordState
  BY <1>3, RevisedStays DEF Keeps
<1>5. Revised(o).status = "approved" => ~ Revised(o).consumed
  BY <1>2, <1>4 DEF Stays, ConsumedByPublication
<1>6. /\ Moves(Revised(o), Withdrawn(Revised(o)))
      /\ o.status \in {"committed", "delivered"} => Withdrawn(Revised(o)).needsRevocation
  BY <1>4, <1>5, WithdrawnMoves DEF Moves, Stays
<1>7. Moves(o, Withdrawn(Revised(o)))
  BY <1>4, <1>6, StaysThenMoves
<1>8. /\ record' = [record EXCEPT ![r] = Withdrawn(Revised(o))]
      /\ consent' = [consent EXCEPT ![c].withdrawn = TRUE]
  BY DEF WithdrawConsent, Withdrawn, Revised
<1>9. AllMove
  BY <1>2, <1>7, <1>8, OneMoves
<1>10. record'[r] = Withdrawn(Revised(o))
  BY <1>2, <1>8 DEF TypeOK
<1> QED
  BY <1>2, <1>6, <1>8, <1>9, <1>10

\* A delivery is of a record that was published.
LEMMA DeliverStep ==
  ASSUME TypeOK, ConsumedByPublication, NEW r \in Record, DeliverPrivately(r)
  PROVE  AllMove
<1> DEFINE o == record[r]
<1>1. o \in RecordState /\ o.status = "committed" /\ ~ o.needsRevocation /\ o.consumed
  BY DEF TypeOK, DeliverPrivately, Absent, ConsumedByPublication
<1> DEFINE frozen == [o EXCEPT !.status = "frozen", !.needsRevocation = TRUE]
           delivered == [o EXCEPT !.status = "delivered"]
<1>2. Keeps(o, frozen) /\ Doubts(o, frozen)
  BY <1>1 DEF Keeps, Doubts, RecordState, Status
<1>3. Keeps(o, delivered) /\ Delivers(o, delivered)
  BY <1>1 DEF Keeps, Delivers, RecordState, Status
<1>4. Moves(o, frozen) /\ Moves(o, delivered)
  BY <1>2, <1>3 DEF Moves
<1>5. record' = [record EXCEPT ![r] = frozen] \/ record' = [record EXCEPT ![r] = delivered]
  BY DEF DeliverPrivately
<1> QED
  BY <1>4, <1>5, OneMoves

\* The confirmation of a revocation is a move.
LEMMA ConfirmStep ==
  ASSUME TypeOK, NEW r \in Record, ConfirmRevocation(r)
  PROVE  AllMove
<1> DEFINE o == record[r]
           n == [o EXCEPT !.status = "revoked", !.needsRevocation = FALSE]
<1>1. o \in RecordState /\ o.needsRevocation /\ o.status # "revoked"
  BY DEF TypeOK, ConfirmRevocation, Withheld, Absent
<1>2. Keeps(o, n) /\ Revokes(o, n)
  BY <1>1 DEF Keeps, Revokes, RecordState, Status
<1>3. Moves(o, n)
  BY <1>2 DEF Moves
<1>4. record' = [record EXCEPT ![r] = n]
  BY DEF ConfirmRevocation
<1> QED
  BY <1>3, <1>4, OneMoves

\* A hook that throws takes nothing back.
LEMMA HookThrowsStep ==
  ASSUME TypeOK, RecordsKnown, HookThrows
  PROVE  AllMove
BY InnermostRecord, FailedMoves, OneMoves DEF HookThrows

\* An invalidation is a move of every record, and what is issued needs revocation.
LEMMA InvalidateStep ==
  ASSUME TypeOK, NEW m \in Material, NEW active \in BOOLEAN, Invalidate(m, active)
  PROVE  /\ AllMove
         /\ \A r \in Record :
              record[r].status \in {"committed", "delivered"} => record'[r].needsRevocation
<1>1. \A r \in Record : record'[r] = Outdated(record[r]) /\ record[r] \in RecordState \cup {Absent}
  BY DEF Invalidate, TypeOK
<1>2. \A r \in Record : Moves(record[r], record'[r])
  BY <1>1, OutdatedMoves
<1>3. record' \in [Record -> RecordState \cup {Absent}]
  BY <1>1, <1>2, MovesType DEF Invalidate
<1>4. \A r \in Record :
        record[r].status \in {"committed", "delivered"} => record'[r].needsRevocation
  BY <1>1, OutdatedMoves
<1> QED
  BY <1>2, <1>3, <1>4 DEF AllMove

\* Either recovery is a move of every record, and leaves nothing committed.
LEMMA RestartStep ==
  ASSUME TypeOK, ConsumedByPublication, RecoverInvalidatingOldEpoch \/ RecoverRetainingState
  PROVE  AllMove /\ \A r \in Record : record'[r].status # "committed"
<1>1. CASE RecoverInvalidatingOldEpoch
  <2>1. \A r \in Record :
          record'[r] = EpochEnded(record[r]) /\ record[r] \in RecordState \cup {Absent}
    BY <1>1 DEF RecoverInvalidatingOldEpoch, TypeOK
  <2>2. \A r \in Record : Moves(record[r], record'[r]) /\ record'[r].status # "committed"
    BY <2>1, EpochEndedMoves
  <2>3. record' \in [Record -> RecordState \cup {Absent}]
    BY <1>1, <2>1, <2>2, MovesType DEF RecoverInvalidatingOldEpoch
  <2> QED
    BY <2>2, <2>3 DEF AllMove
<1>2. CASE RecoverRetainingState
  <2>1. \A r \in Record :
          record'[r] = Retained(record[r]) /\ record[r] \in RecordState \cup {Absent}
    BY <1>2 DEF RecoverRetainingState, TypeOK
  <2>2. \A r \in Record : record[r].status = "committed" => record[r].consumed
    BY DEF ConsumedByPublication
  <2>3. \A r \in Record : Moves(record[r], record'[r]) /\ record'[r].status # "committed"
    BY <2>1, <2>2, RetainedMoves
  <2>4. record' \in [Record -> RecordState \cup {Absent}]
    BY <1>2, <2>1, <2>3, MovesType DEF RecoverRetainingState
  <2> QED
    BY <2>3, <2>4 DEF AllMove
<1> QED
  BY <1>1, <1>2

\* A step that changes no record.
Idle ==
  \/ \E r \in Record, c \in Consent, kind \in Kind, binds \in Binds : RecordConsent(r, c, kind, binds)
  \/ CommitReturns
  \/ \E m \in Material, deadline \in Deadline : SetDeadline(m, deadline)
  \/ \E time \in 0..MaxTime : AdvanceTo(time)
  \/ \E qualified \in Qualified : MarkIdentityAsExternal(qualified)
  \/ RecoverUnsupported

\* Every step moves each record, or publishes one.
LEMMA RecordStep ==
  ASSUME TypeOK, RecordsKnown, ConsumedByPublication, [Next]_vars
  PROVE  AllMove \/ Publishes
<1>1. ASSUME NEW r \in Record, ApproveCurrentMaterial(r) PROVE AllMove
  BY <1>1, ApproveStep
<1>2. ASSUME NEW r \in Record, NEW local \in Consent \cup {Nil}, NEW issuer \in Consent \cup {Nil},
             Commit(r, local, issuer)
      PROVE  AllMove
  BY <1>2, CommitStep
<1>3. ASSUME NEW r \in Record, DeliverPrivately(r) PROVE AllMove
  BY <1>3, DeliverStep
<1>4. ASSUME NEW r \in Record, ConfirmRevocation(r) PROVE AllMove
  BY <1>4, ConfirmStep
<1>5. ASSUME NEW c \in Consent, WithdrawConsent(c) PROVE AllMove
  BY <1>5, WithdrawStep
<1>6. ASSUME Linearize PROVE AllMove \/ Publishes
  BY <1>6, LinearizeStep
<1>7. ASSUME HookThrows PROVE AllMove
  BY <1>7, HookThrowsStep
<1>8. ASSUME NEW m \in Material, NEW active \in BOOLEAN, Invalidate(m, active) PROVE AllMove
  BY <1>8, InvalidateStep
<1>9. ASSUME RecoverInvalidatingOldEpoch \/ RecoverRetainingState PROVE AllMove
  BY <1>9, RestartStep
<1>10. ASSUME Idle PROVE AllMove
  <2>1. UNCHANGED record
    BY <1>10 DEF Idle, RecordConsent, CommitReturns, SetDeadline, AdvanceTo,
                 MarkIdentityAsExternal, RecoverUnsupported
  <2> QED
    BY <2>1, NoneMoves
<1>11. ASSUME UNCHANGED vars PROVE AllMove
  BY <1>11, NoneMoves DEF vars
<1> QED
  BY <1>1, <1>2, <1>3, <1>4, <1>5, <1>6, <1>7, <1>8, <1>9, <1>10, <1>11 DEF Next, Idle

\* What a publication rests on.
LEMMA PublishStep ==
  ASSUME TypeOK, RecordsKnown, ConsumedByPublication, Publishes
  PROVE  LET k == Innermost  r == Innermost.record IN
         /\ r \in Record /\ record[r] \in RecordState
         /\ record' \in [Record -> RecordState \cup {Absent}]
         /\ record[r].status = "approved" /\ ~ record[r].needsRevocation
         /\ Keeps(record[r], record'[r]) /\ record'[r].status = "committed"
         /\ record'[r].consumed /\ ~ record'[r].needsRevocation
         /\ \A s \in Record : s # r => record'[s] = record[s]
         /\ Available /\ Decided(r, k.local, k.issuer) /\ Current(r)
         /\ UNCHANGED <<source, consent, epoch>>
<1> DEFINE r == Innermost.record
<1>1. r \in Record /\ record[r] \in RecordState
  BY InnermostRecord DEF Publishes, Linearize
<1>2. Available /\ Decided(r, Innermost.local, Innermost.issuer) /\ Current(r)
  BY DEF Publishes, Rechecked
<1>3. record[r].status = "approved" /\ ~ record[r].needsRevocation
  BY <1>1, <1>2 DEF Current, ConsumedByPublication
<1>4. record' = [record EXCEPT ![r] = Committed(record[r])]
  BY DEF Publishes
<1>5. /\ Keeps(record[r], Committed(record[r])) /\ Committed(record[r]).status = "committed"
      /\ Committed(record[r]).consumed /\ ~ Committed(record[r]).needsRevocation
      /\ Committed(record[r]) \in RecordState
  BY <1>1, <1>3, CommittedState DEF Keeps
<1>6. record' \in [Record -> RecordState \cup {Absent}] /\ record'[r] = Committed(record[r])
      /\ \A s \in Record : s # r => record'[s] = record[s]
  BY <1>1, <1>4, <1>5 DEF TypeOK
<1>7. UNCHANGED <<source, consent, epoch>>
  BY DEF Publishes, Linearize
<1> QED
  BY <1>1, <1>2, <1>3, <1>5, <1>6, <1>7, Zenon
-----------------------------------------------------------------------------
(***************************************************************************)
(* Sources, decisions and running commits after a step.                    *)
(***************************************************************************)
\* Only an invalidation changes the source.
LEMMA SourceStep ==
  ASSUME TypeOK, [Next]_vars
  PROVE  /\ source' \in [Material -> Source]
         /\ \/ \A m \in Material : /\ source'[m].active <=> source[m].active
                                   /\ source'[m].revision = source[m].revision
            \/ \E m \in Material, active \in BOOLEAN : Invalidate(m, active)
<1>0. source \in [Material -> Source]
  BY DEF TypeOK
<1>1. ASSUME NEW m \in Material, NEW active \in BOOLEAN, Invalidate(m, active)
      PROVE  source' \in [Material -> Source]
  <2>1. source' = [source EXCEPT ![m] = [source[m] EXCEPT !.revision = @ + 1, !.active = active]]
    BY <1>0, <1>1 DEF Invalidate
  <2>2. [source[m] EXCEPT !.revision = @ + 1] \in Source
    BY <1>0 DEF Source
  <2>3. [source[m] EXCEPT !.revision = @ + 1, !.active = active] \in Source
    BY <2>2 DEF Source
  <2> QED
    BY <1>0, <2>1, <2>3
<1>2. ASSUME NEW m \in Material, NEW deadline \in Deadline, SetDeadline(m, deadline)
      PROVE  /\ source' \in [Material -> Source]
             /\ \A s \in Material : /\ source'[s].active <=> source[s].active
                                    /\ source'[s].revision = source[s].revision
  <2> DEFINE n == [source[m] EXCEPT !.deadline = deadline]
  <2>1. source' = [source EXCEPT ![m] = n]
    BY <1>0, <1>2 DEF SetDeadline
  <2>2. n \in Source /\ (n.active <=> source[m].active) /\ n.revision = source[m].revision
    BY <1>0, ConstantsAssumption DEF Source
  <2> HIDE DEF n
  <2>3. \A s \in Material : source'[s] = IF s = m THEN n ELSE source[s]
    BY <1>0, <2>1
  <2> QED
    BY <1>0, <2>1, <2>2, <2>3
<1>3. ASSUME UNCHANGED source
      PROVE  /\ source' \in [Material -> Source]
             /\ \A s \in Material : /\ source'[s].active <=> source[s].active
                                    /\ source'[s].revision = source[s].revision
  BY <1>0, <1>3
<1>4. CASE Next
  <2>1. ASSUME NEW r \in Record, ApproveCurrentMaterial(r) \/ DeliverPrivately(r) \/ ConfirmRevocation(r)
        PROVE  UNCHANGED source
    BY <2>1 DEF ApproveCurrentMaterial, DeliverPrivately, ConfirmRevocation
  <2>2. ASSUME NEW r \in Record, NEW c \in Consent, NEW kind \in Kind, NEW binds \in Binds,
               RecordConsent(r, c, kind, binds)
        PROVE  UNCHANGED source
    BY <2>2 DEF RecordConsent
  <2>3. ASSUME NEW r \in Record, NEW local \in Consent \cup {Nil}, NEW issuer \in Consent \cup {Nil},
               Commit(r, local, issuer)
        PROVE  UNCHANGED source
    BY <2>3 DEF Commit
  <2>4. ASSUME NEW c \in Consent, WithdrawConsent(c) PROVE UNCHANGED source
    BY <2>4 DEF WithdrawConsent
  <2>5. ASSUME Linearize \/ HookThrows \/ CommitReturns PROVE UNCHANGED source
    BY <2>5 DEF Linearize, HookThrows, CommitReturns
  <2>6. ASSUME NEW time \in 0..MaxTime, AdvanceTo(time) PROVE UNCHANGED source
    BY <2>6 DEF AdvanceTo
  <2>7. ASSUME NEW qualified \in Qualified, MarkIdentityAsExternal(qualified) PROVE UNCHANGED source
    BY <2>7 DEF MarkIdentityAsExternal
  <2>8. ASSUME RecoverUnsupported \/ RecoverInvalidatingOldEpoch \/ RecoverRetainingState
        PROVE  UNCHANGED source
    BY <2>8 DEF RecoverUnsupported, RecoverInvalidatingOldEpoch, RecoverRetainingState
  <2> QED
    BY <1>1, <1>2, <1>3, <1>4, <2>1, <2>2, <2>3, <2>4, <2>5, <2>6, <2>7, <2>8 DEF Next
<1>5. CASE UNCHANGED vars
  BY <1>3, <1>5 DEF vars
<1> QED
  BY <1>4, <1>5

\* A decision that stands is an earlier one, or is recorded over an approved record.
LEMMA ConsentStep ==
  ASSUME TypeOK, RecordsKnown, ConsumedByPublication, [Next]_vars
  PROVE  /\ consent' \in [Consent -> ConsentState \cup {Unrecorded}]
         /\ \A c \in Consent : ~ consent[c].withdrawn =>
              consent'[c] = consent[c] \/ WithdrawConsent(c)
         /\ \A c \in Consent : ~ consent'[c].withdrawn =>
              \/ consent'[c] = consent[c]
              \/ consent'[c].record \in Record /\ record[consent'[c].record] # Absent
<1> DEFINE Goal ==
      /\ consent' \in [Consent -> ConsentState \cup {Unrecorded}]
      /\ \A c \in Consent : ~ consent[c].withdrawn =>
           consent'[c] = consent[c] \/ WithdrawConsent(c)
      /\ \A c \in Consent : ~ consent'[c].withdrawn =>
           \/ consent'[c] = consent[c]
           \/ consent'[c].record \in Record /\ record[consent'[c].record] # Absent
<1>0. consent \in [Consent -> ConsentState \cup {Unrecorded}]
  BY DEF TypeOK
<1>1. ASSUME NEW r \in Record, NEW c \in Consent, NEW kind \in Kind, NEW binds \in Binds,
             RecordConsent(r, c, kind, binds)
      PROVE  Goal
  <2> DEFINE n == [record |-> r, kind |-> kind, binds |-> binds,
                   revision |-> record[r].consentRevision, withdrawn |-> FALSE]
  <2>1. record[r] \in RecordState
    BY <1>1 DEF TypeOK, RecordConsent, Absent
  <2>2. n \in ConsentState /\ n.record = r
    BY <2>1, ConstantsAssumption DEF ConsentState, RecordState
  <2>3. consent' = [consent EXCEPT ![c] = n] /\ consent[c] = Unrecorded
    BY <1>1 DEF RecordConsent
  <2> HIDE DEF n
  <2>4. \A d \in Consent : consent'[d] = IF d = c THEN n ELSE consent[d]
    BY <1>0, <2>3
  <2>5. consent[c].withdrawn /\ record[r] # Absent
    BY <2>1, <2>3, AbsentNoState DEF Unrecorded
  <2>6. consent' \in [Consent -> ConsentState \cup {Unrecorded}]
    BY <1>0, <2>2, <2>3
  <2> QED
    BY <2>2, <2>4, <2>5, <2>6
<1>2. ASSUME NEW c \in Consent, WithdrawConsent(c)
      PROVE  Goal
  <2> DEFINE n == [consent[c] EXCEPT !.withdrawn = TRUE]
  <2>1. consent[c] \in ConsentState
    BY <1>0, <1>2 DEF WithdrawConsent, Unrecorded
  <2>2. n \in ConsentState /\ n.withdrawn
    BY <2>1 DEF ConsentState
  <2>3. consent' = [consent EXCEPT ![c] = n]
    BY <1>2 DEF WithdrawConsent
  <2> HIDE DEF n
  <2>4. \A d \in Consent : consent'[d] = IF d = c THEN n ELSE consent[d]
    BY <1>0, <2>3
  <2>5. consent' \in [Consent -> ConsentState \cup {Unrecorded}]
    BY <1>0, <2>2, <2>3
  <2> QED
    BY <1>2, <2>2, <2>4, <2>5
<1>3. ASSUME UNCHANGED consent
      PROVE  Goal
  BY <1>0, <1>3
<1>4. ASSUME Next PROVE Goal
  <2>1. ASSUME NEW r \in Record, ApproveCurrentMaterial(r) \/ DeliverPrivately(r) \/ ConfirmRevocation(r)
        PROVE  UNCHANGED consent
    BY <2>1 DEF ApproveCurrentMaterial, DeliverPrivately, ConfirmRevocation
  <2>2. ASSUME NEW m \in Material, NEW active \in BOOLEAN, Invalidate(m, active)
        PROVE  UNCHANGED consent
    BY <2>2 DEF Invalidate
  <2>3. ASSUME NEW r \in Record, NEW local \in Consent \cup {Nil}, NEW issuer \in Consent \cup {Nil},
               Commit(r, local, issuer)
        PROVE  UNCHANGED consent
    BY <2>3 DEF Commit
  <2>4. ASSUME NEW m \in Material, NEW deadline \in Deadline, SetDeadline(m, deadline)
        PROVE  UNCHANGED consent
    BY <2>4 DEF SetDeadline
  <2>5. ASSUME Linearize \/ HookThrows \/ CommitReturns PROVE UNCHANGED consent
    BY <2>5 DEF Linearize, HookThrows, CommitReturns
  <2>6. ASSUME NEW time \in 0..MaxTime, AdvanceTo(time) PROVE UNCHANGED consent
    BY <2>6 DEF AdvanceTo
  <2>7. ASSUME NEW qualified \in Qualified, MarkIdentityAsExternal(qualified) PROVE UNCHANGED consent
    BY <2>7 DEF MarkIdentityAsExternal
  <2>8. ASSUME RecoverUnsupported \/ RecoverInvalidatingOldEpoch \/ RecoverRetainingState
        PROVE  UNCHANGED consent
    BY <2>8 DEF RecoverUnsupported, RecoverInvalidatingOldEpoch, RecoverRetainingState
  <2> HIDE DEF Goal
  <2> QED
    BY <1>1, <1>2, <1>3, <1>4, <2>1, <2>2, <2>3, <2>4, <2>5, <2>6, <2>7, <2>8 DEF Next
<1>5. ASSUME UNCHANGED vars PROVE Goal
  BY <1>3, <1>5 DEF vars
<1> QED
  BY <1>4, <1>5

\* Running commits are earlier ones, or of an approved record.
LEMMA CallsStep ==
  ASSUME TypeOK, RecordsKnown, [Next]_vars
  PROVE  /\ calls' \in Seq(Call)
         /\ \A i \in DOMAIN calls' : record[calls'[i].record] # Absent
<1> DEFINE Goal == /\ calls' \in Seq(Call)
                   /\ \A i \in DOMAIN calls' : record[calls'[i].record] # Absent
<1>0. calls \in Seq(Call) /\ DOMAIN calls = 1..Len(calls) /\ Len(calls) \in Nat
  BY DEF TypeOK
<1>1. ASSUME UNCHANGED calls PROVE Goal
  BY <1>0, <1>1 DEF RecordsKnown
<1>2. ASSUME calls # <<>>, calls' = Outer PROVE Goal
  <2>1. /\ Outer \in Seq(Call) /\ DOMAIN Outer = 1..(Len(calls) - 1)
        /\ \A i \in 1..(Len(calls) - 1) : Outer[i] = calls[i]
    BY <1>2, OuterCalls
  <2>2. 1..(Len(calls) - 1) \subseteq DOMAIN calls
    BY <1>0
  <2> QED
    BY <1>2, <2>1, <2>2 DEF RecordsKnown
<1>3. ASSUME NEW s \in Seq(Call), NEW k \in Call, calls' = Append(s, k), record[k.record] # Absent,
             \A i \in DOMAIN s : record[s[i].record] # Absent
      PROVE  Goal
  <2>1. /\ calls' \in Seq(Call) /\ DOMAIN calls' = 1..(Len(s) + 1) /\ DOMAIN s = 1..Len(s)
        /\ \A i \in 1..Len(s) : calls'[i] = s[i]
        /\ calls'[Len(s) + 1] = k
        /\ Len(s) \in Nat
    BY <1>3
  <2>2. \A i \in DOMAIN calls' : i \in DOMAIN s \/ i = Len(s) + 1
    BY <2>1
  <2> QED
    BY <1>3, <2>1, <2>2
<1>4. ASSUME NEW r \in Record, NEW local \in Consent \cup {Nil}, NEW issuer \in Consent \cup {Nil},
             Commit(r, local, issuer)
      PROVE  Goal
  <2> DEFINE k == [record |-> r, local |-> local, issuer |-> issuer,
                   point |-> "before-linearization"]
  <2>1. CASE Available /\ Decided(r, local, issuer) /\ HostReady
    <3>1. calls' = Append(calls, k)
      BY <1>4, <2>1 DEF Commit
    <3>2. local \in Consent /\ issuer \in Consent
      BY <2>1 DEF Decided
    <3>3. k \in Call /\ k.record = r
      BY <3>2 DEF Call, Point
    <3>4. record[r] # Absent
      BY <1>4 DEF Commit, Absent
    <3> HIDE DEF k
    <3> QED
      BY <1>0, <1>3, <3>1, <3>3, <3>4 DEF RecordsKnown
  <2>2. CASE ~ (Available /\ Decided(r, local, issuer) /\ HostReady)
    <3>1. UNCHANGED calls
      BY <1>4, <2>2 DEF Commit
    <3> QED
      BY <1>1, <3>1
  <2> QED
    BY <2>1, <2>2
<1>5. ASSUME Linearize PROVE Goal
  <2> DEFINE k == [Innermost EXCEPT !.point = "after-linearization"]
  <2>1. calls # <<>>
    BY <1>5 DEF Linearize
  <2>2. CASE Rechecked(Innermost)
    <3>1. calls' = Append(Outer, k)
      BY <1>5, <2>2 DEF Linearize
    <3>2. k \in Call /\ k.record = Innermost.record
      BY <2>1, OuterCalls DEF Call, Point
    <3>3. record[Innermost.record] # Absent
      BY <2>1, InnermostRecord, AbsentNoState
    <3>4. /\ Outer \in Seq(Call) /\ DOMAIN Outer = 1..(Len(calls) - 1)
          /\ \A i \in 1..(Len(calls) - 1) : Outer[i] = calls[i]
      BY <2>1, OuterCalls
    <3>5. 1..(Len(calls) - 1) \subseteq DOMAIN calls
      BY <1>0
    <3>6. \A i \in DOMAIN Outer : record[Outer[i].record] # Absent
      BY <3>4, <3>5 DEF RecordsKnown
    <3> HIDE DEF k
    <3> QED
      BY <1>3, <3>1, <3>2, <3>3, <3>4, <3>6
  <2>3. CASE ~ Rechecked(Innermost)
    BY <1>2, <1>5, <2>1, <2>3 DEF Linearize
  <2> QED
    BY <2>2, <2>3
<1>6. ASSUME HookThrows \/ CommitReturns PROVE Goal
  BY <1>2, <1>6 DEF HookThrows, CommitReturns
<1>7. ASSUME Next PROVE Goal
  <2>1. ASSUME NEW r \in Record, ApproveCurrentMaterial(r) \/ DeliverPrivately(r) \/ ConfirmRevocation(r)
        PROVE  UNCHANGED calls
    BY <2>1 DEF ApproveCurrentMaterial, DeliverPrivately, ConfirmRevocation
  <2>2. ASSUME NEW m \in Material, NEW active \in BOOLEAN, Invalidate(m, active)
        PROVE  UNCHANGED calls
    BY <2>2 DEF Invalidate
  <2>3. ASSUME NEW r \in Record, NEW c \in Consent, NEW kind \in Kind, NEW binds \in Binds,
               RecordConsent(r, c, kind, binds)
        PROVE  UNCHANGED calls
    BY <2>3 DEF RecordConsent
  <2>4. ASSUME NEW m \in Material, NEW deadline \in Deadline, SetDeadline(m, deadline)
        PROVE  UNCHANGED calls
    BY <2>4 DEF SetDeadline
  <2>5. ASSUME NEW c \in Consent, WithdrawConsent(c) PROVE UNCHANGED calls
    BY <2>5 DEF WithdrawConsent
  <2>6. ASSUME NEW time \in 0..MaxTime, AdvanceTo(time) PROVE UNCHANGED calls
    BY <2>6 DEF AdvanceTo
  <2>7. ASSUME NEW qualified \in Qualified, MarkIdentityAsExternal(qualified) PROVE UNCHANGED calls
    BY <2>7 DEF MarkIdentityAsExternal
  <2>8. ASSUME RecoverUnsupported \/ RecoverInvalidatingOldEpoch \/ RecoverRetainingState
        PROVE  UNCHANGED calls
    BY <2>8 DEF RecoverUnsupported, RecoverInvalidatingOldEpoch, RecoverRetainingState
  <2> HIDE DEF Goal
  <2> QED
    BY <1>1, <1>4, <1>5, <1>6, <1>7, <2>1, <2>2, <2>3, <2>4, <2>5, <2>6, <2>7, <2>8 DEF Next
<1>8. ASSUME UNCHANGED vars PROVE Goal
  BY <1>1, <1>8 DEF vars
<1> QED
  BY <1>7, <1>8

\* The epoch changes by a restart only, and then nothing is left committed.
LEMMA EpochStep ==
  ASSUME TypeOK, ConsumedByPublication, [Next]_vars
  PROVE  epoch' = epoch \/ \A r \in Record : record'[r].status # "committed"
<1>1. CASE RecoverInvalidatingOldEpoch \/ RecoverRetainingState
  BY <1>1, RestartStep
<1>2. CASE Next /\ ~ (RecoverInvalidatingOldEpoch \/ RecoverRetainingState)
  BY <1>2 DEF Next, ApproveCurrentMaterial, DeliverPrivately, ConfirmRevocation, RecordConsent,
              Commit, WithdrawConsent, Linearize, HookThrows, CommitReturns, Invalidate,
              SetDeadline, AdvanceTo, MarkIdentityAsExternal, RecoverUnsupported
<1>3. CASE UNCHANGED vars
  BY <1>3 DEF vars
<1> QED
  BY <1>1, <1>2, <1>3

\* The counters and flags keep their types.
LEMMA ScalarStep ==
  ASSUME TypeOK, [Next]_vars
  PROVE  now' \in Nat /\ epoch' \in Nat /\ ordered' \in BOOLEAN /\ recoveryBlocked' \in BOOLEAN
<1>0. now \in Nat /\ epoch \in Nat /\ ordered \in BOOLEAN /\ recoveryBlocked \in BOOLEAN
  BY DEF TypeOK
<1>1. CASE RecoverInvalidatingOldEpoch \/ RecoverRetainingState
  BY <1>0, <1>1 DEF RecoverInvalidatingOldEpoch, RecoverRetainingState
<1>2. ASSUME NEW time \in 0..MaxTime, AdvanceTo(time)
      PROVE  now' \in Nat /\ UNCHANGED <<epoch, ordered, recoveryBlocked>>
  BY <1>2, ConstantsAssumption DEF AdvanceTo
<1>3. ASSUME NEW qualified \in Qualified, MarkIdentityAsExternal(qualified)
      PROVE  ordered' \in BOOLEAN /\ UNCHANGED <<now, epoch, recoveryBlocked>>
  BY <1>3, ConstantsAssumption DEF MarkIdentityAsExternal
<1>4. CASE RecoverUnsupported
  BY <1>0, <1>4 DEF RecoverUnsupported
<1>5. CASE UNCHANGED <<now, epoch, ordered, recoveryBlocked>>
  BY <1>0, <1>5
<1>6. CASE /\ Next
           /\ ~ (RecoverInvalidatingOldEpoch \/ RecoverRetainingState \/ RecoverUnsupported)
           /\ ~ \E time \in 0..MaxTime : AdvanceTo(time)
           /\ ~ \E qualified \in Qualified : MarkIdentityAsExternal(qualified)
  <2>1. UNCHANGED <<now, epoch, ordered, recoveryBlocked>>
    BY <1>6 DEF Next, ApproveCurrentMaterial, DeliverPrivately, ConfirmRevocation, RecordConsent,
              Commit, WithdrawConsent, Linearize, HookThrows, CommitReturns, Invalidate, SetDeadline
  <2> QED
    BY <1>5, <2>1
<1>7. CASE UNCHANGED vars
  BY <1>5, <1>7 DEF vars
<1> QED
  BY <1>0, <1>1, <1>2, <1>3, <1>4, <1>6, <1>7
-----------------------------------------------------------------------------
(***************************************************************************)
(* The invariant, conjunct by conjunct.                                    *)
(***************************************************************************)
\* Every step keeps the types.
LEMMA TypeStep == TypeOK /\ RecordsKnown /\ ConsumedByPublication /\ [Next]_vars => TypeOK'
<1> SUFFICES ASSUME TypeOK, RecordsKnown, ConsumedByPublication, [Next]_vars PROVE TypeOK'
  OBVIOUS
<1>1. record' \in [Record -> RecordState \cup {Absent}]
  BY RecordStep, PublishStep DEF AllMove
<1> QED
  BY <1>1, SourceStep, ConsentStep, CallsStep, ScalarStep DEF TypeOK

\* A record that was approved stays known.
LEMMA KnownStays ==
  ASSUME TypeOK, RecordsKnown, ConsumedByPublication, [Next]_vars,
         NEW r \in Record, record[r] # Absent
  PROVE  record'[r] # Absent
<1>1. record[r] \in RecordState
  BY DEF TypeOK
<1>2. CASE AllMove
  BY <1>1, <1>2, MovesType, AbsentNoState DEF AllMove
<1>3. CASE Publishes
  BY <1>1, <1>3, PublishStep, AbsentNoState DEF Keeps
<1> QED
  BY <1>2, <1>3, RecordStep

\* Every step keeps the records known.
LEMMA RecordsKnownStep ==
  TypeOK /\ RecordsKnown /\ ConsumedByPublication /\ [Next]_vars => RecordsKnown'
<1> SUFFICES ASSUME TypeOK, RecordsKnown, ConsumedByPublication, [Next]_vars
             PROVE  RecordsKnown'
  OBVIOUS
<1>1. ASSUME NEW i \in DOMAIN calls'
      PROVE  record'[calls'[i].record] # Absent
  <2>1. calls' \in Seq(Call) /\ record[calls'[i].record] # Absent
    BY <1>1, CallsStep
  <2>2. calls'[i] \in Call
    BY <1>1, <2>1
  <2>3. calls'[i].record \in Record
    BY <2>2 DEF Call
  <2> QED
    BY <2>1, <2>3, KnownStays
<1>2. ASSUME NEW c \in Consent, ~ consent'[c].withdrawn
      PROVE  record'[consent'[c].record] # Absent
  <2>1. CASE consent'[c] = consent[c]
    <3>1. consent[c] \in ConsentState /\ ~ consent[c].withdrawn
      BY <1>2, <2>1 DEF TypeOK, Unrecorded
    <3>2. consent[c].record \in Record /\ record[consent[c].record] # Absent
      BY <3>1 DEF ConsentState, RecordsKnown
    <3> QED
      BY <2>1, <3>2, KnownStays
  <2>2. CASE consent'[c].record \in Record /\ record[consent'[c].record] # Absent
    BY <2>2, KnownStays
  <2> QED
    BY <1>2, <2>1, <2>2, ConsentStep
<1> QED
  BY <1>1, <1>2 DEF RecordsKnown

ConsumedRight(rec) ==
  /\ rec.consumed <=> rec.status \notin {"absent", "approved", "invalidated"}
  /\ rec.needsRevocation => rec.consumed
  /\ rec.status = "frozen" => rec.needsRevocation

\* A move consumes nothing but by publication.
LEMMA MovesConsumedRight ==
  ASSUME NEW o \in RecordState \cup {Absent}, NEW n, Moves(o, n), ConsumedRight(o)
  PROVE  ConsumedRight(n)
<1>1. CASE n = o
  BY <1>1
<1>2. CASE Approves(o, n)
  BY <1>2 DEF Approves, ConsumedRight
<1>3. CASE Stays(o, n) \/ Closes(o, n) \/ Doubts(o, n)
  BY <1>3 DEF Stays, Closes, Doubts, ConsumedRight
<1>4. CASE Stales(o, n) \/ Delivers(o, n)
  BY <1>4 DEF Stales, Delivers, ConsumedRight
<1>5. CASE Revokes(o, n) \/ Ends(o, n)
  BY <1>5 DEF Revokes, Ends, ConsumedRight
<1> QED
  BY <1>1, <1>2, <1>3, <1>4, <1>5 DEF Moves

\* Every step keeps what is consumed justified by a publication.
LEMMA ConsumedStep ==
  TypeOK /\ RecordsKnown /\ ConsumedByPublication /\ [Next]_vars => ConsumedByPublication'
<1> SUFFICES ASSUME TypeOK, RecordsKnown, ConsumedByPublication, [Next]_vars, NEW r \in Record
             PROVE  ConsumedRight(record'[r])
  BY DEF ConsumedByPublication, ConsumedRight
<1>1. ConsumedRight(record[r]) /\ record[r] \in RecordState \cup {Absent}
  BY DEF ConsumedByPublication, ConsumedRight, TypeOK
<1>2. CASE AllMove
  BY <1>1, <1>2, MovesConsumedRight DEF AllMove
<1>3. CASE Publishes
  <2>1. CASE r = Innermost.record
    BY <1>3, <2>1, PublishStep DEF ConsumedRight
  <2>2. CASE r # Innermost.record
    BY <1>1, <1>3, <2>2, PublishStep
  <2> QED
    BY <2>1, <2>2
<1> QED
  BY <1>2, <1>3, RecordStep

\* Authority that is live and not withheld after a move was so before.
LEMMA MovesLive ==
  ASSUME NEW o \in RecordState \cup {Absent}, NEW n, Moves(o, n),
         n.status \in {"committed", "delivered"}
  PROVE  /\ o.status \in {"committed", "delivered"} /\ o \in RecordState
         /\ n.captured = o.captured /\ n.epoch = o.epoch
         /\ n.status = "committed" => o.status = "committed"
         /\ ~ n.needsRevocation => ~ o.needsRevocation
<1>1. ~ Approves(o, n) /\ ~ Closes(o, n) /\ ~ Doubts(o, n) /\ ~ Revokes(o, n) /\ ~ Ends(o, n)
  BY DEF Approves, Closes, Doubts, Revokes, Ends
<1>2. CASE n = o
  BY <1>2 DEF Absent
<1>3. CASE Keeps(o, n) /\ (Stays(o, n) \/ Stales(o, n) \/ Delivers(o, n))
  BY <1>3 DEF Keeps, Stays, Stales, Delivers
<1> QED
  BY <1>1, <1>2, <1>3 DEF Moves

\* No record is of an epoch to come.
LEMMA EpochsStep ==
  Inv /\ [Next]_vars => NoDeliveryAcrossRestart'
<1> SUFFICES ASSUME Inv, [Next]_vars, NEW r \in Record, record'[r].status = "committed"
             PROVE  record'[r].epoch = epoch'
  BY DEF NoDeliveryAcrossRestart
<1>1. TypeOK /\ RecordsKnown /\ ConsumedByPublication /\ NoDeliveryAcrossRestart
  BY DEF Inv
<1>2. epoch' = epoch
  BY <1>1, EpochStep
<1>3. CASE AllMove
  <2>1. record[r].status = "committed" /\ record'[r].epoch = record[r].epoch
    BY <1>1, <1>3, MovesLive DEF AllMove, TypeOK
  <2> QED
    BY <1>1, <1>2, <2>1 DEF NoDeliveryAcrossRestart
<1>4. CASE Publishes
  <2>1. CASE r = Innermost.record
    BY <1>1, <1>2, <1>4, <2>1, PublishStep DEF Keeps, Current
  <2>2. CASE r # Innermost.record
    <3>1. record'[r] = record[r]
      BY <1>1, <1>4, <2>2, PublishStep
    <3> QED
      BY <1>1, <1>2, <3>1 DEF NoDeliveryAcrossRestart
  <2> QED
    BY <2>1, <2>2
<1> QED
  BY <1>1, <1>3, <1>4, RecordStep

\* Every step keeps the authority justified.
LEMMA AuthorityStep ==
  Inv /\ [Next]_vars => AuthorityIsCurrent'
<1> DEFINE Supported(r) ==
      /\ \A m \in Material :
           source[m].active /\ source[m].revision = record[r].captured[m].revision
      /\ \A kind \in Kind : \E c \in Approving(r) : consent[c].kind = kind /\ consent[c].binds
<1> SUFFICES ASSUME Inv, [Next]_vars, NEW r \in Record,
                    record'[r].status \in {"committed", "delivered"}, ~ record'[r].needsRevocation
             PROVE  Supported(r)'
  BY DEF AuthorityIsCurrent, Withheld
<1>1. TypeOK /\ RecordsKnown /\ ConsumedByPublication /\ AuthorityIsCurrent
  BY DEF Inv
<1>2. CASE AllMove
  <2>1. /\ record[r].status \in {"committed", "delivered"} /\ ~ record[r].needsRevocation
        /\ record'[r].captured = record[r].captured
    BY <1>1, <1>2, MovesLive DEF AllMove, TypeOK
  <2>2. Supported(r)
    BY <1>1, <2>1 DEF AuthorityIsCurrent, Withheld
  <2>3. ~ \E m \in Material, active \in BOOLEAN : Invalidate(m, active)
    BY <1>1, <2>1, InvalidateStep
  <2>4. \A m \in Material :
          source'[m].active /\ source'[m].revision = record'[r].captured[m].revision
    BY <1>1, <2>1, <2>2, <2>3, SourceStep
  <2>5. ASSUME NEW c \in Approving(r)
        PROVE  c \in Approving(r)' /\ consent'[c] = consent[c]
    <3>1. c \in Consent /\ consent[c].record = r /\ ~ consent[c].withdrawn
      BY <2>5 DEF Approving
    <3>2. ~ WithdrawConsent(c)
      BY <1>1, <2>1, <3>1, WithdrawStep
    <3>3. consent'[c] = consent[c]
      BY <1>1, <3>1, <3>2, ConsentStep
    <3> QED
      BY <3>1, <3>3 DEF Approving
  <2>6. \A kind \in Kind : \E c \in Approving(r)' : consent'[c].kind = kind /\ consent'[c].binds
    BY <2>2, <2>5
  <2> QED
    BY <2>4, <2>6
<1>3. CASE Publishes /\ r # Innermost.record
  <2>1. record'[r] = record[r] /\ UNCHANGED <<source, consent>>
    BY <1>1, <1>3, PublishStep
  <2>2. Supported(r)
    BY <1>1, <2>1 DEF AuthorityIsCurrent, Withheld
  <2> QED
    BY <2>1, <2>2 DEF Approving
<1>4. CASE Publishes /\ r = Innermost.record
  <2> DEFINE k == Innermost
  <2>1. /\ Decided(r, k.local, k.issuer) /\ Current(r) /\ Keeps(record[r], record'[r])
        /\ UNCHANGED <<source, consent>>
    BY <1>1, <1>4, PublishStep
  <2>2. k.local \in Consent /\ k.issuer \in Consent
    BY <1>1, <1>4, OuterCalls DEF Publishes, Linearize, Call
  <2>3. \A m \in Material : source[m].active /\ source[m].revision = record[r].captured[m].revision
    BY <2>1 DEF Current, Binding
  <2>4. \A kind \in Kind : \E c \in Approving(r) : consent[c].kind = kind /\ consent[c].binds
    BY <2>1, <2>2 DEF Decided, Approving, Kind
  <2>5. record'[r].captured = record[r].captured
    BY <2>1 DEF Keeps
  <2> QED
    BY <2>1, <2>3, <2>4, <2>5 DEF Approving
<1> QED
  BY <1>1, <1>2, <1>3, <1>4, RecordStep

\* The invariant holds initially.
LEMMA InvInit == Init => Inv
<1> SUFFICES ASSUME Init PROVE Inv
  OBVIOUS
<1>1. PICK deadline \in [Material -> Deadline] :
        source = [m \in Material |-> [revision |-> 1, deadline |-> deadline[m], active |-> TRUE]]
  BY DEF Init
<1>2. source \in [Material -> Source]
  <2>1. \A m \in Material : deadline[m] \in Nat
    BY ConstantsAssumption
  <2> QED
    BY <1>1, <2>1 DEF Source
<1>3. /\ record \in [Record -> RecordState \cup {Absent}]
      /\ consent \in [Consent -> ConsentState \cup {Unrecorded}]
      /\ calls \in Seq(Call)
      /\ now \in Nat /\ epoch \in Nat
      /\ ordered \in BOOLEAN /\ recoveryBlocked \in BOOLEAN
  <2>1. record \in [Record -> RecordState \cup {Absent}]
    BY DEF Init
  <2>2. consent \in [Consent -> ConsentState \cup {Unrecorded}]
    BY DEF Init
  <2>3. calls \in Seq(Call)
    BY DEF Init
  <2>4. now \in Nat /\ epoch \in Nat /\ ordered \in BOOLEAN /\ recoveryBlocked \in BOOLEAN
    BY DEF Init
  <2> QED
    BY <2>1, <2>2, <2>3, <2>4
<1>4. TypeOK
  BY <1>2, <1>3 DEF TypeOK
<1>5. RecordsKnown
  BY DEF Init, RecordsKnown, Unrecorded
<1>6. \A r \in Record : record[r] = Absent
  BY DEF Init
<1>7. ConsumedByPublication
  <2>1. /\ ~ Absent.consumed /\ ~ Absent.needsRevocation
        /\ Absent.status \in {"absent", "approved", "invalidated"} /\ Absent.status # "frozen"
    BY DEF Absent
  <2> QED
    BY <1>6, <2>1 DEF ConsumedByPublication
<1>8. AuthorityIsCurrent /\ NoDeliveryAcrossRestart
  BY <1>6 DEF AuthorityIsCurrent, NoDeliveryAcrossRestart, Absent
<1> QED
  BY <1>4, <1>5, <1>7, <1>8 DEF Inv

\* Every step keeps the invariant.
LEMMA InvStep == Inv /\ [Next]_vars => Inv'
BY TypeStep, RecordsKnownStep, ConsumedStep, AuthorityStep, EpochsStep DEF Inv

\* Whatever happens in the hooks of commits, nested to any depth, and after them:
\* authority that stands rests on sources and decisions that stand, and no commit
\* outlives the epoch it was made in.
THEOREM AuthorityHolds == Spec => []Inv
BY InvInit, InvStep, PTL DEF Spec

\* The record published is the one whose hook returned, and every check was made
\* again at that moment.
THEOREM PublishedInTime == Spec => ExpiredNeverPublished
<1>1. ASSUME Inv, [Next]_vars, NEW r \in Record,
             record[r].status = "approved", record'[r].status = "committed"
      PROVE  Current(r)
  <2>1. TypeOK /\ RecordsKnown /\ ConsumedByPublication
    BY <1>1 DEF Inv
  <2>2. ~ AllMove
    <3>1. ~ (record[r].status \in {"committed", "delivered"})
      BY <1>1
    <3> QED
      BY <1>1, <2>1, <3>1, MovesLive DEF AllMove, TypeOK
  <2>3. Publishes
    BY <1>1, <2>1, <2>2, RecordStep
  <2>4. r = Innermost.record
    BY <1>1, <2>1, <2>3, PublishStep
  <2> QED
    BY <2>1, <2>3, <2>4, PublishStep
<1>2. Inv /\ [Next]_vars =>
        [\A r \in Record : record[r].status = "approved" /\ record'[r].status = "committed" =>
           \A m \in Material :
             /\ source[m].deadline > now
             /\ source[m].deadline = record[r].captured[m].deadline]_vars
  <2>1. ASSUME NEW r \in Record, Current(r), NEW m \in Material
        PROVE  /\ source[m].deadline > now
               /\ source[m].deadline = record[r].captured[m].deadline
    <3>1. Binding[m].deadline = source[m].deadline
      BY DEF Binding
    <3> QED
      BY <2>1, <3>1 DEF Current
  <2> QED
    BY <1>1, <2>1
<1> QED
  BY AuthorityHolds, <1>2, PTL DEF Spec, ExpiredNeverPublished

\* An outcome in doubt keeps its record withheld until it is revoked or its epoch
\* ends, and only what was published is ever withheld.
THEOREM DoubtHolds == Spec => DoubtIsHeld
<1>1. ASSUME Inv, NEW r \in Record
      PROVE  /\ record[r].status = "frozen" => Withheld(r)
             /\ Withheld(r) => record[r].consumed
  BY <1>1 DEF Inv, ConsumedByPublication, Withheld
<1>2. ASSUME Inv, [Next]_vars, NEW r \in Record, record[r].status = "frozen"
      PROVE  record'[r].status \in {"frozen", "revoked", "epoch-invalidated"}
  <2>1. TypeOK /\ RecordsKnown /\ ConsumedByPublication
    BY <1>2 DEF Inv
  <2>2. record[r].consumed
    BY <1>2, <2>1 DEF ConsumedByPublication
  <2>3. CASE AllMove
    <3>1. Moves(record[r], record'[r])
      BY <2>3 DEF AllMove
    <3>2. record[r] # Absent
      BY <1>2 DEF Absent
    <3>3. ~ Approves(record[r], record'[r]) /\ ~ Closes(record[r], record'[r])
          /\ ~ Stales(record[r], record'[r]) /\ ~ Delivers(record[r], record'[r])
      BY <1>2, <2>2, <3>2 DEF Approves, Closes, Stales, Delivers
    <3>4. CASE Doubts(record[r], record'[r]) \/ Revokes(record[r], record'[r]) \/ Ends(record[r], record'[r])
      BY <3>4 DEF Doubts, Revokes, Ends
    <3>5. CASE Stays(record[r], record'[r]) \/ record'[r] = record[r]
      BY <1>2, <3>5 DEF Stays
    <3> QED
      BY <3>1, <3>3, <3>4, <3>5 DEF Moves
  <2>4. CASE Publishes
    <3>1. r # Innermost.record
      BY <1>2, <2>1, <2>4, PublishStep
    <3>2. record'[r] = record[r]
      BY <2>1, <2>4, <3>1, PublishStep
    <3> QED
      BY <1>2, <3>2
  <2> QED
    BY <1>2, <2>1, <2>3, <2>4, RecordStep
<1>3. Inv /\ [Next]_vars =>
        [\A r \in Record :
           /\ record[r].status = "frozen" =>
                /\ Withheld(r)
                /\ record'[r].status \in {"frozen", "revoked", "epoch-invalidated"}
           /\ Withheld(r) => record[r].consumed]_vars
  BY <1>1, <1>2
<1> QED
  BY AuthorityHolds, <1>3, PTL DEF Spec, DoubtIsHeld
-----------------------------------------------------------------------------
(***************************************************************************)
(* The refinement of WithheldAuthority.                                    *)
(***************************************************************************)
StageOfRecord(rec) ==
  IF rec.needsRevocation /\ rec.status # "revoked" THEN "withheld"
  ELSE IF rec.status \in {"absent", "approved"} THEN "open"
  ELSE IF rec.status = "invalidated" THEN "closed"
  ELSE IF rec.status \in {"committed", "delivered"} THEN "live"
  ELSE "ended"

Downgrades ==
  {<<s, s>> : s \in Abs!Stage} \cup
  {<<"open", "closed">>, <<"live", "withheld">>, <<"live", "ended">>,
   <<"withheld", "ended">>, <<"ended", "withheld">>}

\* The stages that the abstract specification sees.
LEMMA StageType ==
  /\ \A rec : StageOfRecord(rec) \in Abs!Stage
  /\ \A r : StageOf(r) = StageOfRecord(record[r])
BY DEF StageOfRecord, StageOf, Withheld, Abs!Stage

\* A move of a record is a downgrade of its stage, or none.
LEMMA MovesDowngrade ==
  ASSUME NEW o \in RecordState \cup {Absent}, NEW n, Moves(o, n), ConsumedRight(o)
  PROVE  <<StageOfRecord(o), StageOfRecord(n)>> \in Downgrades
<1>1. ASSUME StageOfRecord(n) = StageOfRecord(o)
      PROVE  <<StageOfRecord(o), StageOfRecord(n)>> \in Downgrades
  BY <1>1, StageType DEF Downgrades
<1>2. CASE n = o
  BY <1>1, <1>2
<1>3. CASE Approves(o, n)
  BY <1>1, <1>3 DEF Approves, StageOfRecord, Absent
<1>4. CASE Stays(o, n)
  BY <1>1, <1>4 DEF Stays, StageOfRecord
<1>5. CASE Keeps(o, n) /\ Closes(o, n)
  <2>1. o.status \in Status
    BY <1>5, AbsentNoState DEF Keeps
  <2>2. StageOfRecord(n) = "closed"
    BY <1>5 DEF Closes, ConsumedRight, StageOfRecord
  <2>3. StageOfRecord(o) \in {"open", "closed", "ended"}
    BY <1>5 DEF Closes, ConsumedRight, StageOfRecord
  <2>4. o.status \in {"approved", "invalidated"}
    BY <1>5, <2>1 DEF Closes, ConsumedRight, Status
  <2> QED
    BY <1>1, <2>2, <2>4 DEF StageOfRecord, Downgrades, ConsumedRight
<1>6. CASE Keeps(o, n) /\ Doubts(o, n)
  <2>1. StageOfRecord(n) = "withheld"
    BY <1>6 DEF Doubts, StageOfRecord
  <2>2. o.status \notin {"absent", "approved", "invalidated"}
    BY <1>6 DEF Doubts, ConsumedRight
  <2>3. StageOfRecord(o) \in {"withheld", "live", "ended"}
    BY <2>2 DEF StageOfRecord
  <2> QED
    BY <1>1, <2>1, <2>3 DEF Downgrades
<1>7. CASE Stales(o, n)
  <2>1. StageOfRecord(n) = "withheld" /\ StageOfRecord(o) \in {"withheld", "live"}
    BY <1>7 DEF Stales, StageOfRecord
  <2> QED
    BY <1>1, <2>1 DEF Downgrades
<1>8. CASE Delivers(o, n)
  BY <1>1, <1>8 DEF Delivers, StageOfRecord
<1>9. CASE Revokes(o, n)
  <2>1. StageOfRecord(n) = "ended" /\ StageOfRecord(o) = "withheld"
    BY <1>9 DEF Revokes, StageOfRecord
  <2> QED
    BY <2>1 DEF Downgrades
<1>10. CASE Ends(o, n)
  <2>1. StageOfRecord(n) = "ended"
    BY <1>10 DEF Ends, StageOfRecord
  <2>2. o.status \notin {"absent", "approved", "invalidated"}
    BY <1>10 DEF Ends, ConsumedRight
  <2>3. StageOfRecord(o) \in {"withheld", "live", "ended"}
    BY <2>2 DEF StageOfRecord
  <2> QED
    BY <1>1, <2>1, <2>3 DEF Downgrades
<1> QED
  BY <1>2, <1>3, <1>4, <1>5, <1>6, <1>7, <1>8, <1>9, <1>10 DEF Moves

\* Initial states map to initial states.
LEMMA StageInit == Init => Abs!WAInit
BY DEF Init, Abs!WAInit, StageOf, Withheld, Absent

\* Every step maps to a step of the abstract specification, or to none.
LEMMA StageStep ==
  Inv /\ [Next]_vars => [Abs!WANext]_([r \in Record |-> StageOf(r)])
<1> SUFFICES ASSUME Inv, [Next]_vars PROVE Abs!WANext
  OBVIOUS
<1> DEFINE stage == [r \in Record |-> StageOf(r)]
<1>1. TypeOK /\ RecordsKnown /\ ConsumedByPublication
  BY DEF Inv
<1>2. \A r : StageOf(r)' = StageOfRecord(record'[r])
  BY DEF StageOf, StageOfRecord, Withheld
<1>3. /\ stage = [r \in Record |-> StageOfRecord(record[r])]
      /\ stage' = [r \in Record |-> StageOfRecord(record'[r])]
  BY <1>2, StageType
<1>4. CASE AllMove
  <2>1. \A r \in Record : ConsumedRight(record[r]) /\ record[r] \in RecordState \cup {Absent}
    BY <1>1 DEF ConsumedByPublication, ConsumedRight, TypeOK
  <2>2. \A r \in Record : <<StageOfRecord(record[r]), StageOfRecord(record'[r])>> \in Downgrades
    BY <1>4, <2>1, MovesDowngrade DEF AllMove
  <2>3. stage' \in [Record -> Abs!Stage]
    BY <1>3, StageType
  <2>4. \A r \in Record : <<stage[r], stage'[r]>> \in Downgrades
    BY <1>3, <2>2
  <2>5. Abs!Downgrade
    BY <2>3, <2>4 DEF Abs!Downgrade, Downgrades
  <2> QED
    BY <2>5 DEF Abs!WANext
<1>5. CASE Publishes
  <2> DEFINE r == Innermost.record
  <2>1. /\ r \in Record
        /\ record[r].status = "approved" /\ ~ record[r].needsRevocation
        /\ record'[r].status = "committed" /\ ~ record'[r].needsRevocation
        /\ \A s \in Record : s # r => record'[s] = record[s]
        /\ Available
    BY <1>1, <1>5, PublishStep
  <2>2. StageOfRecord(record[r]) = "open" /\ StageOfRecord(record'[r]) = "live"
    BY <2>1 DEF StageOfRecord
  <2>3. \A s \in Record : StageOfRecord(record[s]) # "withheld"
    BY <2>1 DEF Available, Withheld, StageOfRecord
  <2>4. stage' = [stage EXCEPT ![r] = "live"]
    <3>1. \A s \in Record :
            StageOfRecord(record'[s]) = IF s = r THEN "live" ELSE StageOfRecord(record[s])
      BY <2>1, <2>2
    <3> HIDE DEF r
    <3> QED
      BY <1>3, <3>1
  <2>5. Abs!Publish(r)
    BY <1>3, <2>1, <2>2, <2>3, <2>4 DEF Abs!Publish
  <2> QED
    BY <2>1, <2>5 DEF Abs!WANext
<1> QED
  BY <1>1, <1>4, <1>5, RecordStep

\* A record becomes live at most once, and never while the authority of any record
\* is withheld: the contract implements the abstract promise.
THEOREM ContractWithholds == Spec => ImplementsWithheldAuthority
BY StageInit, StageStep, AuthorityHolds, PTL DEF Spec, ImplementsWithheldAuthority, Abs!WASpec
=============================================================================
