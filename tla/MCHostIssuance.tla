--------------------------- MODULE MCHostIssuance ---------------------------
(***************************************************************************)
(* Instances of HostIssuance for TLC. A behaviour is about the records or  *)
(* about the sources (focus): about two records with two decisions each,   *)
(* commits nested in each other's hooks, restarts and one source that      *)
(* changes; or about one record with a spare decision against two sources  *)
(* that drift, expire, move their deadline and lose their ordering.        *)
(***************************************************************************)
EXTENDS HostIssuance, FiniteSets, TLC

CONSTANT
  Fourth   \* the decision that only behaviours about the records need

VARIABLE focus

Symmetry == Permutations(Record) \cup Permutations(Consent \ {Fourth})

MCInit ==
  /\ focus \in {"records", "sources"}
  /\ Init
  /\ \A m \in Material : \A d \in Deadline : source[m].deadline <= d

\* A spare decision is for behaviours about the sources.
Standing(r, kind) ==
  \E c \in Consent : consent[c].record = r /\ consent[c].kind = kind /\ ~ consent[c].withdrawn

\* The policy of an approval stands, and so does every deadline.
AboutRecords ==
  /\ \/ \E r \in Record :
          \/ ApproveCurrentMaterial(r)
          \/ \E c \in Consent, kind \in Kind :
               ~ Standing(r, kind) /\ RecordConsent(r, c, kind, TRUE)
          \/ \E local, issuer \in Consent \cup {Nil} : Commit(r, local, issuer)
          \/ DeliverPrivately(r) \/ ConfirmRevocation(r)
     \/ \E c \in Consent : WithdrawConsent(c)
     \/ Linearize \/ HookThrows \/ CommitReturns
     \/ \E m \in Trusted, active \in BOOLEAN : Invalidate(m, active)
     \/ RecoverUnsupported \/ RecoverInvalidatingOldEpoch \/ RecoverRetainingState

Alone(r) == \A s \in Record \ {r} : record[s] = Absent

AboutSources ==
  \/ \E r \in Record : Alone(r) /\
       \/ ApproveCurrentMaterial(r)
       \/ \E c \in Consent \ {Fourth}, kind \in Kind, binds \in Binds : RecordConsent(r, c, kind, binds)
       \/ \E local, issuer \in (Consent \ {Fourth}) \cup {Nil} : Commit(r, local, issuer)
       \/ DeliverPrivately(r) \/ ConfirmRevocation(r)
  \/ \E c \in Consent \ {Fourth} : WithdrawConsent(c)
  \/ Linearize \/ HookThrows \/ CommitReturns
  \/ \E m \in Material, active \in BOOLEAN : Invalidate(m, active)
  \/ \E m \in Trusted, deadline \in Deadline : SetDeadline(m, deadline)
  \/ \E time \in 0..MaxTime : AdvanceTo(time)
  \/ \E qualified \in Qualified : MarkIdentityAsExternal(qualified)

MCNext ==
  /\ UNCHANGED focus
  /\ \/ focus = "records" /\ AboutRecords
     \/ focus = "sources" /\ AboutSources

MCSpec == MCInit /\ [][MCNext]_<<vars, focus>>
=============================================================================
