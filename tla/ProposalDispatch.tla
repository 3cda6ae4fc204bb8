--------------------------- MODULE ProposalDispatch ---------------------------
(***************************************************************************)
(* The dispatch fence of tests/fixtures/proposal-dispatch-model.ts: a      *)
(* host domain that holds accesses with a quota, and the invocation of a   *)
(* handler bound to it. Verification, decoding and the handler itself are  *)
(* callbacks that may use the whole interface, so invocations nest; each   *)
(* callback may throw. Running invocations are a stack, and any operation  *)
(* can happen between two steps of the innermost one.                      *)
(*                                                                         *)
(* A request that fails validation or verification changes nothing and is  *)
(* no step. The tuple of an access is abstracted to the access and its     *)
(* session generation, the one field that changes.                         *)
(***************************************************************************)
EXTENDS Integers, Sequences, FiniteSets

CONSTANTS
  Access,              \* references
  Nil,                 \* an access that is not provisioned
  Evidence,            \* the answers <<status, until>> of the identity source
  MaxQuota,            \* bound of the quotas tried
  ExpiresAt,           \* the fixed expiry of an access
  MaxGeneration, MaxDepth       \* bounds of rotations and of nesting

Identity == {"active", "revoked", "unavailable"}

ASSUME ConstantsAssumption ==
  /\ {MaxQuota, ExpiresAt, MaxGeneration, MaxDepth} \subseteq Nat \ {0}
  /\ Evidence \subseteq Identity \X Nat
  /\ Nil \notin [generation : Nat, active : BOOLEAN, identity : Identity, identityUntil : Nat,
                quota : Nat, remaining : Nat, entries : Nat]

VARIABLES
  access,              \* #records, and the quota each was provisioned with
  now, retired,
  calls                \* the running invocations, innermost last

vars == <<access, now, retired, calls>>

AccessState ==
  [generation : Nat, active : BOOLEAN, identity : Identity, identityUntil : Nat,
   quota : Nat, remaining : Nat, entries : Nat]
Call ==
  [access : Access, grant : Access, generation : Nat, aborted : BOOLEAN,
   step : {"admitting", "handling"}]

TypeOK ==
  /\ access \in [Access -> AccessState \cup {Nil}]
  /\ now \in Nat
  /\ retired \in BOOLEAN
  /\ calls \in Seq(Call)

Init ==
  /\ access = [a \in Access |-> Nil]
  /\ now = 0
  /\ retired = FALSE
  /\ calls = <<>>

Provisioned == {a \in Access : access[a] # Nil}

Provision(a, quota) ==
  /\ ~ retired
  /\ a \notin Provisioned
  /\ access' = [access EXCEPT ![a] =
       [generation |-> 1, active |-> TRUE, identity |-> "active", identityUntil |-> ExpiresAt,
        quota |-> quota, remaining |-> quota, entries |-> 0]]
  /\ UNCHANGED <<now, retired, calls>>

\* #assertCurrent
Current(a) ==
  /\ ~ retired /\ access[a].active
  /\ now < ExpiresAt
  /\ access[a].identity = "active"
  /\ now < access[a].identityUntil

Innermost == calls[Len(calls)]
Outer == SubSeq(calls, 1, Len(calls) - 1)

\* invoke up to the verification; the binding may be one of another access or
\* of any session generation.
Invoke(a, grant, generation) ==
  /\ Len(calls) < MaxDepth
  /\ a \in Provisioned
  /\ Current(a)
  /\ calls' = Append(calls, [access |-> a, grant |-> grant, generation |-> generation,
                             aborted |-> FALSE, step |-> "admitting"])
  /\ UNCHANGED <<access, now, retired>>

\* Mutations of Admitted: verification is trusted; the tuple is not compared
\* again.
Admitted_Verified(k) ==
  /\ k.grant = k.access /\ k.generation = access[k.access].generation
  /\ ~ k.aborted
  /\ access[k.access].remaining > 0

Admitted_AnyTuple(k) ==
  /\ Current(k.access)
  /\ k.grant = k.access
  /\ ~ k.aborted
  /\ access[k.access].remaining > 0

\* The checks of dispatch.
Admitted(k) ==
  /\ Current(k.access)
  /\ k.grant = k.access /\ k.generation = access[k.access].generation
  /\ ~ k.aborted
  /\ access[k.access].remaining > 0

\* Mutation of Dispatch: the entry is counted, the quota claimed by the outermost
\* invocation only.
Dispatch_PaidOnce ==
  /\ calls # <<>> /\ Innermost.step = "admitting"
  /\ LET a == Innermost.access IN
     IF Admitted(Innermost)
     THEN /\ access' = [access EXCEPT ![a].remaining = IF Len(calls) = 1 THEN @ - 1 ELSE @,
                                     ![a].entries = @ + 1]
          /\ calls' = Append(Outer, [Innermost EXCEPT !.step = "handling"])
     ELSE /\ calls' = Outer
          /\ access' = access
  /\ UNCHANGED <<now, retired>>

\* dispatch: the quota is claimed before the handler starts.
Dispatch ==
  /\ calls # <<>> /\ Innermost.step = "admitting"
  /\ LET a == Innermost.access IN
     IF Admitted(Innermost)
     THEN /\ access' = [access EXCEPT ![a].remaining = @ - 1, ![a].entries = @ + 1]
          /\ calls' = Append(Outer, [Innermost EXCEPT !.step = "handling"])
     ELSE /\ calls' = Outer
          /\ access' = access
  /\ UNCHANGED <<now, retired>>

\* A callback throws, the output is invalid or the call aborted, or it returns.
Leave ==
  /\ calls # <<>>
  /\ calls' = Outer
  /\ UNCHANGED <<access, now, retired>>

\* The signal of a running invocation is aborted.
Abort(i) ==
  /\ calls' = [calls EXCEPT ![i].aborted = TRUE]
  /\ UNCHANGED <<access, now, retired>>

Revoke(a) ==
  /\ a \in Provisioned
  /\ access' = [access EXCEPT ![a].active = FALSE]
  /\ UNCHANGED <<now, retired, calls>>

Rotate(a) ==
  /\ a \in Provisioned
  /\ access[a].generation < MaxGeneration
  /\ access' = [access EXCEPT ![a].generation = @ + 1]
  /\ UNCHANGED <<now, retired, calls>>

Retire ==
  /\ retired' = TRUE
  /\ UNCHANGED <<access, now, calls>>

\* A time that is not finite rejects like one at the expiry.
AdvanceTo(time) ==
  /\ now' = time
  /\ UNCHANGED <<access, retired, calls>>

SetIdentity(a, status, until) ==
  /\ a \in Provisioned
  /\ access' = [access EXCEPT ![a].identity = status, ![a].identityUntil = until]
  /\ UNCHANGED <<now, retired, calls>>

Next ==
  \/ \E a \in Access :
       \/ \E quota \in 1..MaxQuota : Provision(a, quota)
       \/ \E grant \in Access, generation \in 1..MaxGeneration : Invoke(a, grant, generation)
       \/ Revoke(a) \/ Rotate(a)
       \/ \E e \in Evidence : SetIdentity(a, e[1], e[2])
  \/ Dispatch \/ Leave
  \/ \E i \in DOMAIN calls : Abort(i)
  \/ Retire
  \/ \E time \in 0..ExpiresAt : AdvanceTo(time)

Spec == Init /\ [][Next]_vars
-----------------------------------------------------------------------------
(***************************************************************************)
(* What the fence promises.                                                *)
(***************************************************************************)
Handling(a) == {i \in DOMAIN calls : calls[i].access = a /\ calls[i].step = "handling"}

\* Every entry is paid for once, before it starts, and never more often than
\* provisioned, however deeply invocations nest and however they end.
QuotaConserved ==
  \A a \in Provisioned :
    /\ access[a].entries + access[a].remaining = access[a].quota
    /\ access[a].entries <= access[a].quota
    /\ Cardinality(Handling(a)) <= access[a].entries

\* An access is never taken back while an invocation of it runs.
CallsKnown == \A i \in DOMAIN calls : calls[i].access \in Provisioned

\* In every state the variables have their types, running invocations know their
\* access, and no quota is lost or spent twice.
Inv == TypeOK /\ CallsKnown /\ QuotaConserved

Entered(a) == access[a] # Nil /\ access'[a].entries > access[a].entries

\* From the moment an access is revoked, its host retired, its time over or its
\* identity in doubt, no handler is entered through it: verification before
\* that moment is worth nothing after it.
ClosedNeverEnters ==
  [][\A a \in Access : Entered(a) =>
       /\ ~ retired /\ access[a].active /\ now < ExpiresAt
       /\ access[a].identity = "active" /\ now < access[a].identityUntil]_vars

\* A session generation that has been rotated away enters no handler any more,
\* also when the request that names it had been verified before.
RotatedNeverEnters ==
  [][\A a \in Access : Entered(a) =>
       Innermost.access = a /\ Innermost.grant = a
         /\ Innermost.generation = access[a].generation]_vars

\* Every entry is admitted when it happens, not only when it was verified.
OnlyAdmittedEnter == ClosedNeverEnters /\ RotatedNeverEnters
=============================================================================
