--------------------------- MODULE SingleIssuance ---------------------------
(***************************************************************************)
(* What an issuance fence promises to an account, without its mechanism:   *)
(* at most one publication ever comes out of an account, an attempt that   *)
(* does not publish uses the account up, and a publication that loses its  *)
(* authority is only ever flagged, never withdrawn silently or repeated.   *)
(***************************************************************************)
CONSTANT Account
VARIABLE stage

Stage == {"open", "claimed", "issued", "revoking", "spent"}

SITypeOK == stage \in [Account -> Stage]

SIInit == stage = [a \in Account |-> "open"]

Move(a, from, to) ==
  /\ stage[a] = from
  /\ stage' = [stage EXCEPT ![a] = to]

ClaimAccount(a) == Move(a, "open", "claimed")

Publish(a) == Move(a, "claimed", "issued")

FlagRevocation(a) == Move(a, "issued", "revoking")

\* A host that stops takes every attempt it had in flight with it.
Spend(S) ==
  /\ \A a \in S : stage[a] \in {"open", "claimed"}
  /\ stage' = [a \in Account |-> IF a \in S THEN "spent" ELSE stage[a]]

SINext ==
  \/ \E a \in Account : ClaimAccount(a) \/ Publish(a) \/ FlagRevocation(a)
  \/ \E S \in SUBSET Account : Spend(S)

SISpec == SIInit /\ [][SINext]_stage
=============================================================================
