------------------------- MODULE MCProposalDispatch -------------------------
(***************************************************************************)
(* Instances of ProposalDispatch for TLC.                                  *)
(***************************************************************************)
EXTENDS ProposalDispatch, TLC

Symmetry == Permutations(Access)

\* Sure, dated back, or in doubt.
SomeEvidence == {<<"active", ExpiresAt>>, <<"active", 0>>, <<"unavailable", ExpiresAt>>}

\* Bound: the two accesses are not in doubt at the same time.
OneInDoubt ==
  Cardinality({a \in Provisioned : <<access[a].identity, access[a].identityUntil>> # <<"active", ExpiresAt>>}) <= 1
=============================================================================
