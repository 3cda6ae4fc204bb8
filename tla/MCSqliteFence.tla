---------------------------- MODULE MCSqliteFence ----------------------------
(***************************************************************************)
(* Instances of SqliteFence for TLC. Candidates, calls and fences are      *)
(* interchangeable; accounts and sessions too, but the run with liveness   *)
(* uses no symmetry.                                                       *)
(***************************************************************************)
EXTENDS SqliteFence, TLC

Symmetry ==
  Permutations(Account) \cup Permutations(Session) \cup Permutations(Candidate)
    \cup Permutations(Call) \cup Permutations(Fence)
=============================================================================
