---------------------------- MODULE MCMemosFence ----------------------------
(***************************************************************************)
(* Instances of MemosFence for TLC.                                        *)
(***************************************************************************)
EXTENDS MemosFence, TLC

\* Every session id with an early expiry, a late one, and none.
AllTokens == [id : Session, exp : {Missing, 1, 2}]

\* The late expiry only.
LateTokens == [id : Session, exp : {2}]

Symmetry ==
  Permutations(Session) \cup Permutations(Candidate) \cup Permutations(Withdrawal)
    \cup Permutations(Call)
=============================================================================
