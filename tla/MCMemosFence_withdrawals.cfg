\* One user, two sessions that may run out early, late or never be valid, one
\* candidate, and Memos writing any row at any time.
SPECIFICATION Spec
CONSTANTS
  User = {u1}
  Session = {s1, s2}
  Candidate = {c1}
  Withdrawal = {d1, d2}
  Token <- AllTokens
  Call = {w1}
  Fence = {f1}
  Nil = Nil
  MaxTime = 2
  MaxRev = 3
SYMMETRY Symmetry
INVARIANTS
  RemovalNeverBlocked
  ReconciledIsFinal
PROPERTIES
  NoResurrection
