\* One user whose sessions may only run out late: two candidates and duplicate
\* calls race with each other, with Memos writers and with two withdrawals.
SPECIFICATION Spec
CONSTANTS
  User = {u1}
  Session = {s1, s2}
  Candidate = {c1, c2}
  Withdrawal = {d1, d2}
  Token <- LateTokens
  Call = {w1, w2}
  Fence = {f1}
  Nil = Nil
  MaxTime = 2
  MaxRev = 6
SYMMETRY Symmetry
INVARIANTS
  Inv
PROPERTIES
  FrozenNeverPublishes
