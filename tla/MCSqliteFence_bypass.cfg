\* Two accounts that contend for the one write lock, while raw SQL may end
\* sessions behind the fence. No symmetry: leads-to is not checked soundly
\* under it.
SPECIFICATION FairSpec
CONSTANTS
  Account = {a1, a2}
  Session = {s1, s2}
  Candidate = {c1, c2}
  Call = {w1, w2}
  Fence = {f1}
  NoOne = NoOne
  MaxTime = 1
  MaxRev = 2
  BypassWriters = TRUE
INVARIANTS
  IInv
PROPERTIES
  PublishesOnlyCurrent
  ImplementsSingleIssuance
  AttemptReturns
