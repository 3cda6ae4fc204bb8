\* Expected to be violated: a claim whose COMMIT failed is retried.
SPECIFICATION Spec
CONSTANTS
  Account = {a1}
  Session = {s1}
  Candidate = {c1}
  Call = {w1}
  Fence = {f1}
  NoOne = NoOne
  MaxTime = 1
  MaxRev = 2
  BypassWriters = FALSE
PROPERTIES
  UncertainNotRetried
