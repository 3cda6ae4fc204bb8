\* One account, two sessions (one may be a rotation target), three candidates,
\* duplicate calls, two hosts that may restart, participating writers only.
SPECIFICATION Spec
CONSTANTS
  Account = {a1}
  Session = {s1, s2}
  Candidate = {c1, c2, c3}
  Call = {w1, w2}
  Fence = {f1, f2}
  NoOne = NoOne
  MaxTime = 2
  MaxRev = 2
  BypassWriters = FALSE
SYMMETRY Symmetry
INVARIANTS
  OnePublicationPerAccount
  NoStaleAuthority
PROPERTIES
  ConsumedAccountStaysClosed
  ExpiredNeverPublishes
