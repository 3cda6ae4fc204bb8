\* Two records with two decisions each, or one with three, over a trusted source
\* and another one.
SPECIFICATION MCSpec
CONSTANTS
  Record = {r1, r2}
  Consent = {c1, c2, c3, c4}
  Fourth = c4
  Material = {principal, policy}
  Trusted = {principal}
  Deadline = {1, 2}
  Binds = {TRUE, FALSE}
  Qualified = {TRUE, FALSE}
  Nil = Nil
  MaxRevision = 2
  MaxTime = 1
  MaxEpoch = 2
SYMMETRY Symmetry
INVARIANTS
  Inv
PROPERTIES
  ExpiredNeverPublished
  DoubtIsHeld
  ImplementsWithheldAuthority
