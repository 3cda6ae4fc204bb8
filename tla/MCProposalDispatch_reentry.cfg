\* Two accesses, requests with the binding of either, one invocation nested in
\* another's callbacks; the identity source is sure, not available, or dates its
\* answer back, of one access at a time.
SPECIFICATION Spec
CONSTANTS
  Access = {a1, a2}
  Nil = Nil
  Evidence <- SomeEvidence
  MaxQuota = 2
  ExpiresAt = 1
  MaxGeneration = 2
  MaxDepth = 2
SYMMETRY Symmetry
CONSTRAINT OneInDoubt
INVARIANTS
  Inv
PROPERTIES
  OnlyAdmittedEnter
