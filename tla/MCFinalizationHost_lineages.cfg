\* Three records in up to three lineages, under an external revision or not.
SPECIFICATION Spec
CONSTANTS
  Record = {r1, r2, r3}
  Nil = Nil
  MaxRevision = 2
SYMMETRY Symmetry
INVARIANTS
  OneUnresolvedPerLineage
  AnswersStayTrue
CHECK_DEADLOCK FALSE
