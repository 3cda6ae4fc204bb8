\* Every reference graph over up to four object schemas, every schema of up to
\* three subschemas of any form; each limit is met exactly by some of them and
\* passed by others.
SPECIFICATION FairSpec
CONSTANTS
  Size = 4
  Mixed = 3
  Schemas <- SmallSchemas
  MaxNodes = 4
  MaxDepth = 2
  MaxReferences = 3
  MaxLiteralUnits = 5
  MaxExpansion = 5
  MaxEvaluationDepth = 2
  MaxWeight = 14
INVARIANTS
  CyclesFound
  WeightIsTotal
  LimitsAreExact
PROPERTIES
  Terminates
CHECK_DEADLOCK FALSE
