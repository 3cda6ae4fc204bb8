\* One exchange in full, others that differ in one respect, and altered documents.
SPECIFICATION Spec
CONSTANTS
  RequestDocuments <- SomeRequests
  ResultDocuments <- SomeResults
  Presentations <- SomePresentations
  InlineOffers <- SomeOffers
  InlineResults <- SomeInlineResults
  InputAnswer <- SomeInputAnswer
  OutputAnswer <- SomeOutputAnswer
  Exchanges <- HonestExchanges
  ByteLimit = 1
  MaxRules = 2
  Malformed = Malformed
  Nothing = Nothing
INVARIANTS
  OnlyWholePasses
  WholeIsNeverRefused
  DecisionPrecedesReceipt
PROPERTIES
  OneExchangePerReceipt
CHECK_DEADLOCK FALSE
