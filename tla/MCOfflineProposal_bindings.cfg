CONSTANTS
  Manifest = {m1, m2}
  Offers <- SomeOffers
  Expected <- SomeExpected
  RequestDocuments <- SomeRequests
  GrantDocuments <- SomeGrants
  Pairs <- SomePairs
  NoHash = NoHash
  NoDelivery = NoDelivery
  Identifiers = {"action", "other"}
  Forged = Forged
  Nothing = Nothing
  FractionDigits = 4
  Uri <- Names
  Lists <- SomeLists
  Edits = {}
  Instances <- SomeInstances
  Hashes = {}
  MaxResources = 4
  MaxResourceBytes = 2
  MaxAggregateBytes = 8
  MaxAggregateNodes = 8
  MaxAggregateReferences = 8
  MaxInstanceBytes = 1
  MaxInstanceNodes = 2
  MaxInstanceDepth = 1
  MaxInstanceWork = 3
  NoSet = NoSet
  NoPin = NoPin
  NoHandle = NoHandle
SPECIFICATION MCSpec
INVARIANTS
  Inv
  AgreementsBind
  ExpiryNeverExtended
PROPERTIES
  ManifestsPrepareOnce
CHECK_DEADLOCK FALSE
