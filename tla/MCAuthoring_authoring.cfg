CONSTANTS
  Uri <- SomeUris
  Lists <- SomeLists
  Edits <- OtherLists
  Instances <- SomeInstances
  Hashes <- SomeHashes
  MaxResources = 4
  MaxResourceBytes = 8
  MaxAggregateBytes = 16
  MaxAggregateNodes = 16
  MaxAggregateReferences = 2
  MaxInstanceBytes = 2
  MaxInstanceNodes = 5
  MaxInstanceDepth = 3
  MaxInstanceWork = 200
  NoSet = NoSet
  NoPin = NoPin
  NoHandle = NoHandle
  Longest = 2
  CatalogTexts <- SomeCatalogs
  ClassLists <- SomeClassLists
  Manifests <- SomeManifests
  Unpublished = Unpublished
  Malformed = Malformed
  Sources <- SomeSources
  SourceEdits <- OtherSources
  Spellings = {"b1", "b1/", "b2", "bad"}
  NormalBase <- SomeNormalBase
  Samples <- SomeSamples
  Capturable <- Captures
  Lowerable <- Lowers
  LoweredTo <- Lowered
  Admitted <- Admits
  Copyable <- Copies
  Unlowered <- LoweringError
  Misshapen <- ShapeError
  Null = Null
  Unwritable = Unwritable
  MaxSchemaNodes = 6
  MaxSchemaDepth = 4
  WrittenTo <- Written
  MaxDeclarations = 2
  MaxNodes = 5
  NoInventory = NoInventory
  Root = "root"
  MaxValues = 5
  MaxDepth = 2
  MaxTextUnits = 5
  MaxTypeNodes = 5
  MaxTypeDepth = 2
  MaxUnion = 2
  AllowLists <- SomeOffers
  OfferEdits <- SmallOffers
  SupportedKeywords = {"type", "const", "enum", "properties", "required", "items", "additionalProperties", "title",
                       "$defs", "$ref", "prefixItems"}
  Foreign = Foreign
  JsonTexts <- SomeTexts
  MaxNesting = 2
  Unparsed = Unparsed
SPECIFICATION MCSpec
INVARIANTS
  ResourcesInv
  NothingSoundRefused
  JudgedBySchema
  CatalogIsWhole
  BoundsAreExact
PROPERTIES
  PreparesWholeSet
  ActionsPreparedOnce
CHECK_DEADLOCK FALSE
