SPECIFICATION Spec
CONSTANTS
  Threads = {loop, w1}
  Loop = loop
  NoThread = NoThread
  Requests <- SomeRequests
  Texts <- SomeTexts
  Address <- SomeAddress
  Malformed = "junk"
  Unknown = "0.0.0.0"
  Inner = {"0.0.0.0"}
  Version <- SomeVersion
  RegionOf <- SomeRegion
  InnerLabel = "inner"
  None = "none"
  Enabled = TRUE
  CacheSize = 2
INVARIANTS
  TypeOK
  LoadedOnce
  RegionsAreTrue
PROPERTY EveryLookupReturns
CHECK_DEADLOCK FALSE
