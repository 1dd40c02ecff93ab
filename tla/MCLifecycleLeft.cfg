SPECIFICATION Spec
CONSTANTS
  Settings <- SomeSettings
  Users = {u1}
  Nothing = Nothing
  Gone = Gone
  MaxPools = 2
  MaxOthers = 1
INVARIANT EngineReleasesAll
CHECK_DEADLOCK FALSE
