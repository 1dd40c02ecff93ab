SPECIFICATION Spec
CONSTANTS
  Settings <- SomeSettings
  Users = {u1}
  Nothing = Nothing
  Gone = Gone
  MaxPools = 2
  MaxOthers = 1
INVARIANTS
  TypeOK
  ShownAsAsked
  
  TeardownsReported
PROPERTY ShutdownEnds
CHECK_DEADLOCK FALSE
