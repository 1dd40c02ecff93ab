SPECIFICATION Spec
CONSTANTS
  Requests = {r1}
  NoTrace = NoTrace
  MaxFresh = 1
INVARIANT DetailMasked
CHECK_DEADLOCK FALSE
