SPECIFICATION Spec
CONSTANTS
  Requests = {r1, r2}
  NoTrace = NoTrace
  MaxFresh = 2
SYMMETRY Symmetric
INVARIANTS
  TypeOK
  OneTrace
  OneAnswer
  MessageMasked
  FallbackCorsSound
CHECK_DEADLOCK FALSE
