SPECIFICATION Spec
CONSTANTS
  Tasks = {t1, t2, t3}
  Managers = {m1, m2, m3}
  Fields = {"tenant"}
  Values = {a, b}
  Unbound = Unbound
  NoToken = NoToken
  NoTask = NoTask
  NoValue = NoValue
SYMMETRY Symmetric
INVARIANTS
  TypeOK
  InnermostVisible
PROPERTIES
  NoCrossTalk
  ScopeSpec
CHECK_DEADLOCK FALSE
