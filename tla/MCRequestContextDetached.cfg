SPECIFICATION Spec
CONSTANTS
  Tasks = {t1, t2}
  Managers = {m1, m2}
  Fields = {"tenant"}
  Values = {a}
  Unbound = Unbound
  NoToken = NoToken
  NoTask = NoTask
  NoValue = NoValue
PROPERTY WriteReachesOpenBlock
CHECK_DEADLOCK FALSE
