CONSTANTS
  Operators = {o1}
  DbRestores = {t1}
  Databases = {d1}
  Faults = {}
  Budget = 0
  None = None
  Kinds <- AllKinds
  Allowed <- Bounds
  Into <- IntoOne
  Configs <- SomeConfigs
SPECIFICATION Spec
CHECK_DEADLOCK FALSE
INVARIANTS DocumentedPlaysBack
