CONSTANTS
  Operators = {o1, o2}
  DbRestores = {t1, t2}
  Databases = {d1}
  Faults = {"api", "lost", "restart", "lapse", "edit", "delete", "sql"}
  Budget = 1
  None = None
  Kinds <- AllKinds
  Allowed <- Bounds
  Into <- IntoOne
  Configs <- SomeConfigs
SPECIFICATION Spec
CHECK_DEADLOCK FALSE
INVARIANTS PlayedOnce IInv
PROPERTIES CompletedIsPlayed OneOutcome
SYMMETRY Symmetry
