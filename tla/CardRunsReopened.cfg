CONSTANTS
  Cards = {c1}
  NoCard = NoCard
  Tasks = {t1, t2}
  MaxConcurrent = 2
  MaxAttempts = 2
  Verbs = {"dispatch", "changes"}
  PatchTargets = {}
  Faults = {}
  Verdicts = {"work"}
  MaxCalls = 1
  MaxRestarts = 1
SPECIFICATION Spec
PROPERTIES InertUntilDispatched
CHECK_DEADLOCK FALSE
