CONSTANTS
  Cards = {c1}
  NoCard = NoCard
  Tasks = {t1, t2}
  MaxConcurrent = 2
  MaxAttempts = 2
  Verbs = {"dispatch", "halt"}
  PatchTargets = {}
  Faults = {}
  Verdicts = {"work"}
  MaxCalls = 1
  MaxRestarts = 0
SPECIFICATION Spec
PROPERTIES ReleasedRunCostsNothing
CHECK_DEADLOCK FALSE
