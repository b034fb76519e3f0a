CONSTANTS
  Cards = {c1}
  NoCard = NoCard
  Tasks = {t1, t2}
  MaxConcurrent = 2
  MaxAttempts = 2
  Verbs = {"dispatch", "park", "answer", "changes", "steer"}
  PatchTargets = {}
  Faults = {"setup"}
  Verdicts = {"ask"}
  MaxCalls = 1
  MaxRestarts = 0
SPECIFICATION Spec
SYMMETRY AnyTask
INVARIANTS TypeOK NoUnwatchedAgent
CHECK_DEADLOCK FALSE
