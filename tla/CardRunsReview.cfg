CONSTANTS
  Cards = {c1}
  NoCard = NoCard
  Tasks = {t1, t2}
  MaxConcurrent = 2
  MaxAttempts = 1
  Verbs = {"dispatch", "cut", "unarchive", "approve", "merge", "feedback", "patch"}
  PatchTargets = {"Backlog"}
  Faults = {}
  Verdicts = {"work"}
  MaxCalls = 1
  MaxRestarts = 0
SPECIFICATION Spec
SYMMETRY AnyTask
PROPERTIES ReclaimAfterWindDown
CHECK_DEADLOCK FALSE
