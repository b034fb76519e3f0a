CONSTANTS
  Cards = {c1}
  NoCard = NoCard
  Tasks = {t1, t2}
  MaxConcurrent = 2
  MaxAttempts = 2
  Verbs = {"dispatch", "cut"}
  PatchTargets = {}
  Faults = {}
  Verdicts = {}
  MaxCalls = 1
  MaxRestarts = 0
SPECIFICATION Spec
PROPERTIES RetiredStaysCut
CHECK_DEADLOCK FALSE
