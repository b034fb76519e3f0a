CONSTANTS
  Cards = {c1}
  NoCard = NoCard
  Tasks = {t1, t2}
  MaxConcurrent = 2
  MaxAttempts = 2
  Verbs = {"dispatch", "answer"}
  PatchTargets = {}
  Faults = {}
  Verdicts = {"ask"}
  MaxCalls = 1
  MaxRestarts = 0
SPECIFICATION Spec
PROPERTIES VerdictSettlesOneRun
CHECK_DEADLOCK FALSE
