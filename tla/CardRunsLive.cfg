CONSTANTS
  Cards = {c1}
  NoCard = NoCard
  Tasks = {t1}
  MaxConcurrent = 2
  MaxAttempts = 1
  Verbs = {"dispatch", "cut"}
  PatchTargets = {}
  Faults = {"infra"}
  Verdicts = {}
  MaxCalls = 1
  MaxRestarts = 0
SPECIFICATION FairSpec
PROPERTIES SlotIsFreed HeldEnds TerminalIsReaped
CHECK_DEADLOCK FALSE
