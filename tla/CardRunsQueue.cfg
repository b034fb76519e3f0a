CONSTANTS
  Cards = {c1, c2}
  NoCard = NoCard
  Tasks = {t1}
  MaxConcurrent = 1
  MaxAttempts = 1
  Verbs = {"dispatch"}
  PatchTargets = {}
  Faults = {}
  Verdicts = {}
  MaxCalls = 0
  MaxRestarts = 0
SPECIFICATION FairSpec
PROPERTIES QueueIsServed
CHECK_DEADLOCK FALSE
