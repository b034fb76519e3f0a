CONSTANTS
  Cards = {c1}
  NoCard = NoCard
  Tasks = {t1, t2}
  MaxConcurrent = 2
  MaxAttempts = 1
  Verbs = {"auto", "halt"}
  PatchTargets = {}
  Faults = {}
  Verdicts = {}
  MaxCalls = 1
  MaxRestarts = 0
SPECIFICATION Spec
SYMMETRY AnyTask
INVARIANTS RunIsWhereTheCardSays
CHECK_DEADLOCK FALSE
