CONSTANTS
  Cards = {c1}
  NoCard = NoCard
  Tasks = {t1, t2}
  MaxConcurrent = 2
  MaxAttempts = 1
  Verbs = {"dispatch"}
  PatchTargets = {}
  Faults = {"drop", "uncovered", "box"}
  Verdicts = {}
  MaxCalls = 0
  MaxRestarts = 1
SPECIFICATION Spec
SYMMETRY AnyTask
INVARIANTS OneRunPerCard HeldHasDeadline ResumesWhereItLived
PROPERTIES ImplementsLeases
CHECK_DEADLOCK FALSE
