SPECIFICATION Spec
CONSTANTS
  t1 = t1
  t2 = t2
  Thread = {t1, t2}
  Change <- Changes
  MaxPushes = 2
  MaxRuns = 2
  MaxDeaths = 1
  None = None
INVARIANTS
  ReviewTypeOK
  ToldAlike
  GateRespectsVerdict
  GateMonotone
CHECK_DEADLOCK FALSE
