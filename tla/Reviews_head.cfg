SPECIFICATION Spec
CONSTANTS
  t1 = t1
  t2 = t2
  Thread = {t1}
  Change <- Changes
  MaxPushes = 2
  MaxRuns = 2
  MaxDeaths = 0
  None = None
INVARIANT HeadIsTheCommitEvaluated
CHECK_DEADLOCK FALSE
