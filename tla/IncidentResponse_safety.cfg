SPECIFICATION IncidentSpec
CONSTANTS
  d1 = d1
  r1 = r1
  r2 = r2
  q1 = q1
  i1 = i1
  w1 = w1
  w2 = w2
  None = None
  ScopeOf <- OneScope
  Deploys = {d1}
  Rollbacks = {r1, r2}
  Diagnoses = {q1}
  Incidents = {i1}
  Gates = {}
  Worker = {w1, w2}
  MaxCrashes = 1
INVARIANTS
  IncidentTypeOK
  LedgerExplainsIncident
  RecoveryFollowsRollback
  OnePostmortem
CHECK_DEADLOCK FALSE
SYMMETRY Symmetry
