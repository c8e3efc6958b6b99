SPECIFICATION FairSpec
CONSTANTS
  d1 = d1
  d2 = d2
  b1 = b1
  b2 = b2
  g1 = g1
  w1 = w1
  w2 = w2
  None = None
  ScopeOf <- OneScope
  Deploys = {d1}
  Rollbacks = {b1}
  Gates = {g1}
  Worker = {w1}
  MaxCrashes = 0
PROPERTY
  EveryDeploymentSettles
CHECK_DEADLOCK FALSE
