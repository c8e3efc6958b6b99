SPECIFICATION MCSpec
CONSTANTS
  Missing = Missing
  Task = {"code_review", "security_review", "run_tests", "risk_assessment"}
  MaxRetries = 2
  MaxConcurrency = 3
INVARIANTS
  ValidationCorrect
  DependenciesFirst
  FailuresExplained
  PrTypeOK
  EvidenceMatchesGraph
  RiskSeesTheDiff
  ReleaseIsGuarded
PROPERTIES
  ExecutionSpec
  Terminates
  EvaluationReports
CHECK_DEADLOCK FALSE
