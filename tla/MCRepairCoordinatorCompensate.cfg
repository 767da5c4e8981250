SPECIFICATION Spec
CONSTANTS
  v1 = v1
  r1 = r1
  r2 = r2
  Competitors = {c1}
  Revisions <- MCRevisions
  Baseline = v1
  None = None
  Nobody = Nobody
  Workers = {w1}
  Operators = {o1}
  MaxRepairs = 1
  MaxRollbacks = 1
  MaxFaults = 1
PROPERTIES RollbackGoesBack
CHECK_DEADLOCK FALSE
