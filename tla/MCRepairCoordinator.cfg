\* Two competitors with one adapter, two workers, one operator.
SPECIFICATION FairSpec
CONSTANTS
  v1 = v1
  r1 = r1
  r2 = r2
  Competitors = {c1, c2}
  Revisions <- MCRevisions
  Baseline = v1
  None = None
  Nobody = Nobody
  Workers = {w1, w2}
  Operators = {o1}
  MaxRepairs = 2
  MaxRollbacks = 1
  MaxFaults = 1
INVARIANTS TypeOK InSync
PROPERTIES OwnerDecides PromotedWasReviewed RepairsDecided ImplementsActiveRevision
CHECK_DEADLOCK FALSE
