\* Liveness: every queued row finishes, under the fairness of FairSpec.
SPECIFICATION FairSpec
CONSTANTS
  Targets = {t1}
  Workers = {w1, w2}
  Clients = {c1}
  Prices = {2, 5}
  Plausible <- MCPlausible
  NoPrice = NoPrice
  NoTarget = NoTarget
  MaxJobs = 2
  MaxFaults = 2
  Lease = 3
  Margin = 1
  RenewEvery = 1
  Interval = 1
  PromptTimers = FALSE
PROPERTY JobsFinish
