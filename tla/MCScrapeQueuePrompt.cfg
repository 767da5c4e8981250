\* Prompt event loops and a lease of two renewal periods.
SPECIFICATION Spec
CONSTANTS
  Targets = {t1}
  Workers = {w1, w2, w3}
  Clients = {c1}
  Prices = {2}
  Plausible <- MCPlausible
  NoPrice = NoPrice
  NoTarget = NoTarget
  MaxJobs = 2
  MaxFaults = 3
  Lease = 4
  Margin = 1
  RenewEvery = 2
  Interval = 1
  PromptTimers = TRUE
SYMMETRY WorkerSymmetry
INVARIANT NoConcurrentFetch
