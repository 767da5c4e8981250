\* Three faults: enough for a lease to run out behind the back of a worker
\* that has its page, and for another worker to take the job over.  Two clients
\* race for the row of the target.
SPECIFICATION Spec
CONSTANTS
  Targets = {t1}
  Workers = {w1, w2}
  Clients = {c1, c2}
  Prices = {2, 5}
  Plausible <- MCPlausible
  NoPrice = NoPrice
  NoTarget = NoTarget
  MaxJobs = 3
  MaxFaults = 3
  Lease = 3
  Margin = 1
  RenewEvery = 1
  Interval = 1
  PromptTimers = FALSE
SYMMETRY Symmetry
INVARIANTS TypeOK OneActiveJob HistoryChain ChangesValidated ObservedOnce
PROPERTIES FinishedByOwner ImplementsPriceLog
