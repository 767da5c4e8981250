SPECIFICATION FairSpec
CONSTANTS
  Pages = {"changed", "fixed"}
  Targets = {t1, t2}
  Workers = {w1, w2}
  Actors = {a1}
  Threshold = 2
  MinDistinct = 3
  MaxRepairs = 1
  MaxFaults = 0
PROPERTIES ChangeGetsRepair HealthRestored
