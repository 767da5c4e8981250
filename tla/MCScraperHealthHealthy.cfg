SPECIFICATION Spec
CONSTANTS
  Pages = {"good"}
  Targets = {t1, t2}
  Workers = {w1, w2}
  Actors = {a1}
  Threshold = 2
  MinDistinct = 2
  MaxRepairs = 1
  MaxFaults = 0
INVARIANTS FailureShows
