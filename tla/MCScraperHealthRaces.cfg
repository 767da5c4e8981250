SPECIFICATION Spec
CONSTANTS
  Pages = {"unstable"}
  Targets = {t1, t2}
  Workers = {w1, w2}
  Actors = {a1}
  Threshold = 2
  MinDistinct = 2
  MaxRepairs = 2
  MaxFaults = 1
SYMMETRY Symmetry
INVARIANTS TypeOK InsertUncontested
PROPERTIES CooldownKept
