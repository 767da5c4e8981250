SPECIFICATION Spec
CONSTANTS
  v1 = v1
  v2 = v2
  r1 = r1
  r2 = r2
  a = a
  b = b
  Revisions <- MCRevisions
  Bodies <- MCBodies
  Candidates <- MCCandidates
  Packages <- TwoReleases
  Initial <- MCInitial
  Absent = Absent
  NoSpec = NoSpec
  Processes = {p1}
  MaxFaults = 0
SYMMETRY Symmetry
INVARIANTS PriorRetained
