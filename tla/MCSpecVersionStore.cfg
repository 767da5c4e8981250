SPECIFICATION Spec
CONSTANTS
  v1 = v1
  v2 = v2
  r1 = r1
  r2 = r2
  a = a
  b = b
  Revisions <- MCRevisions
  Bodies <- MCBodies
  Candidates <- MCCandidates
  Packages <- TwoReleases
  Initial <- MCInitial
  Absent = Absent
  NoSpec = NoSpec
  Processes = {p1, p2}
  MaxFaults = 1
SYMMETRY Symmetry
INVARIANTS TypeOK StateResolves PointFresh
PROPERTIES ImplementsActiveRevision
