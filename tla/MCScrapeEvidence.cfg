SPECIFICATION Spec
CONSTANTS
  None = None
  Absent = Absent
  Deleted = Deleted
  SymbolLength <- MCSymbolLength
  KnownCurrencies <- MCKnownCurrencies
  Similar <- MCSimilar
  Candidates <- MCCandidates
  ModelAdditions <- MCModelAdditions
  ManualSpecs <- MCManualSpecs
  Rules = {q1}
  Thresholds = {35}
  Results = {1, 2, 3}
  Workers = {w1, w2}
  TargetOf <- MCTargetOf
  TargetInfo <- MCTargetInfo
  Pages <- MCPages
  Content <- MCContent
  Served <- MCServed
  Baseline <- MCBaseline
  MaxFaults = 1
SYMMETRY Symmetry
INVARIANTS TypeOK EvidenceMatches  PriceIsShown ApprovedReads AlertsFollowPrices
PROPERTIES ImplementsPriceLog
CHECK_DEADLOCK FALSE
