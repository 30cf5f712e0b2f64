\* Three jobs on two branches and two layers, on one cache.
CONSTANTS
  Jobs = {j1, j2, j3}
  Refs = {main, pull}
  Labels = {"quick", "full"}
  ResultsOf <- TwoLayers
  NoRun = NoRun
  NoResult = NoResult
  NoScore = NoScore
  Threshold = 5
SPECIFICATION Spec
INVARIANTS
  TypeOK
  BaselinesAreRunsOfTheRef
  BaselinesAreEarlier
  EveryResultIsSummarised
  HistoryKeepsRuns
  ReportedChangesAreReal
  RegressionsAreInTheSummary
  ReportReverses
  DiffsAgreeOnStatuses
SYMMETRY Symmetry
