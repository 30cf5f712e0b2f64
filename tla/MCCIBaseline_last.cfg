\* Which run a layer is compared with, on one branch.
CONSTANTS
  Jobs = {j1, j2, j3}
  Refs = {main}
  Labels = {"quick"}
  ResultsOf <- OneLayer
  NoRun = NoRun
  NoResult = NoResult
  NoScore = NoScore
  Threshold = 5
SPECIFICATION FairSpec
PROPERTIES
  ComparesWithLastRun
