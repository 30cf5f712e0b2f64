\* One conversation in a directory of its own.
SPECIFICATION Spec
CONSTANTS
  talk = talk
  prompt = prompt
  d1 = d1
  d2 = d2
  Runs <- StagedRuns
  Turns <- StagedTurns
  Dirs <- AllDirs
  Placements <- StagedPlacements
  Limits = {1}
INVARIANT
  OnlyItsOwnSession
