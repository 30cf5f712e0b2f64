\* Two runs, three calls, every placement and limit.
SPECIFICATION FairSpec
CONSTANTS
  talk = talk
  prompt = prompt
  d1 = d1
  d2 = d2
  Runs <- AllRuns
  Turns <- AllTurns
  Dirs <- AllDirs
  Placements <- AllPlacements
  Limits = {1, 2}
INVARIANTS
  TypeOK
  OnlyOverlapMisattributes
  TakenOnce
  NoSessionLost
PROPERTY
  RunEnds
