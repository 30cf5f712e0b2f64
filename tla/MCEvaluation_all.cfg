\* Every evaluator, flake detection and conversations, on small tests.
SPECIFICATION FairSpec
CONSTANTS
  Tests <- SmallTests
  MossReplies <- Replies
  JudgeReplies <- Judged
  NoScore = NoScore
  NoTarget = NoTarget
INVARIANTS
  TypeOK
  AnyOrderCounts
  JudgeNeverFakesAPass
PROPERTIES
  KeepsTestExecution
  LaterTurnsNeverHurt
