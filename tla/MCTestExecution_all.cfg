\* Every small plan.
SPECIFICATION FairSpec
CONSTANT
  Plans <- AllPlans
INVARIANTS
  TypeOK
  PassHidesNothing
  SkippedMeansNoVerdict
  BetterRunsNeverHurt
PROPERTY
  TestEnds
