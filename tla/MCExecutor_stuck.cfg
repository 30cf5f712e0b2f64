\* A suite with limit 0 never ends: the run cannot end, so deadlock is not an error.
SPECIFICATION FairSpec
CONSTANTS
  a = a
  b = b
  c = c
  a1 = a1
  a2 = a2
  a3 = a3
  a4 = a4
  b1 = b1
  c1 = c1
  c2 = c2
  Written <- StuckWritten
  Suites <- StuckSuites
  Tests <- StuckTests
  SuiteOf <- StuckSuiteOf
  MaxConcurrency <- StuckMaxConcurrency
  FailFast <- StuckFailFast
  SkippedCount <- StuckSkippedCount
  GlobalCap = 1
PROPERTY
  SuiteEnds
CHECK_DEADLOCK FALSE
