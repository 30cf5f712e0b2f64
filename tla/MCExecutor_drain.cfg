\* What a drained suite is said to record.
SPECIFICATION Spec
CONSTANTS
  a = a
  b = b
  c = c
  a1 = a1
  a2 = a2
  a3 = a3
  a4 = a4
  b1 = b1
  c1 = c1
  c2 = c2
  Written <- RunWritten
  Suites <- RunSuites
  Tests <- RunTests
  SuiteOf <- RunSuiteOf
  MaxConcurrency <- RunMaxConcurrency
  FailFast <- RunFailFast
  SkippedCount <- RunSkippedCount
  GlobalCap = 2
INVARIANT
  StoppedSuiteReports
