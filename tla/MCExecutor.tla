----------------------------- MODULE MCExecutor -----------------------------
(***************************************************************************)
(* The engine on small runs, from the suites as they are written: what the   *)
(* Scheduler plans is what Executor is given.                               *)
(*   executor_run      two suites that can run, limited by a global cap, one *)
(*                     fail-fast and one not, and an empty refused one      *)
(*   executor_stuck    a suite with limit 0 beside one that can run and one  *)
(*                     without a config, whose tests are all to be skipped   *)
(***************************************************************************)
EXTENDS PlannedRun

CONSTANTS
  a, b, c, a1, a2, a3, a4, b1, c1, c2

Runs(t) == [test |-> t, skip |-> FALSE]
Skips(t) == [test |-> t, skip |-> TRUE]
Limited(max, failFast) == << [max_concurrency |-> max, fail_fast |-> failFast] >>

RunWritten ==
  [s \in {a, b, c} |->
     CASE s = a -> [config |-> Limited(2, TRUE),
                    tests  |-> << Runs(a1), Skips(a4), Runs(a2), Runs(a3) >>]
       [] s = b -> [config |-> Limited(1, FALSE), tests |-> << Runs(b1) >>]
       [] OTHER -> [config |-> Limited(-1, FALSE), tests |-> << >>]]

StuckWritten ==
  [s \in {a, b, c} |->
     CASE s = a -> [config |-> Limited(1, TRUE), tests |-> << Runs(a1), Runs(a2) >>]
       [] s = b -> [config |-> Limited(0, TRUE), tests |-> << Runs(b1) >>]
       [] OTHER -> [config |-> << >>, tests |-> << Skips(c1), Skips(c2) >>]]

\* What the Scheduler makes of them are the constants of Executor.
PlannedTests(plan) == UNION {plan[s].tests : s \in DOMAIN plan}
PlannedSuiteOf(plan) ==
  [t \in PlannedTests(plan) |-> CHOOSE s \in DOMAIN plan : t \in plan[s].tests]
Field(plan, f) == [s \in DOMAIN plan |-> plan[s][f]]

RunPlan == [s \in DOMAIN RunWritten |-> PlanSuite(RunWritten[s])]
RunSuites == DOMAIN RunWritten
RunTests == PlannedTests(RunPlan)
RunSuiteOf == PlannedSuiteOf(RunPlan)
RunMaxConcurrency == Field(RunPlan, "max_concurrency")
RunFailFast == Field(RunPlan, "fail_fast")
RunSkippedCount == Field(RunPlan, "skipped_count")

StuckPlan == [s \in DOMAIN StuckWritten |-> PlanSuite(StuckWritten[s])]
StuckSuites == DOMAIN StuckWritten
StuckTests == PlannedTests(StuckPlan)
StuckSuiteOf == PlannedSuiteOf(StuckPlan)
StuckMaxConcurrency == Field(StuckPlan, "max_concurrency")
StuckFailFast == Field(StuckPlan, "fail_fast")
StuckSkippedCount == Field(StuckPlan, "skipped_count")
=============================================================================
