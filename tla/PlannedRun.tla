----------------------------- MODULE PlannedRun ------------------------------
(***************************************************************************)
(* A run of the engine from the suites as they are written: Scheduler.plan  *)
(* (moss_ci/engine/scheduler.py) makes of them the plan that                *)
(* Executor.execute (moss_ci/engine/executor.py) is given.                  *)
(***************************************************************************)
EXTENDS Executor, Scheduler

CONSTANT Written  \* the suites of the run as they are written

\* The tests in the suites' files, the skipped ones included.
WrittenTests ==
  UNION {{Written[s].tests[i].test : i \in DOMAIN Written[s].tests} : s \in Suites}

\* Scheduler.plan: one SuitePlan for each suite.
Plan == [s \in Suites |-> PlanSuite(Written[s])]

\* Each entry of a file is loaded as a TestConfig object of its own, and the
\* engine is given what the Scheduler plans.
ASSUME PlannedAssumption ==
  /\ \A s \in Suites : Written[s].tests \in Seq([test : WrittenTests, skip : BOOLEAN])
  /\ \A s, r \in Suites :
       \A i \in DOMAIN Written[s].tests, j \in DOMAIN Written[r].tests :
         Written[s].tests[i].test = Written[r].tests[j].test => s = r /\ i = j
  /\ Tests = UNION {Plan[s].tests : s \in Suites}
  /\ \A s \in Suites :
       /\ \A t \in Plan[s].tests : SuiteOf[t] = s
       /\ MaxConcurrency[s] = Plan[s].max_concurrency
       /\ FailFast[s] = Plan[s].fail_fast
       /\ SkippedCount[s] = Plan[s].skipped_count

\* The counts of a SuiteResult account for each test its author wrote, the ones
\* dropped at plan time included, but for the flaky ones, which no count has
\* (scheduler.py:59-65, executor.py:115-141).
EveryWrittenTestIsAccounted ==
  \A s \in Suites : suite[s] = "returned" =>
    report[s].passed + report[s].failed + report[s].error + report[s].skipped
      + Cardinality({t \in TestsOf(s) : task[t] = "flake"}) = Len(Written[s].tests)
==============================================================================
