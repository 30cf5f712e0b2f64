------------------------------ MODULE Scheduler ------------------------------
(***************************************************************************)
(* How a suite as its author wrote it becomes the SuitePlan that the engine  *)
(* is given: Scheduler.plan (moss_ci/engine/scheduler.py) on the suite model *)
(* of moss_ci/models/pipeline.py.                                            *)
(*                                                                          *)
(* A suite is [config, tests]; its optional config is a sequence of at most *)
(* one record, tests a sequence of [test, skip].  The timeout and retry that *)
(* a TestPlan carries too are read by nobody and are left out.              *)
(***************************************************************************)
EXTENDS Integers, Sequences, FiniteSets

\* The value of a field of a suite's config; a suite without config has the default.
Setting(s, field, default) == IF s.config = << >> THEN default ELSE s.config[1][field]

\* The places of the tests that are planned, and of those with skip: true.
Kept(s) == {i \in DOMAIN s.tests : ~s.tests[i].skip}
Dropped(s) == {i \in DOMAIN s.tests : s.tests[i].skip}

\* Mutated PlanSuite: a test counts as skipped only if no test runs after it.
PlanSuiteTrailing(s) ==
  [tests           |-> {s.tests[i].test : i \in Kept(s)},
   max_concurrency |-> Setting(s, "max_concurrency", 10),
   fail_fast       |-> Setting(s, "fail_fast", TRUE),
   skipped_count   |-> Cardinality({i \in DOMAIN s.tests :
                                      \A k \in i..Len(s.tests) : k \in Dropped(s)})]

\* _plan_suite: tests with skip: true are not planned, only counted.
PlanSuite(s) ==
  [tests           |-> {s.tests[i].test : i \in Kept(s)},
   max_concurrency |-> Setting(s, "max_concurrency", 10),
   fail_fast       |-> Setting(s, "fail_fast", TRUE),
   skipped_count   |-> Cardinality(Dropped(s))]
==============================================================================
