------------------------------ MODULE Executor ------------------------------
(***************************************************************************)
(* The execution engine (moss_ci/engine/executor.py): Executor.execute      *)
(* gathers one coroutine per suite; a suite makes one asyncio task per      *)
(* test; a test's task takes a permit of its suite's semaphore, then one    *)
(* of the executor's global semaphore if there is one, runs the test and    *)
(* gives both back.  A fail-fast suite that sees a failure cancels the      *)
(* tests that have not ended and waits for them.                            *)
(*                                                                          *)
(* One action is what one coroutine does between two awaits.  The event     *)
(* loop may run ready coroutines in any order.  asyncio.Semaphore is        *)
(* external: a waiter may take a permit whenever one is free (asyncio       *)
(* serves waiters first come, first served, which is one of those orders,   *)
(* and takes back the permit of a waiter cancelled before it resumes).      *)
(***************************************************************************)
EXTENDS Integers, FiniteSets

CONSTANTS
  Suites,          \* the SuitePlans of the ExecutionPlan
  Tests,           \* the TestPlans of all suites
  SuiteOf,         \* the suite of each test
  MaxConcurrency,  \* SuitePlan.max_concurrency: an int the YAML does not restrict
  FailFast,        \* SuitePlan.fail_fast
  SkippedCount,    \* SuitePlan.skipped_count
  GlobalCap        \* Executor(max_concurrency); 0 stands for None: no global cap

ASSUME ExecutorAssumption ==
  /\ IsFiniteSet(Tests)
  /\ SuiteOf \in [Tests -> Suites]
  /\ MaxConcurrency \in [Suites -> Int]
  /\ FailFast \in [Suites -> BOOLEAN]
  /\ SkippedCount \in [Suites -> Nat]
  /\ GlobalCap \in Nat

VARIABLES
  suite,       \* phase of each _execute_suite coroutine
  pending,     \* its local variable pending: the tasks not collected yet
  suiteFree,   \* value of its semaphore
  task,        \* phase of each test's task, or the outcome it returned
  cancelling,  \* the tasks whose cancel() has been called
  globalFree,  \* value of Executor._semaphore
  report,      \* the SuiteResult of each suite, once it has one
  status       \* status of the PipelineResult; "crashed": execute itself raised

vars == <<suite, pending, suiteFree, task, cancelling, globalFree, report, status>>

-----------------------------------------------------------------------------
\* The status of a TestResult; "raised" is an exception that left the task.
Outcomes == {"pass", "fail", "error", "flake", "skipped", "raised"}

\* is_fail of the fail-fast check: flake and skipped are not failures.
Failing == {"fail", "error", "raised"}

\* A task that is not done: not at the suite's semaphore yet or waiting for it;
\* holding the suite's permit and waiting for a global one; running its test.
Active == {"scheduled", "queued", "running"}

\* task.done(); a cancelled task is done without an outcome.
TaskDone == Outcomes \cup {"cancelled"}

SuiteDone == {"returned", "cancelled", "raised"}

\* The tests of a suite.
TestsOf(s) == {t \in Tests : SuiteOf[t] = s}

Reports == [total : Nat, passed : Nat, failed : Nat, error : Nat,
            skipped : Nat, flake : Nat]

\* A SuiteResult with its defaults.
NoReport == [total |-> 0, passed |-> 0, failed |-> 0, error |-> 0,
             skipped |-> 0, flake |-> 0]

Count(s, O) == Cardinality({t \in TestsOf(s) : task[t] \in O})

\* The SuiteResult that _execute_suite returns.  No branch counts "flake".
SuiteReport(s) ==
  [total   |-> Cardinality(TestsOf(s)),
   passed  |-> Count(s, {"pass"}),
   failed  |-> Count(s, {"fail"}),
   error   |-> Count(s, {"error", "raised"}),
   skipped |-> SkippedCount[s] + Count(s, {"skipped"}),
   flake   |-> 0]

\* The SuiteResult that execute makes for a suite that raised an Exception.
ErrorReport(s) ==
  [total |-> Cardinality(TestsOf(s)), passed |-> 0, failed |-> 0,
   error |-> Cardinality(TestsOf(s)), skipped |-> 0, flake |-> 0]
-----------------------------------------------------------------------------
Init ==
  /\ suite      = [s \in Suites |-> "created"]
  /\ pending    = [s \in Suites |-> {}]
  /\ suiteFree  = [s \in Suites |-> 0]
  /\ task       = [t \in Tests |-> "none"]
  /\ cancelling = {}
  /\ globalFree = GlobalCap
  /\ report     = [s \in Suites |-> NoReport]
  /\ status     = "running"

\* asyncio.Semaphore(negative) raises ValueError before any task exists.
RefuseSuite(s) ==
  /\ suite[s] = "created"
  /\ MaxConcurrency[s] < 0
  /\ suite' = [suite EXCEPT ![s] = "raised"]
  /\ UNCHANGED <<pending, suiteFree, task, cancelling, globalFree, report, status>>

\* The end of _execute_suite, reached when nothing is pending: no await
\* separates it from what emptied pending.
ReturnSuite(s) ==
  /\ suite' = [suite EXCEPT ![s] = "returned"]
  /\ report' = [report EXCEPT ![s] = SuiteReport(s)]

\* The semaphore and one task per test; a suite with no test returns at once.
StartSuite(s) ==
  /\ suite[s] = "created"
  /\ MaxConcurrency[s] >= 0
  /\ suiteFree' = [suiteFree EXCEPT ![s] = MaxConcurrency[s]]
  /\ pending' = [pending EXCEPT ![s] = TestsOf(s)]
  /\ task' = [t \in Tests |-> IF SuiteOf[t] = s THEN "scheduled" ELSE task[t]]
  /\ \/ /\ TestsOf(s) = {}
        /\ ReturnSuite(s)
     \/ /\ TestsOf(s) # {}
        /\ suite' = [suite EXCEPT ![s] = "waiting"]
        /\ UNCHANGED report
  /\ UNCHANGED <<cancelling, globalFree, status>>

\* The done set that asyncio.wait(pending, FIRST_COMPLETED) returns.
Arrived(s) == {t \in pending[s] : task[t] \in TaskDone}

\* Mutated Stops: any result but a pass stops a fail-fast suite.
StopsAtAnyButPass(s) == FailFast[s] /\ \E t \in Arrived(s) : task[t] # "pass"

\* Whether that set makes the suite stop.
Stops(s) == FailFast[s] /\ \E t \in Arrived(s) : task[t] \in Failing

\* Mutated Collect: cancels only the tests that already run.
CollectCancelsRunning(s) ==
  /\ suite[s] = "waiting"
  /\ Arrived(s) # {}
  /\ pending' = [pending EXCEPT ![s] = @ \ Arrived(s)]
  /\ cancelling' = IF Stops(s)
                   THEN cancelling \cup {t \in pending[s] : task[t] = "running"}
                   ELSE cancelling
  /\ \/ /\ pending[s] = Arrived(s)
        /\ ReturnSuite(s)
     \/ /\ pending[s] # Arrived(s)
        /\ suite' = [suite EXCEPT ![s] = IF Stops(s) THEN "draining" ELSE "waiting"]
        /\ UNCHANGED report
  /\ UNCHANGED <<suiteFree, task, globalFree, status>>

\* One turn of the while loop, up to its next await: record what arrived; at
\* the first failure of a fail-fast suite cancel all that is still pending and
\* go on to drain it.
Collect(s) ==
  /\ suite[s] = "waiting"
  /\ Arrived(s) # {}
  /\ pending' = [pending EXCEPT ![s] = @ \ Arrived(s)]
  /\ cancelling' = IF Stops(s) THEN cancelling \cup (pending[s] \ Arrived(s))
                   ELSE cancelling
  /\ \/ /\ pending[s] = Arrived(s)
        /\ ReturnSuite(s)
     \/ /\ pending[s] # Arrived(s)
        /\ suite' = [suite EXCEPT ![s] = IF Stops(s) THEN "draining" ELSE "waiting"]
        /\ UNCHANGED report
  /\ UNCHANGED <<suiteFree, task, globalFree, status>>

\* Mutated Drain: does not wait for the tests it cancelled.
DrainWithoutWait(s) ==
  /\ suite[s] = "draining"
  /\ pending' = [pending EXCEPT ![s] = {}]
  /\ suite' = [suite EXCEPT ![s] = "cancelled"]
  /\ UNCHANGED <<report, suiteFree, task, cancelling, globalFree, status>>

\* asyncio.wait(pending) returns when every cancelled task is done.  exception()
\* of a cancelled task raises CancelledError, which leaves _execute_suite; the
\* suite returns only if every task got to its end in spite of the cancel().
Drain(s) ==
  /\ suite[s] = "draining"
  /\ Arrived(s) = pending[s]
  /\ pending' = [pending EXCEPT ![s] = {}]
  /\ \/ /\ \E t \in pending[s] : task[t] = "cancelled"
        /\ suite' = [suite EXCEPT ![s] = "cancelled"]
        /\ UNCHANGED report
     \/ /\ \A t \in pending[s] : task[t] # "cancelled"
        /\ ReturnSuite(s)
  /\ UNCHANGED <<suiteFree, task, cancelling, globalFree, status>>
-----------------------------------------------------------------------------
\* Mutated EnterSuite: does not wait for a free permit.
EnterSuiteUnchecked(t) ==
  /\ task[t] = "scheduled"
  /\ t \notin cancelling
  /\ suiteFree' = [suiteFree EXCEPT ![SuiteOf[t]] = @ - 1]
  /\ task' = [task EXCEPT ![t] = IF GlobalCap = 0 THEN "running" ELSE "queued"]
  /\ UNCHANGED <<suite, pending, cancelling, globalFree, report, status>>

\* async with semaphore: the suite's permit first.
EnterSuite(t) ==
  /\ task[t] = "scheduled"
  /\ t \notin cancelling
  /\ suiteFree[SuiteOf[t]] > 0
  /\ suiteFree' = [suiteFree EXCEPT ![SuiteOf[t]] = @ - 1]
  /\ task' = [task EXCEPT ![t] = IF GlobalCap = 0 THEN "running" ELSE "queued"]
  /\ UNCHANGED <<suite, pending, cancelling, globalFree, report, status>>

\* async with self._semaphore: then a global one, if there is a global cap.
EnterGlobal(t) ==
  /\ task[t] = "queued"
  /\ t \notin cancelling
  /\ globalFree > 0
  /\ globalFree' = globalFree - 1
  /\ task' = [task EXCEPT ![t] = "running"]
  /\ UNCHANGED <<suite, pending, suiteFree, cancelling, report, status>>

\* Mutated Release: a task cancelled between its two permits keeps the first.
ReleaseOnlyRunning(t) ==
  /\ suiteFree' = IF task[t] = "running"
                  THEN [suiteFree EXCEPT ![SuiteOf[t]] = @ + 1] ELSE suiteFree
  /\ globalFree' = IF task[t] = "running" /\ GlobalCap # 0
                   THEN globalFree + 1 ELSE globalFree

\* Mutated Release: the global permit is kept.
ReleaseSuiteOnly(t) ==
  /\ suiteFree' = IF task[t] \in {"queued", "running"}
                  THEN [suiteFree EXCEPT ![SuiteOf[t]] = @ + 1] ELSE suiteFree
  /\ UNCHANGED globalFree

\* Leaving the async with blocks: the permits a task holds in its phase.
Release(t) ==
  /\ suiteFree' = IF task[t] \in {"queued", "running"}
                  THEN [suiteFree EXCEPT ![SuiteOf[t]] = @ + 1] ELSE suiteFree
  /\ globalFree' = IF task[t] = "running" /\ GlobalCap # 0
                   THEN globalFree + 1 ELSE globalFree

\* _execute_test returns, or an exception leaves it.  A cancel() does not rule
\* this out: asyncio.wait_for (3.11) around the Moss call returns the result of
\* a call that had ended when the cancel arrived, and the test goes on.
Finish(t, o) ==
  /\ task[t] = "running"
  /\ task' = [task EXCEPT ![t] = o]
  /\ Release(t)
  /\ UNCHANGED <<suite, pending, cancelling, report, status>>

\* CancelledError raised at the await the task is at; _run_test_once and the
\* async with blocks let it through.
Unwind(t) ==
  /\ t \in cancelling
  /\ task[t] \in Active
  /\ task' = [task EXCEPT ![t] = "cancelled"]
  /\ Release(t)
  /\ UNCHANGED <<suite, pending, cancelling, report, status>>
-----------------------------------------------------------------------------
\* Mutated StatusOf: errors do not count.
StatusOfFailedOnly(rep) ==
  IF \E s \in Suites : suite[s] = "cancelled" THEN "crashed"
  ELSE IF \A s \in Suites : rep[s].failed = 0 THEN "success" ELSE "failed"

\* What execute does with the suites' results, given by suite name.  gather
\* hands a CancelledError on as a result; it is no Exception, is appended to
\* results, and r.passed of it raises AttributeError.
StatusOf(rep) ==
  IF \E s \in Suites : suite[s] = "cancelled" THEN "crashed"
  ELSE IF \A s \in Suites : rep[s].failed = 0 /\ rep[s].error = 0
       THEN "success" ELSE "failed"

\* Mutated Aggregate: concludes at the first suite that ends.
AggregateEarly ==
  /\ status = "running"
  /\ \E s \in Suites : suite[s] \in SuiteDone
  /\ report' = [s \in Suites |-> IF suite[s] = "raised" THEN ErrorReport(s)
                                 ELSE report[s]]
  /\ status' = StatusOf(report')
  /\ UNCHANGED <<suite, pending, suiteFree, task, cancelling, globalFree>>

\* The rest of execute, once gather has every suite's result.
Aggregate ==
  /\ status = "running"
  /\ \A s \in Suites : suite[s] \in SuiteDone
  /\ report' = [s \in Suites |-> IF suite[s] = "raised" THEN ErrorReport(s)
                                 ELSE report[s]]
  /\ status' = StatusOf(report')
  /\ UNCHANGED <<suite, pending, suiteFree, task, cancelling, globalFree>>

\* The run is over.
Over ==
  /\ status # "running"
  /\ UNCHANGED vars

SuiteStep(s) == RefuseSuite(s) \/ StartSuite(s) \/ Collect(s) \/ Drain(s)

TestEnds(t) == \E o \in Outcomes : Finish(t, o)

TaskStep(t) == EnterSuite(t) \/ EnterGlobal(t) \/ TestEnds(t) \/ Unwind(t)

Next ==
  \/ \E s \in Suites : SuiteStep(s)
  \/ \E t \in Tests : TaskStep(t)
  \/ Aggregate
  \/ Over

Spec == Init /\ [][Next]_vars

\* The event loop runs every coroutine that is ready; a Moss call, a judge
\* call and so a test end, every one of them has a timeout.
Fairness ==
  /\ \A s \in Suites : WF_vars(SuiteStep(s))
  /\ \A t \in Tests : /\ WF_vars(EnterSuite(t)) /\ WF_vars(EnterGlobal(t))
                      /\ WF_vars(TestEnds(t))   /\ WF_vars(Unwind(t))
  /\ WF_vars(Aggregate)

FairSpec == Spec /\ Fairness
-----------------------------------------------------------------------------
\* Type invariant of the execution engine's state.
TypeOK ==
  /\ suite \in [Suites -> {"created", "waiting", "draining"} \cup SuiteDone]
  /\ pending \in [Suites -> SUBSET Tests]
  /\ suiteFree \in [Suites -> Nat]
  /\ task \in [Tests -> {"none"} \cup Active \cup TaskDone]
  /\ cancelling \in SUBSET Tests
  /\ globalFree \in Nat
  /\ report \in [Suites -> Reports]
  /\ status \in {"running", "success", "failed", "crashed"}

\* The tests that hold a permit of suite s, and those that hold a global one.
SuiteHolders(s) == {t \in TestsOf(s) : task[t] \in {"queued", "running"}}
GlobalHolders == {t \in Tests : task[t] = "running"}

\* The permits of a suite's semaphore, while there is one, and the global ones.
SuitePermits(s) ==
  suite[s] \notin {"created", "raised"} =>
    suiteFree[s] + Cardinality(SuiteHolders(s)) = MaxConcurrency[s]
GlobalPermits ==
  GlobalCap # 0 => globalFree + Cardinality(GlobalHolders) = GlobalCap

\* max_concurrency of a suite and --concurrency of the run bound the tests that
\* run at once, and no permit is lost or given back twice: whatever finished,
\* was cancelled in whatever phase or raised, the permits held and the permits
\* free add up to the limit (executor.py:57-64).
PermitConservation ==
  /\ \A s \in Suites : SuitePermits(s)
  /\ GlobalPermits

\* A suite that has ended in any way, by a CancelledError included, has no test
\* left that is running or still may run: nothing goes on behind the back of a
\* run that has its verdict (executor.py:97-113).
NoTestOutlivesItsSuite ==
  \A t \in Tests : suite[SuiteOf[t]] \in SuiteDone => task[t] \notin Active

\* Fail-fast is local and has a cause: only a test of a fail-fast suite is ever
\* cancelled, only once a failure of the same suite has been collected, and
\* never a test whose result was already collected (executor.py:91-98).
CancellationHasCause ==
  \A t \in cancelling :
    /\ FailFast[SuiteOf[t]]
    /\ \E u \in TestsOf(SuiteOf[t]) : /\ task[u] \in Failing
                                      /\ u \notin pending[SuiteOf[t]]
                                      /\ u \notin cancelling

\* Once a fail-fast suite has seen a failure none of its tests starts to run,
\* though permits come free while it drains (executor.py:97-98).
NoStartAfterStop ==
  [][\A t \in Tests : task[t] # "running" /\ task'[t] = "running"
                        => suite[SuiteOf[t]] = "waiting"]_vars

\* The verdict speaks for the tests: every test of a run that says success
\* passed, was flaky or was skipped, and every suite reports each of its tests.
SuccessMeansNoFailure ==
  status = "success" =>
    \A t \in Tests : /\ task[t] \in {"pass", "flake", "skipped"}
                     /\ suite[SuiteOf[t]] = "returned"
                     /\ report[SuiteOf[t]].total = Cardinality(TestsOf(SuiteOf[t]))

\* Every suite whose limit lets a test run gets to its end, also while another
\* suite of the run, with limit 0, waits for ever: a test waits for its suite's
\* permit before it takes a global one, never the other way (executor.py:60-62).
SuiteEnds ==
  \A s \in Suites :
    MaxConcurrency[s] # 0 \/ TestsOf(s) = {} => <>(suite[s] \in SuiteDone)

\* If no suite has limit 0 the run ends with a verdict or a crash.
RunEnds ==
  (\A s \in Suites : MaxConcurrency[s] # 0) => <>(status # "running")

\* A task's outcome as RunContract sees it: when it is done, collected or not.
OutcomeOf(t) ==
  IF task[t] \in Outcomes THEN task[t]
  ELSE IF task[t] = "cancelled" THEN "cut" ELSE "open"

\* The engine keeps the promise of a run (engine/executor.py:27-141).
Contract == INSTANCE RunContract
              WITH outcome <- [t \in Tests |-> OutcomeOf(t)], verdict <- status
KeepsContract == Contract!Spec

\* executor.py:100: "Drain the cancelled tasks so their results are recorded."
\* A suite that stopped at a failure ends with a SuiteResult.
StoppedSuiteReports == \A s \in Suites : suite[s] # "cancelled"
==============================================================================
