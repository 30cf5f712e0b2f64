----------------------------- MODULE RunContract -----------------------------
(***************************************************************************)
(* What one pipeline run promises to whoever started it (moss-ci run, or    *)
(* POST /api/pipelines/run), with no task, semaphore or event loop in       *)
(* sight: a test settles at most once, a test is cut short only on account  *)
(* of a failure in its own fail-fast suite, and the verdict of the run is   *)
(* decided only when every test that can run has settled, and by the        *)
(* settled tests alone.  Executor implements it.                            *)
(***************************************************************************)
EXTENDS Integers

CONSTANTS
  Suites,          \* the suites of the plan
  Tests,           \* the tests of all suites
  SuiteOf,         \* the suite of each test
  MaxConcurrency,  \* the limit of each suite; a negative one is refused
  FailFast         \* whether a suite stops at its first failure

VARIABLES
  outcome,  \* what each test settled on, or "open"
  verdict   \* status of the run, or "running"

vars == <<outcome, verdict>>

\* The status of a TestResult; "raised" is an exception that left the test's task.
Outcomes == {"pass", "fail", "error", "flake", "skipped", "raised"}

\* The outcomes that stop a fail-fast suite and turn a run red.
Failing == {"fail", "error", "raised"}

\* An asyncio.Semaphore with a negative value cannot be made.
Refused(s) == MaxConcurrency[s] < 0

Init ==
  /\ outcome = [t \in Tests |-> "open"]
  /\ verdict = "running"

\* A test reports its outcome.
Report(t, o) ==
  /\ verdict = "running"
  /\ ~Refused(SuiteOf[t])
  /\ outcome[t] = "open"
  /\ outcome' = [outcome EXCEPT ![t] = o]
  /\ UNCHANGED verdict

\* A test is cut short: its suite stops at failures and has seen one.
Cut(t) ==
  /\ verdict = "running"
  /\ outcome[t] = "open"
  /\ FailFast[SuiteOf[t]]
  /\ \E u \in Tests : SuiteOf[u] = SuiteOf[t] /\ outcome[u] \in Failing
  /\ outcome' = [outcome EXCEPT ![t] = "cut"]
  /\ UNCHANGED verdict

\* The verdict that the settled tests call for.  A test of a refused suite
\* counts as an error; a run with a test cut short has no verdict but a crash.
Verdict ==
  IF \E t \in Tests : outcome[t] = "cut" THEN "crashed"
  ELSE IF \E t \in Tests : outcome[t] \in Failing \/ Refused(SuiteOf[t])
       THEN "failed" ELSE "success"

Conclude ==
  /\ verdict = "running"
  /\ \A t \in Tests : outcome[t] # "open" \/ Refused(SuiteOf[t])
  /\ verdict' = Verdict
  /\ UNCHANGED outcome

Next ==
  \/ \E t \in Tests, o \in Outcomes : Report(t, o)
  \/ \E t \in Tests : Cut(t)
  \/ Conclude

Spec == Init /\ [][Next]_vars
==============================================================================
