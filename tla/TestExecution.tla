---------------------------- MODULE TestExecution ----------------------------
(***************************************************************************)
(* One test from the moment its task holds its permits until it has its     *)
(* outcome: Executor._execute_test and _run_test_once                       *)
(* (moss_ci/engine/executor.py), FlakeDetector.detect                       *)
(* (moss_ci/engine/flake.py) and the conversation loop of a Moss backend    *)
(* (moss_ci/runner/base.py).  A test is run once, or flake.runs times; a    *)
(* run calls Moss, once or once per user turn of a conversation, and then   *)
(* puts the output to the test's evaluators.  Executor models all of it as  *)
(* the one step Finish; cancel() reaches it at any of its awaits.           *)
(*                                                                          *)
(* Of a Moss call only its exit code is kept, of an evaluator only whether  *)
(* it passed, failed, was skipped or raised, and whether it is the          *)
(* exit_code check, which the model computes.                               *)
(***************************************************************************)
EXTENDS Integers, FiniteSets, Sequences

CONSTANT Plans  \* the TestPlans that may be executed

\* What a test's YAML and the Scheduler settle.  runs = 1 stands for a test
\* without flake_detection; a prompt or a task is one call, a conversation one
\* per user turn; evals counts the evaluators but for the exit_code check.
\* The timeout and retry that the Scheduler resolves are read by nobody.
ASSUME TestExecutionAssumption ==
  \A p \in Plans :
    /\ p.runs \in Nat \ {0}
    /\ p.pass_threshold \in Nat \ {0}
    /\ p.consensus \in {"majority", "unanimous"}
    /\ p.conversation \in BOOLEAN
    /\ p.turns \in Nat /\ (~p.conversation => p.turns = 1)
    /\ p.evals \in Nat
    /\ p.checksExit \in BOOLEAN

VARIABLES
  plan,    \* the test that is executed
  calls,   \* the Moss calls of the current run, in order
  seen,    \* the calls and the evaluators' answers of the run that ended last
  runs,    \* the status of every run so far
  result   \* the TestResult's status; "none" before, "cancelled" after a cancel

vars == <<plan, calls, seen, runs, result>>

-----------------------------------------------------------------------------
\* How a Moss call ends: exit code 0, or another one; a timeout and a service that
\* cannot be reached are among the others (the backends answer exit code -1).
CallResults == {"ok", "nonzero"}

\* What an evaluator answers; only llm_judge is ever skipped.
Answers == {"passed", "failed", "skipped"}

RunStatuses == {"pass", "fail", "error", "skipped"}

\* The exit code of the MossResult of a run: run_conversation keeps the turns'
\* outputs and tool calls only, so its MossResult has the default exit code.
ExitCodeIsZero(c) == plan.conversation \/ c[1] = "ok"

\* Mutated RunStatus: one skipped evaluator makes the run skipped.
RunStatusAnySkip(c, answers) ==
  IF "skipped" \in answers THEN "skipped"
  ELSE IF answers \subseteq {"passed"} /\ ExitCodeIsZero(c) THEN "pass" ELSE "fail"

\* The status of a run whose evaluators have all answered: the skipped ones
\* are set aside; without any other the run is skipped.
RunStatus(c, answers) ==
  LET exitAnswer == IF ~plan.checksExit THEN {}
                    ELSE IF ExitCodeIsZero(c) THEN {"passed"} ELSE {"failed"}
      decisive == (answers \cup exitAnswer) \ {"skipped"}
  IN  IF decisive = {} THEN "skipped"
      ELSE IF decisive = {"passed"} THEN "pass" ELSE "fail"

\* How many runs of a sequence have a status in S.
CountIn(rs, S) == Cardinality({i \in DOMAIN rs : rs[i] \in S})

\* Mutated FlakeStatus: the inconsistency check is missing.
FlakeStatusNoFlake(rs) ==
  LET nonSkipped == CountIn(rs, RunStatuses \ {"skipped"})
      passed     == CountIn(rs, {"pass"})
      agreed     == IF plan.consensus = "unanimous" THEN passed = nonSkipped
                                               ELSE passed >= plan.pass_threshold
  IN  CASE nonSkipped = 0 -> "skipped" [] agreed -> "pass" [] OTHER -> "fail"

\* Mutated FlakeStatus: passed must meet the threshold exactly.
FlakeStatusExact(rs) ==
  LET nonSkipped == CountIn(rs, RunStatuses \ {"skipped"})
      passed     == CountIn(rs, {"pass"})
  IN  CASE nonSkipped = 0 -> "skipped"
        [] passed < nonSkipped /\ passed = plan.pass_threshold -> "flake"
        [] passed = nonSkipped /\ nonSkipped # 0 -> "pass"
        [] OTHER -> "fail"

\* FlakeDetector.detect once all runs are in.
FlakeStatus(rs) ==
  LET nonSkipped == CountIn(rs, RunStatuses \ {"skipped"})
      passed     == CountIn(rs, {"pass"})
      agreed     == IF plan.consensus = "unanimous" THEN passed = nonSkipped
                                               ELSE passed >= plan.pass_threshold
      mixed      == passed < nonSkipped /\ passed >= plan.pass_threshold
  IN  CASE nonSkipped = 0 -> "skipped"
        [] nonSkipped # 0 /\ mixed -> "flake"
        [] nonSkipped # 0 /\ ~mixed /\ agreed -> "pass"
        [] OTHER -> "fail"

\* A test without flake_detection has the status of its one run.
TestStatus(rs) == IF plan.runs = 1 THEN rs[1] ELSE FlakeStatus(rs)
-----------------------------------------------------------------------------
Init ==
  /\ plan \in Plans
  /\ calls = << >>
  /\ seen = [calls |-> << >>, answers |-> {}]
  /\ runs = << >>
  /\ result = "none"

\* Mutated MossReturns: the last turn is never sent.
MossReturnsButLast(c) ==
  /\ result = "none"
  /\ Len(calls) + 1 < plan.turns
  /\ calls' = Append(calls, c)
  /\ UNCHANGED <<plan, seen, runs, result>>

\* A Moss call of the current run returns.
MossReturns(c) ==
  /\ result = "none"
  /\ Len(calls) < plan.turns
  /\ calls' = Append(calls, c)
  /\ UNCHANGED <<plan, seen, runs, result>>

\* Mutated EndRun: one run too many.
EndRunLate(status) ==
  /\ runs' = Append(runs, status)
  /\ result' = IF Len(runs') > plan.runs THEN TestStatus(runs') ELSE "none"
  /\ calls' = << >>
  /\ UNCHANGED plan

\* The current run ends with a status; the last one ends the test, any other
\* is followed by a run on a fresh copy of the workdir.
EndRun(status) ==
  /\ runs' = Append(runs, status)
  /\ result' = IF Len(runs') = plan.runs THEN TestStatus(runs') ELSE "none"
  /\ calls' = << >>
  /\ UNCHANGED plan

\* The evaluators answer, one after the other, on what Moss returned; answers
\* is the set of answers they gave.
Evaluate(answers) ==
  /\ result = "none"
  /\ Len(calls) = plan.turns
  /\ Cardinality(answers) <= plan.evals
  /\ plan.evals > 0 => answers # {}
  /\ seen' = [calls |-> calls, answers |-> answers]
  /\ EndRun(RunStatus(calls, answers))

\* An Exception in the run (no copy of the workdir, a command that cannot be
\* split, a bad regular expression): the run is an error, whatever it had got to,
\* and nothing is tried again.
Raise ==
  /\ result = "none"
  /\ seen' = [calls |-> calls, answers |-> {}]
  /\ EndRun("error")

\* CancelledError at one of the test's awaits: _run_test_once raises it again
\* and no run follows.
Cancelled ==
  /\ result = "none"
  /\ result' = "cancelled"
  /\ UNCHANGED <<plan, calls, seen, runs>>

Over ==
  /\ result # "none"
  /\ UNCHANGED vars

Next ==
  \/ \E c \in CallResults : MossReturns(c)
  \/ \E answers \in SUBSET Answers : Evaluate(answers)
  \/ Raise
  \/ Cancelled
  \/ Over

Spec == Init /\ [][Next]_vars

\* Every Moss call and every judge call has a timeout.
FairSpec ==
  /\ Spec
  /\ WF_vars(\E c \in CallResults : MossReturns(c))
  /\ WF_vars(\E answers \in SUBSET Answers : Evaluate(answers))
-----------------------------------------------------------------------------
\* Type invariant of one test's execution.
TypeOK ==
  /\ plan \in Plans
  /\ calls \in Seq(CallResults) /\ Len(calls) <= plan.turns
  /\ seen \in [calls : Seq(CallResults), answers : SUBSET Answers]
  /\ runs \in Seq(RunStatuses) /\ Len(runs) <= plan.runs
  /\ result \in RunStatuses \cup {"none", "flake", "cancelled"}

\* A pass hides nothing: under either consensus a test whose result is "pass"
\* has a run that passed and no run that failed or raised (flake.py:26-33).
PassHidesNothing ==
  result = "pass" => /\ CountIn(runs, {"pass"}) > 0
                     /\ CountIn(runs, {"fail", "error"}) = 0

\* "flake" is kept for the inconsistent test that still passes often enough;
\* such a test is always given it (flake.py:32-33).
FlakeMeansInconsistent ==
  result \notin {"none", "cancelled"} /\ plan.runs > 1 =>
    (result = "flake" <=> /\ CountIn(runs, {"pass"}) >= plan.pass_threshold
                          /\ CountIn(runs, {"fail", "error"}) > 0)

\* A test is skipped only if no run of it got any decisive answer: a failure is
\* never lost behind a judge that could not be reached (executor.py:197-205,
\* flake.py:22-25).
SkippedMeansNoVerdict ==
  /\ result = "skipped" => \A i \in DOMAIN runs : runs[i] = "skipped"
  /\ runs # << >> /\ runs[Len(runs)] = "skipped" => seen.answers \subseteq {"skipped"}

\* An evaluator that could not run turns no run red: a run fails only if some
\* evaluator failed it or Moss returned a non-zero exit code (executor.py:197-205).
FailureNeedsFailedEvaluator ==
  runs # << >> /\ runs[Len(runs)] = "fail" =>
    \/ "failed" \in seen.answers
    \/ plan.checksExit /\ \E i \in DOMAIN seen.calls : seen.calls[i] # "ok"

\* How good a status is.
Rank(s) == CASE s = "fail" -> 0 [] s = "error" -> 0 [] s = "skipped" -> 1
             [] s = "flake" -> 2 [] s = "pass" -> 3

\* A better run never makes a worse test: had a run that failed or raised passed
\* instead, the test's status would be at least as good (flake.py:22-33).
BetterRunsNeverHurt ==
  result \in RunStatuses \cup {"flake"} =>
    \A i \in DOMAIN runs : runs[i] \in {"fail", "error"} =>
      Rank(TestStatus([runs EXCEPT ![i] = "pass"])) >= Rank(result)

\* Every test ends with a result or its cancellation, after at most its number of runs.
TestEnds == <>(result # "none")

\* flake.py:20: "otherwise skipped runs are excluded from the pass/fail
\* consensus so a reachable-then-not host can't flunk it".  A test all of whose
\* runs that were not skipped passed is not failed (with a threshold the runs
\* can reach).
UnreachableHostCannotFlunk ==
  plan.pass_threshold <= plan.runs /\ CountIn(runs, {"pass"}) > 0 /\ CountIn(runs, {"fail", "error"}) = 0
    => result # "fail"
==============================================================================
