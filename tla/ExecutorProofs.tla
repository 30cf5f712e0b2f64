--------------------------- MODULE ExecutorProofs ---------------------------
(***************************************************************************)
(* Theorems about Executor for every plan: any number of suites and tests,  *)
(* any limits, any global cap.  IInv is the inductive invariant; the order  *)
(* is type correctness, the lifecycle of suites and tasks, the cause of     *)
(* cancellations, the permits, and what follows from them.  Only what is     *)
(* said of written suites rests on PlannedAssumption.                       *)
(***************************************************************************)
EXTENDS PlannedRun, FiniteSetTheorems, TLAPS

\* What each phase of a suite says of its tests, its pending set and its
\* report: the part of the inductive invariant the others follow from.
LifecycleOf(s) ==
  /\ suite[s] \in {"created", "raised"} =>
       /\ pending[s] = {}
       /\ \A t \in TestsOf(s) : task[t] = "none" /\ t \notin cancelling
  /\ suite[s] \in {"waiting", "draining"} =>
       /\ pending[s] \subseteq TestsOf(s)
       /\ \A t \in pending[s] : task[t] # "none"
       /\ \A t \in TestsOf(s) \ pending[s] : task[t] \in Outcomes /\ t \notin cancelling
  /\ suite[s] = "waiting" =>
       \A t \in TestsOf(s) : t \notin cancelling
  /\ suite[s] = "draining" =>
       /\ pending[s] \subseteq cancelling
       /\ FailFast[s]
       /\ \E u \in TestsOf(s) \ pending[s] : task[u] \in Failing
  /\ suite[s] = "returned" =>
       /\ \A t \in TestsOf(s) : task[t] \in Outcomes
       /\ report[s] = SuiteReport(s)
  /\ suite[s] = "cancelled" =>
       /\ \A t \in TestsOf(s) : task[t] \in TaskDone
       /\ \E t \in TestsOf(s) : task[t] = "cancelled"
  /\ suite[s] \in SuiteDone => pending[s] = {}
  /\ \A t \in TestsOf(s) : task[t] = "cancelled" => t \in cancelling
  /\ suite[s] = "raised" => MaxConcurrency[s] < 0
  /\ suite[s] \notin {"created", "raised"} => MaxConcurrency[s] >= 0

Lifecycle == \A s \in Suites : LifecycleOf(s)

\* The tests of a suite in some phases are finitely many, and so are all its
\* tests: the counts of a SuiteResult are natural numbers.
LEMMA CountsAreNat ==
  ASSUME NEW s \in Suites, NEW O
  PROVE  /\ IsFiniteSet(TestsOf(s))
         /\ Cardinality(TestsOf(s)) \in Nat
         /\ Count(s, O) \in Nat
<1>1. IsFiniteSet(TestsOf(s))
  BY ExecutorAssumption, FS_Subset DEF ExecutorAssumption, TestsOf
<1>2. IsFiniteSet({t \in TestsOf(s) : task[t] \in O})
  BY <1>1, FS_Subset
<1> QED
  BY <1>1, <1>2, FS_CardinalityType DEF Count

\* The two ways a SuiteResult is made give one of the right type.
LEMMA ReportsAreTyped ==
  ASSUME NEW s \in Suites
  PROVE  /\ SuiteReport(s) \in Reports
         /\ ErrorReport(s) \in Reports
         /\ NoReport \in Reports
<1>1. Count(s, {"pass"}) \in Nat /\ Count(s, {"fail"}) \in Nat
      /\ Count(s, {"error", "raised"}) \in Nat /\ Count(s, {"skipped"}) \in Nat
      /\ Cardinality(TestsOf(s)) \in Nat
  BY CountsAreNat
<1>2. SkippedCount[s] \in Nat
  BY ExecutorAssumption DEF ExecutorAssumption
<1>3. SkippedCount[s] + Count(s, {"skipped"}) \in Nat
  BY <1>1, <1>2
<1> QED
  BY <1>1, <1>3 DEF SuiteReport, ErrorReport, NoReport, Reports

\* The state has its type initially.
LEMMA TypeInit == Init => TypeOK
  BY ExecutorAssumption
  DEF Init, TypeOK, ExecutorAssumption, NoReport, Reports, Active, TaskDone, Outcomes, SuiteDone

\* A step of a suite's coroutine keeps the type.
LEMMA TypeSuiteStep ==
  ASSUME TypeOK, NEW s \in Suites, SuiteStep(s)
  PROVE  TypeOK'
<1> USE DEF TypeOK, SuiteDone
<1>1. CASE RefuseSuite(s)
  BY <1>1 DEF RefuseSuite
<1>2. CASE StartSuite(s)
  <2>1. suiteFree' \in [Suites -> Nat]
    <3>1. MaxConcurrency[s] \in Nat
      <4>1. MaxConcurrency[s] \in Int
        BY ExecutorAssumption DEF ExecutorAssumption
      <4>2. MaxConcurrency[s] >= 0
        BY <1>2 DEF StartSuite
      <4> QED
        BY <4>1, <4>2
    <3>2. suiteFree' = [suiteFree EXCEPT ![s] = MaxConcurrency[s]]
      BY <1>2 DEF StartSuite
    <3> QED
      BY <3>1, <3>2
  <2>2. task' \in [Tests -> {"none"} \cup Active \cup TaskDone]
    BY <1>2 DEF StartSuite, Active
  <2>3. pending' \in [Suites -> SUBSET Tests]
    BY <1>2 DEF StartSuite, TestsOf
  <2> QED
    BY <1>2, <2>1, <2>2, <2>3, ReportsAreTyped DEF StartSuite, ReturnSuite
<1>3. CASE Collect(s)
  <2>1. pending' \in [Suites -> SUBSET Tests] /\ cancelling' \in SUBSET Tests
    BY <1>3 DEF Collect
  <2> QED
    BY <1>3, <2>1, ReportsAreTyped DEF Collect, ReturnSuite
<1>4. CASE Drain(s)
  <2>1. pending' \in [Suites -> SUBSET Tests]
    BY <1>4 DEF Drain
  <2> QED
    BY <1>4, <2>1, ReportsAreTyped DEF Drain, ReturnSuite
<1> QED
  BY <1>1, <1>2, <1>3, <1>4 DEF SuiteStep

\* Giving permits back keeps the semaphores' values natural numbers.
LEMMA ReleaseTyped ==
  ASSUME TypeOK, NEW t \in Tests, Release(t)
  PROVE  suiteFree' \in [Suites -> Nat] /\ globalFree' \in Nat
  BY ExecutorAssumption DEF TypeOK, Release, ExecutorAssumption

\* A step of a test's task keeps the type.
LEMMA TypeTaskStep ==
  ASSUME TypeOK, NEW t \in Tests, TaskStep(t)
  PROVE  TypeOK'
<1> USE DEF TypeOK
<1>1. CASE EnterSuite(t)
  <2>1. SuiteOf[t] \in Suites
    BY ExecutorAssumption DEF ExecutorAssumption
  <2>2. suiteFree[SuiteOf[t]] - 1 \in Nat
    BY <1>1, <2>1 DEF EnterSuite
  <2> QED
    BY <1>1, <2>1, <2>2 DEF EnterSuite, Active
<1>2. CASE EnterGlobal(t)
  <2>1. globalFree - 1 \in Nat
    BY <1>2 DEF EnterGlobal
  <2> QED
    BY <1>2, <2>1 DEF EnterGlobal, Active
<1>3. ASSUME NEW o \in Outcomes, Finish(t, o) PROVE TypeOK'
  BY <1>3, ReleaseTyped DEF Finish, TaskDone
<1>4. CASE Unwind(t)
  BY <1>4, ReleaseTyped DEF Unwind, TaskDone
<1> QED
  BY <1>1, <1>2, <1>3, <1>4 DEF TaskStep, TestEnds

\* The rest of execute keeps the type.
LEMMA TypeAggregate ==
  ASSUME TypeOK, Aggregate
  PROVE  TypeOK'
  BY ReportsAreTyped DEF TypeOK, Aggregate, StatusOf

\* Every step keeps the type.
LEMMA TypeStep ==
  ASSUME TypeOK, [Next]_vars
  PROVE  TypeOK'
<1>1. CASE UNCHANGED vars
  BY <1>1 DEF TypeOK, vars
<1>2. CASE Over
  BY <1>2 DEF TypeOK, vars, Over
<1> QED
  BY <1>1, <1>2, TypeSuiteStep, TypeTaskStep, TypeAggregate DEF Next

\* Every reachable state of the engine has its type: in particular no
\* semaphore's value ever goes below zero (executor.py:55-141).
THEOREM TypeCorrect == Spec => []TypeOK
  BY TypeInit, TypeStep, PTL DEF Spec
-----------------------------------------------------------------------------
\* A SuiteResult depends on the tests of its suite alone.
LEMMA ReportFrame ==
  ASSUME NEW s \in Suites, \A t \in TestsOf(s) : task'[t] = task[t]
  PROVE  SuiteReport(s)' = SuiteReport(s)
<1>1. ASSUME NEW O PROVE Cardinality({t \in TestsOf(s) : task'[t] \in O})
                         = Cardinality({t \in TestsOf(s) : task[t] \in O})
  <2>1. {t \in TestsOf(s) : task'[t] \in O} = {t \in TestsOf(s) : task[t] \in O}
    OBVIOUS
  <2> QED
    BY <2>1
<1> QED
  BY <1>1 DEF SuiteReport, Count, TestsOf

\* What a suite's lifecycle says is untouched by a step that leaves the suite,
\* its tests and their cancellation alone.
LEMMA LifecycleFrame ==
  ASSUME NEW s \in Suites, LifecycleOf(s),
         suite'[s] = suite[s], pending'[s] = pending[s], report'[s] = report[s],
         \A t \in TestsOf(s) : task'[t] = task[t],
         \A t \in TestsOf(s) : t \in cancelling' <=> t \in cancelling
  PROVE  LifecycleOf(s)'
<1>1. SuiteReport(s)' = SuiteReport(s)
  BY ReportFrame
<1>2. TestsOf(s)' = TestsOf(s)
  BY DEF TestsOf
<1>3. pending[s] \subseteq cancelling /\ pending[s] \subseteq TestsOf(s)
        => pending[s] \subseteq cancelling'
  OBVIOUS
<1> QED
  BY <1>1, <1>2, <1>3 DEF LifecycleOf

\* A task that is not done belongs to a suite that waits for it.
LEMMA ActiveIsPending ==
  ASSUME TypeOK, Lifecycle, NEW t \in Tests, task[t] \in Active
  PROVE  /\ SuiteOf[t] \in Suites
         /\ t \in TestsOf(SuiteOf[t])
         /\ suite[SuiteOf[t]] \in {"waiting", "draining"}
         /\ t \in pending[SuiteOf[t]]
<1>1. SuiteOf[t] \in Suites /\ t \in TestsOf(SuiteOf[t])
  BY ExecutorAssumption DEF ExecutorAssumption, TestsOf
<1>2. LifecycleOf(SuiteOf[t])
  BY <1>1 DEF Lifecycle
<1>3. suite[SuiteOf[t]] \in {"created", "waiting", "draining"} \cup SuiteDone
  BY <1>1 DEF TypeOK
<1>4. task[t] \notin TaskDone /\ task[t] \notin Outcomes /\ task[t] # "none"
  BY DEF Active, TaskDone, Outcomes
<1> QED
  BY <1>1, <1>2, <1>3, <1>4 DEF LifecycleOf, SuiteDone

\* While a suite waits, what arrives has an outcome: nothing was cancelled.
LEMMA ArrivedHaveOutcome ==
  ASSUME NEW s \in Suites, LifecycleOf(s), suite[s] = "waiting"
  PROVE  \A t \in Arrived(s) : t \in TestsOf(s) /\ task[t] \in Outcomes
  BY DEF LifecycleOf, Arrived, TaskDone

\* The lifecycle holds before anything has started.
LEMMA LifecycleInit == Init => Lifecycle
<1> SUFFICES ASSUME Init, NEW s \in Suites PROVE LifecycleOf(s)
  BY DEF Lifecycle
<1>1. \A t \in TestsOf(s) : task[t] = "none" /\ t \notin cancelling
  BY DEF Init, TestsOf
<1> QED
  BY <1>1 DEF Init, LifecycleOf, SuiteDone

\* The suites other than the one that takes a step are left alone.
LEMMA SuiteStepFrame ==
  ASSUME TypeOK, Lifecycle, NEW s \in Suites, SuiteStep(s), NEW r \in Suites, r # s
  PROVE  LifecycleOf(r)'
<1>1. LifecycleOf(r) /\ LifecycleOf(s)
  BY DEF Lifecycle
<1>2. suite'[r] = suite[r] /\ pending'[r] = pending[r] /\ report'[r] = report[r]
  BY DEF SuiteStep, RefuseSuite, StartSuite, Collect, Drain, ReturnSuite, TypeOK
<1>3. \A t \in TestsOf(r) : task'[t] = task[t]
  BY DEF SuiteStep, RefuseSuite, StartSuite, Collect, Drain, TestsOf
<1>4. \A t \in TestsOf(r) : t \in cancelling' <=> t \in cancelling
  <2>1. CASE Collect(s)
    <3>1. pending[s] \subseteq TestsOf(s)
      BY <1>1, <2>1 DEF LifecycleOf, Collect
    <3>2. \A t \in TestsOf(r) : t \notin pending[s]
      BY <3>1 DEF TestsOf
    <3> QED
      BY <2>1, <3>2 DEF Collect
  <2>2. CASE ~Collect(s)
    BY <2>2 DEF SuiteStep, RefuseSuite, StartSuite, Drain
  <2> QED
    BY <2>1, <2>2
<1> QED
  BY <1>1, <1>2, <1>3, <1>4, LifecycleFrame

\* The suite that takes a step: one case per action.
LEMMA SuiteStepSelf ==
  ASSUME TypeOK, Lifecycle, NEW s \in Suites, SuiteStep(s)
  PROVE  LifecycleOf(s)'
<1>1. LifecycleOf(s)
  BY DEF Lifecycle
<1>2. TestsOf(s)' = TestsOf(s)
  BY DEF TestsOf
<1>3. CASE RefuseSuite(s)
  <2>1. suite'[s] = "raised" /\ pending'[s] = {}
        /\ \A t \in TestsOf(s) : task'[t] = "none" /\ t \notin cancelling'
    BY <1>1, <1>3 DEF RefuseSuite, LifecycleOf, TypeOK
  <2> QED
    BY <1>2, <1>3, <2>1 DEF LifecycleOf, RefuseSuite
<1>4. CASE StartSuite(s)
  <2>1. pending'[s] = TestsOf(s) /\ MaxConcurrency[s] >= 0
    BY <1>4 DEF StartSuite, TypeOK
  <2>2. \A t \in TestsOf(s) : task'[t] = "scheduled" /\ t \notin cancelling'
    BY <1>1, <1>4 DEF StartSuite, LifecycleOf, TestsOf
  <2>3. CASE TestsOf(s) = {}
    <3>1. suite'[s] = "returned" /\ report'[s] = SuiteReport(s)
      BY <1>4, <2>3 DEF StartSuite, ReturnSuite, TypeOK
    <3>2. SuiteReport(s)' = SuiteReport(s)
      BY <2>3, ReportFrame
    <3> QED
      BY <1>2, <2>1, <2>3, <3>1, <3>2 DEF LifecycleOf
  <2>4. CASE TestsOf(s) # {}
    <3>1. suite'[s] = "waiting"
      BY <1>4, <2>4 DEF StartSuite, TypeOK
    <3> QED
      BY <1>2, <2>1, <2>2, <3>1 DEF LifecycleOf, SuiteDone
  <2> QED
    BY <2>3, <2>4
<1>5. CASE Collect(s)
  <2>1. \A t \in Arrived(s) : t \in TestsOf(s) /\ task[t] \in Outcomes
    BY <1>1, <1>5, ArrivedHaveOutcome DEF Collect
  <2>2. /\ pending[s] \subseteq TestsOf(s)
        /\ \A t \in pending[s] : task[t] # "none"
        /\ \A t \in TestsOf(s) \ pending[s] : task[t] \in Outcomes
        /\ \A t \in TestsOf(s) : t \notin cancelling
        /\ \A t \in TestsOf(s) : task[t] # "cancelled"
        /\ MaxConcurrency[s] >= 0
    BY <1>1, <1>5 DEF LifecycleOf, Collect
  <2>3. pending'[s] = pending[s] \ Arrived(s) /\ task' = task
    BY <1>5 DEF Collect, TypeOK
  <2>4. SuiteReport(s)' = SuiteReport(s)
    BY <2>3, ReportFrame
  <2>5. \A t \in TestsOf(s) \ pending'[s] : task[t] \in Outcomes /\ t \notin cancelling'
    BY <1>5, <2>1, <2>2, <2>3 DEF Collect
  <2>6. CASE pending[s] = Arrived(s)
    <3>1. suite'[s] = "returned" /\ report'[s] = SuiteReport(s)
      BY <1>5, <2>6 DEF Collect, ReturnSuite, TypeOK
    <3>2. pending'[s] = {}
      BY <2>3, <2>6
    <3>3. \A t \in TestsOf(s) : task'[t] \in Outcomes /\ task'[t] # "cancelled"
      BY <2>2, <2>3, <2>5, <3>2
    <3> QED
      BY <1>2, <2>2, <2>4, <3>1, <3>2, <3>3 DEF LifecycleOf
  <2>7. CASE pending[s] # Arrived(s) /\ Stops(s)
    <3>1. suite'[s] = "draining" /\ cancelling' = cancelling \cup (pending[s] \ Arrived(s))
      BY <1>5, <2>7 DEF Collect, TypeOK
    <3>2. FailFast[s] /\ \E u \in Arrived(s) : task[u] \in Failing
      BY <2>7 DEF Stops
    <3>3. \E u \in TestsOf(s) \ pending'[s] : task'[u] \in Failing
      BY <2>1, <2>3, <3>2
    <3> QED
      BY <1>2, <2>2, <2>3, <2>5, <3>1, <3>2, <3>3 DEF LifecycleOf, SuiteDone
  <2>8. CASE pending[s] # Arrived(s) /\ ~Stops(s)
    <3>1. suite'[s] = "waiting" /\ cancelling' = cancelling
      BY <1>5, <2>8 DEF Collect, TypeOK
    <3> QED
      BY <1>2, <2>2, <2>3, <2>5, <3>1 DEF LifecycleOf, SuiteDone
  <2> QED
    BY <2>6, <2>7, <2>8
<1>6. CASE Drain(s)
  <2>1. /\ pending[s] \subseteq TestsOf(s)
        /\ \A t \in TestsOf(s) \ pending[s] : task[t] \in Outcomes
        /\ \A t \in TestsOf(s) : task[t] = "cancelled" => t \in cancelling
        /\ MaxConcurrency[s] >= 0
    BY <1>1, <1>6 DEF LifecycleOf, Drain
  <2>2. \A t \in pending[s] : task[t] \in TaskDone
    BY <1>6 DEF Drain, Arrived
  <2>3. pending'[s] = {} /\ task' = task /\ cancelling' = cancelling
    BY <1>6 DEF Drain, TypeOK
  <2>4. SuiteReport(s)' = SuiteReport(s)
    BY <2>3, ReportFrame
  <2>5. \A t \in TestsOf(s) : task'[t] \in TaskDone
    BY <2>1, <2>2, <2>3 DEF TaskDone
  <2>6. CASE \E t \in pending[s] : task[t] = "cancelled"
    <3>1. suite'[s] = "cancelled"
      BY <1>6, <2>6 DEF Drain, TypeOK
    <3>2. \E t \in TestsOf(s) : task'[t] = "cancelled"
      BY <2>1, <2>3, <2>6
    <3> QED
      BY <1>2, <2>1, <2>3, <2>5, <3>1, <3>2 DEF LifecycleOf
  <2>7. CASE \A t \in pending[s] : task[t] # "cancelled"
    <3>1. suite'[s] = "returned" /\ report'[s] = SuiteReport(s)
      BY <1>6, <2>7 DEF Drain, ReturnSuite, TypeOK
    <3>2. \A t \in TestsOf(s) : task'[t] \in Outcomes
      BY <2>1, <2>2, <2>3, <2>7 DEF TaskDone
    <3> QED
      BY <1>2, <2>1, <2>3, <2>4, <3>1, <3>2 DEF LifecycleOf
  <2> QED
    BY <2>6, <2>7
<1> QED
  BY <1>3, <1>4, <1>5, <1>6 DEF SuiteStep

\* A step of a test's task: its own suite waits for it, the others are left alone.
LEMMA TaskStepLifecycle ==
  ASSUME TypeOK, Lifecycle, NEW t \in Tests, TaskStep(t)
  PROVE  Lifecycle'
<1>1. task[t] \in Active
  BY DEF TaskStep, EnterSuite, EnterGlobal, TestEnds, Finish, Unwind, Active
<1>2. /\ SuiteOf[t] \in Suites
      /\ t \in TestsOf(SuiteOf[t])
      /\ suite[SuiteOf[t]] \in {"waiting", "draining"}
      /\ t \in pending[SuiteOf[t]]
  BY <1>1, ActiveIsPending
<1>3. /\ suite' = suite /\ pending' = pending /\ report' = report
      /\ cancelling' = cancelling
  BY DEF TaskStep, EnterSuite, EnterGlobal, TestEnds, Finish, Unwind
<1>4. \A u \in Tests : u # t => task'[u] = task[u]
  BY DEF TaskStep, EnterSuite, EnterGlobal, TestEnds, Finish, Unwind, TypeOK
<1>5. task'[t] # "none" /\ (task'[t] = "cancelled" => t \in cancelling)
  BY DEF TaskStep, EnterSuite, EnterGlobal, TestEnds, Finish, Unwind, TypeOK, Outcomes
<1> SUFFICES ASSUME NEW s \in Suites PROVE LifecycleOf(s)'
  BY DEF Lifecycle
<1>6. LifecycleOf(s) /\ TestsOf(s)' = TestsOf(s)
  BY DEF Lifecycle, TestsOf
<1>7. CASE s = SuiteOf[t]
  <2>1. \A u \in TestsOf(s) \ pending[s] : task'[u] = task[u]
    BY <1>2, <1>4, <1>7 DEF TestsOf
  <2>2. \A u \in pending[s] : task'[u] # "none"
    BY <1>2, <1>4, <1>5, <1>6, <1>7 DEF TestsOf, LifecycleOf
  <2>3. \A u \in TestsOf(s) : task'[u] = "cancelled" => u \in cancelling
    BY <1>4, <1>5, <1>6 DEF TestsOf, LifecycleOf
  <2> QED
    BY <1>2, <1>3, <1>6, <1>7, <2>1, <2>2, <2>3 DEF LifecycleOf, SuiteDone
<1>8. CASE s # SuiteOf[t]
  <2>1. \A u \in TestsOf(s) : task'[u] = task[u]
    BY <1>4, <1>8 DEF TestsOf
  <2> QED
    BY <1>3, <1>6, <2>1, LifecycleFrame
<1> QED
  BY <1>7, <1>8

\* execute's own last step leaves tests and suites alone, and replaces only the
\* reports of refused suites.
LEMMA AggregateLifecycle ==
  ASSUME TypeOK, Lifecycle, Aggregate
  PROVE  Lifecycle'
<1> SUFFICES ASSUME NEW s \in Suites PROVE LifecycleOf(s)'
  BY DEF Lifecycle
<1>1. LifecycleOf(s) /\ TestsOf(s)' = TestsOf(s)
  BY DEF Lifecycle, TestsOf
<1>2. SuiteReport(s)' = SuiteReport(s)
  BY ReportFrame DEF Aggregate
<1>3. suite[s] # "raised" => report'[s] = report[s]
  BY DEF Aggregate
<1> QED
  BY <1>1, <1>2, <1>3 DEF LifecycleOf, Aggregate, SuiteDone

\* Types and lifecycle together are kept by every step.
LEMMA LifecycleStep ==
  ASSUME TypeOK, Lifecycle, [Next]_vars
  PROVE  Lifecycle'
<1>1. CASE UNCHANGED vars
  BY <1>1, LifecycleFrame DEF vars, Lifecycle
<1>2. CASE Over
  BY <1>1, <1>2 DEF Over
<1>3. ASSUME NEW s \in Suites, SuiteStep(s) PROVE Lifecycle'
  BY <1>3, SuiteStepFrame, SuiteStepSelf DEF Lifecycle
<1> QED
  BY <1>1, <1>2, <1>3, TaskStepLifecycle, AggregateLifecycle DEF Next
-----------------------------------------------------------------------------
\* Nothing is cancelled at the start.
LEMMA CauseInit == Init => CancellationHasCause
  BY DEF Init, CancellationHasCause

\* Every step keeps the causes: an outcome is final, a collected test stays
\* collected, and a suite that waits has no cancelled test yet.
LEMMA CauseStep ==
  ASSUME TypeOK, Lifecycle, CancellationHasCause, [Next]_vars
  PROVE  CancellationHasCause'
<1> SUFFICES ASSUME NEW t \in Tests, t \in cancelling'
             PROVE  /\ FailFast[SuiteOf[t]]
                    /\ \E u \in TestsOf(SuiteOf[t]) :
                         /\ task'[u] \in Failing
                         /\ u \notin pending'[SuiteOf[t]]
                         /\ u \notin cancelling'
  <2>1. cancelling' \subseteq Tests
    <3>1. CASE \E s \in Suites : SuiteStep(s)
      BY <3>1 DEF SuiteStep, RefuseSuite, StartSuite, Collect, Drain, TypeOK
    <3>2. CASE ~\E s \in Suites : SuiteStep(s)
      BY <3>2 DEF Next, vars, TaskStep, EnterSuite, EnterGlobal, TestEnds, Finish,
                  Unwind, Aggregate, Over, TypeOK
    <3> QED
      BY <3>1, <3>2
  <2> QED
    BY <2>1 DEF CancellationHasCause, TestsOf
<1> DEFINE s == SuiteOf[t]
<1>1. s \in Suites /\ LifecycleOf(s) /\ t \in TestsOf(s)
  BY ExecutorAssumption DEF ExecutorAssumption, Lifecycle, TestsOf
<1>2. CASE t \notin cancelling
  <2>1. PICK r \in Suites : Collect(r) /\ Stops(r)
    BY <1>2 DEF Next, vars, SuiteStep, RefuseSuite, StartSuite, Collect, Drain,
                TaskStep, EnterSuite, EnterGlobal, TestEnds, Finish, Unwind,
                Aggregate, Over
  <2>2. LifecycleOf(r) /\ suite[r] = "waiting"
    BY <2>1 DEF Lifecycle, Collect
  <2>3. t \in pending[r] \ Arrived(r) /\ cancelling' = cancelling \cup (pending[r] \ Arrived(r))
    BY <1>2, <2>1 DEF Collect
  <2>4. r = s
    BY <2>2, <2>3 DEF LifecycleOf, TestsOf
  <2>5. PICK u \in Arrived(s) : task[u] \in Failing
    BY <2>1, <2>4 DEF Stops
  <2>6. u \in TestsOf(s) /\ u \notin cancelling'
    BY <2>2, <2>3, <2>4, ArrivedHaveOutcome DEF LifecycleOf
  <2>7. pending'[s] = pending[s] \ Arrived(s) /\ task' = task /\ FailFast[s]
    BY <1>1, <2>1, <2>4 DEF Collect, TypeOK, Stops
  <2> QED
    BY <2>5, <2>6, <2>7
<1>3. CASE t \in cancelling
  <2>1. PICK u \in TestsOf(s) : task[u] \in Failing /\ u \notin pending[s] /\ u \notin cancelling
    BY <1>3 DEF CancellationHasCause
  <2>2. FailFast[s] /\ u \in Tests /\ SuiteOf[u] = s
    BY <1>3, <2>1 DEF CancellationHasCause, TestsOf
  <2>3. suite[s] # "created" /\ suite[s] # "waiting"
    BY <1>1, <1>3 DEF LifecycleOf
  <2>4. task'[u] = task[u]
    <3>1. CASE \E r \in Suites : SuiteStep(r)
      BY <2>2, <2>3, <3>1 DEF SuiteStep, RefuseSuite, StartSuite, Collect, Drain
    <3>2. CASE \E v \in Tests : TaskStep(v)
      <4>1. PICK v \in Tests : TaskStep(v)
        BY <3>2
      <4>2. task[v] \in Active
        BY <4>1 DEF TaskStep, EnterSuite, EnterGlobal, TestEnds, Finish, Unwind, Active
      <4>3. u # v
        BY <2>1, <4>2 DEF Active, Failing
      <4> QED
        BY <2>2, <4>1, <4>3 DEF TaskStep, EnterSuite, EnterGlobal, TestEnds, Finish,
                                Unwind, TypeOK
    <3>3. CASE Aggregate \/ Over \/ UNCHANGED vars
      BY <3>3 DEF Aggregate, Over, vars
    <3> QED
      BY <3>1, <3>2, <3>3 DEF Next
  <2>5. u \notin pending'[s] /\ u \notin cancelling'
    <3>1. CASE \E r \in Suites : SuiteStep(r)
      <4>1. PICK r \in Suites : SuiteStep(r)
        BY <3>1
      <4>2. CASE r = s
        BY <1>1, <2>1, <2>3, <4>1, <4>2
        DEF SuiteStep, RefuseSuite, StartSuite, Collect, Drain, TypeOK
      <4>3. CASE r # s
        <5>1. u \notin pending'[s]
          BY <1>1, <2>1, <4>1, <4>3
          DEF SuiteStep, RefuseSuite, StartSuite, Collect, Drain, TypeOK
        <5>2. Collect(r) => u \notin pending[r]
          BY <2>2, <4>3 DEF Lifecycle, LifecycleOf, Collect, TestsOf
        <5>3. u \notin cancelling'
          BY <2>1, <4>1, <5>2 DEF SuiteStep, RefuseSuite, StartSuite, Collect, Drain
        <5> QED
          BY <5>1, <5>3
      <4> QED
        BY <4>2, <4>3
    <3>2. CASE ~\E r \in Suites : SuiteStep(r)
      BY <2>1, <3>2 DEF Next, vars, TaskStep, EnterSuite, EnterGlobal, TestEnds, Finish,
                        Unwind, Aggregate, Over
    <3> QED
      BY <3>1, <3>2
  <2> QED
    BY <2>1, <2>2, <2>4, <2>5
<1> QED
  BY <1>2, <1>3
-----------------------------------------------------------------------------
\* The holders of permits are finitely many.
LEMMA HoldersFinite ==
  /\ IsFiniteSet(GlobalHolders) /\ Cardinality(GlobalHolders) \in Nat
  /\ \A s \in Suites : IsFiniteSet(SuiteHolders(s)) /\ Cardinality(SuiteHolders(s)) \in Nat
<1>1. IsFiniteSet(GlobalHolders)
  BY ExecutorAssumption, FS_Subset DEF ExecutorAssumption, GlobalHolders
<1>2. ASSUME NEW s \in Suites PROVE IsFiniteSet(SuiteHolders(s))
  BY ExecutorAssumption, FS_Subset DEF ExecutorAssumption, SuiteHolders, TestsOf
<1> QED
  BY <1>1, <1>2, FS_CardinalityType

\* No permit is held at the start.
LEMMA PermitsInit == Init => PermitConservation
<1> SUFFICES ASSUME Init PROVE PermitConservation
  OBVIOUS
<1>1. GlobalHolders = {}
  BY DEF Init, GlobalHolders
<1>2. GlobalPermits
  BY <1>1, FS_EmptySet, ExecutorAssumption DEF Init, GlobalPermits, ExecutorAssumption
<1> QED
  BY <1>2 DEF Init, PermitConservation, SuitePermits

\* A suite's coroutine takes and gives no permit: it makes its semaphore.
LEMMA PermitsSuiteStep ==
  ASSUME TypeOK, Lifecycle, PermitConservation, NEW s \in Suites, SuiteStep(s)
  PROVE  PermitConservation'
<1>1. globalFree' = globalFree
  BY DEF SuiteStep, RefuseSuite, StartSuite, Collect, Drain
<1>2. \A t \in Tests : task'[t] # task[t] => /\ task[t] = "none" /\ task'[t] = "scheduled"
                                             /\ SuiteOf[t] = s
  BY DEF SuiteStep, RefuseSuite, StartSuite, Collect, Drain, Lifecycle, LifecycleOf, TestsOf
<1>3. GlobalHolders' = GlobalHolders
  BY <1>2 DEF GlobalHolders
<1>4. GlobalPermits'
  BY <1>1, <1>3 DEF PermitConservation, GlobalPermits
<1>5. ASSUME NEW r \in Suites PROVE SuitePermits(r)'
  <2>1. SuiteHolders(r)' = SuiteHolders(r)
    BY <1>2 DEF SuiteHolders, TestsOf
  <2>2. CASE r = s /\ StartSuite(s)
    <3>1. SuiteHolders(s) = {}
      BY <2>2 DEF StartSuite, Lifecycle, LifecycleOf, SuiteHolders
    <3>2. suiteFree'[s] = MaxConcurrency[s] /\ MaxConcurrency[s] \in Int
      BY <2>2, ExecutorAssumption DEF StartSuite, TypeOK, ExecutorAssumption
    <3> QED
      BY <2>1, <2>2, <3>1, <3>2, FS_EmptySet DEF SuitePermits
  <2>3. CASE r # s \/ ~StartSuite(s)
    <3>1. suiteFree'[r] = suiteFree[r]
      BY <2>3 DEF SuiteStep, RefuseSuite, StartSuite, Collect, Drain, TypeOK
    <3>2. suite'[r] \notin {"created", "raised"} => suite[r] \notin {"created", "raised"}
      BY <2>3 DEF SuiteStep, RefuseSuite, StartSuite, Collect, Drain, ReturnSuite, TypeOK
    <3> QED
      BY <2>1, <3>1, <3>2 DEF PermitConservation, SuitePermits
  <2> QED
    BY <2>2, <2>3
<1> QED
  BY <1>4, <1>5 DEF PermitConservation

\* Taking a suite's permit: one holder more, one permit less.
LEMMA PermitsEnterSuite ==
  ASSUME TypeOK, PermitConservation, NEW t \in Tests, EnterSuite(t)
  PROVE  SuitePermits(SuiteOf[t])'
<1> DEFINE s == SuiteOf[t]
<1>1. s \in Suites /\ MaxConcurrency[s] \in Int
  BY ExecutorAssumption DEF ExecutorAssumption
<1>2. SuiteHolders(s)' = SuiteHolders(s) \cup {t} /\ t \notin SuiteHolders(s)
  BY DEF EnterSuite, SuiteHolders, TestsOf, TypeOK
<1>3. Cardinality(SuiteHolders(s)') = Cardinality(SuiteHolders(s)) + 1
  BY <1>1, <1>2, HoldersFinite, FS_AddElement
<1>4. suiteFree'[s] = suiteFree[s] - 1 /\ suite' = suite /\ suiteFree[s] \in Nat
  BY <1>1 DEF EnterSuite, TypeOK
<1> QED
  BY <1>1, <1>3, <1>4, HoldersFinite DEF PermitConservation, SuitePermits

\* Taking a global permit.
LEMMA PermitsEnterGlobal ==
  ASSUME TypeOK, PermitConservation, NEW t \in Tests, EnterGlobal(t)
  PROVE  PermitConservation'
<1>1. GlobalHolders' = GlobalHolders \cup {t} /\ t \notin GlobalHolders
  BY DEF EnterGlobal, GlobalHolders, TypeOK
<1>2. Cardinality(GlobalHolders') = Cardinality(GlobalHolders) + 1
  BY <1>1, HoldersFinite, FS_AddElement
<1>3. globalFree' = globalFree - 1 /\ globalFree \in Nat
  BY DEF EnterGlobal, TypeOK
<1>4. GlobalPermits'
  BY <1>2, <1>3, HoldersFinite, ExecutorAssumption
  DEF PermitConservation, GlobalPermits, ExecutorAssumption
<1>5. ASSUME NEW s \in Suites PROVE SuitePermits(s)'
  <2>1. SuiteHolders(s)' = SuiteHolders(s)
    BY DEF EnterGlobal, SuiteHolders, TestsOf, TypeOK
  <2> QED
    BY <2>1 DEF EnterGlobal, PermitConservation, SuitePermits
<1> QED
  BY <1>4, <1>5 DEF PermitConservation

\* A task that ends, with an outcome or cancelled, gives back what its phase holds.
LEMMA PermitsRelease ==
  ASSUME TypeOK, PermitConservation, NEW t \in Tests, Release(t),
         task[t] \in Active, task'[t] \in TaskDone,
         \A u \in Tests : u # t => task'[u] = task[u], suite' = suite
  PROVE  SuitePermits(SuiteOf[t])' /\ GlobalPermits'
<1> DEFINE s == SuiteOf[t]
<1>1. s \in Suites /\ MaxConcurrency[s] \in Int /\ GlobalCap \in Nat
  BY ExecutorAssumption DEF ExecutorAssumption
<1>2. SuiteHolders(s)' = SuiteHolders(s) \ {t} /\ GlobalHolders' = GlobalHolders \ {t}
  BY DEF SuiteHolders, GlobalHolders, TestsOf, TaskDone, Outcomes
<1>3. SuitePermits(s)'
  <2>1. CASE task[t] \in {"queued", "running"}
    <3>1. t \in SuiteHolders(s)
      BY <2>1 DEF SuiteHolders, TestsOf
    <3>2. Cardinality(SuiteHolders(s)') = Cardinality(SuiteHolders(s)) - 1
      BY <1>1, <1>2, <3>1, HoldersFinite, FS_RemoveElement
    <3>3. suiteFree'[s] = suiteFree[s] + 1 /\ suiteFree[s] \in Nat
      BY <1>1, <2>1 DEF Release, TypeOK
    <3> QED
      BY <1>1, <3>2, <3>3, HoldersFinite DEF PermitConservation, SuitePermits
  <2>2. CASE task[t] \notin {"queued", "running"}
    <3>1. SuiteHolders(s)' = SuiteHolders(s)
      BY <1>2, <2>2 DEF SuiteHolders
    <3> QED
      BY <1>1, <2>2, <3>1 DEF Release, PermitConservation, SuitePermits
  <2> QED
    BY <2>1, <2>2
<1>4. GlobalPermits'
  <2>1. CASE task[t] = "running" /\ GlobalCap # 0
    <3>1. t \in GlobalHolders
      BY <2>1 DEF GlobalHolders
    <3>2. Cardinality(GlobalHolders') = Cardinality(GlobalHolders) - 1
      BY <1>2, <3>1, HoldersFinite, FS_RemoveElement
    <3>3. globalFree' = globalFree + 1 /\ globalFree \in Nat
      BY <2>1 DEF Release, TypeOK
    <3> QED
      BY <1>1, <3>2, <3>3, HoldersFinite DEF PermitConservation, GlobalPermits
  <2>2. CASE task[t] # "running"
    <3>1. GlobalHolders' = GlobalHolders
      BY <1>2, <2>2 DEF GlobalHolders
    <3> QED
      BY <2>2, <3>1 DEF Release, PermitConservation, GlobalPermits
  <2>3. CASE GlobalCap = 0
    BY <2>3 DEF GlobalPermits
  <2> QED
    BY <2>1, <2>2, <2>3
<1> QED
  BY <1>3, <1>4

\* A suite none of whose tests takes the step keeps its permits.
LEMMA PermitsOthers ==
  ASSUME TypeOK, PermitConservation, NEW t \in Tests, TaskStep(t),
         NEW r \in Suites, r # SuiteOf[t]
  PROVE  SuitePermits(r)'
<1>1. suiteFree'[r] = suiteFree[r] /\ suite' = suite
  BY DEF TaskStep, EnterSuite, EnterGlobal, TestEnds, Finish, Unwind, Release, TypeOK
<1>2. \A u \in Tests : u # t => task'[u] = task[u]
  BY DEF TaskStep, EnterSuite, EnterGlobal, TestEnds, Finish, Unwind, TypeOK
<1>3. SuiteHolders(r)' = SuiteHolders(r)
  BY <1>2 DEF SuiteHolders, TestsOf
<1> QED
  BY <1>1, <1>3 DEF PermitConservation, SuitePermits

\* Every step of a test's task conserves the permits.
LEMMA PermitsTaskStep ==
  ASSUME TypeOK, PermitConservation, NEW t \in Tests, TaskStep(t)
  PROVE  PermitConservation'
<1>1. SuiteOf[t] \in Suites
  BY ExecutorAssumption DEF ExecutorAssumption
<1>2. SuitePermits(SuiteOf[t])' /\ GlobalPermits'
  <2>1. CASE EnterSuite(t)
    <3>1. GlobalCap # 0 => GlobalHolders' = GlobalHolders
      BY <2>1 DEF EnterSuite, GlobalHolders, TypeOK
    <3> QED
      BY <2>1, <3>1, PermitsEnterSuite DEF EnterSuite, PermitConservation, GlobalPermits
  <2>2. CASE EnterGlobal(t)
    BY <1>1, <2>2, PermitsEnterGlobal DEF PermitConservation
  <2>3. CASE TestEnds(t) \/ Unwind(t)
    BY <2>3, PermitsRelease DEF TestEnds, Finish, Unwind, Active, TaskDone, TypeOK
  <2> QED
    BY <2>1, <2>2, <2>3 DEF TaskStep
<1> QED
  BY <1>1, <1>2, PermitsOthers DEF PermitConservation

\* No step loses a permit or makes one.
LEMMA PermitsStep ==
  ASSUME TypeOK, Lifecycle, PermitConservation, [Next]_vars
  PROVE  PermitConservation'
<1>1. CASE UNCHANGED vars \/ Over \/ Aggregate
  BY <1>1 DEF vars, Over, Aggregate, PermitConservation, SuitePermits, GlobalPermits,
              SuiteHolders, GlobalHolders, TestsOf
<1> QED
  BY <1>1, PermitsSuiteStep, PermitsTaskStep DEF Next
-----------------------------------------------------------------------------
\* The inductive invariant: no part of it is inductive without those before it.
IInv == TypeOK /\ Lifecycle /\ CancellationHasCause /\ PermitConservation

\* The inductive invariant of the engine holds at all times (executor.py:27-141).
THEOREM IInvHolds == Spec => []IInv
<1>1. Init => IInv
  BY TypeInit, LifecycleInit, CauseInit, PermitsInit DEF IInv
<1>2. IInv /\ [Next]_vars => IInv'
  BY TypeStep, LifecycleStep, CauseStep, PermitsStep DEF IInv
<1> QED
  BY <1>1, <1>2, PTL DEF Spec

\* For every plan the tests that hold a permit and the free permits add up to
\* the limit, in every suite and globally (executor.py:57-64).
THEOREM PermitsConserved == Spec => []PermitConservation
  BY IInvHolds, PTL DEF IInv

\* For every plan only a test of a fail-fast suite is cancelled, and only after
\* a failure of the same suite was collected (executor.py:91-98).
THEOREM CancellationsJustified == Spec => []CancellationHasCause
  BY IInvHolds, PTL DEF IInv

\* For every plan no test is left running or waiting when its suite has ended
\* (executor.py:97-113).
THEOREM TestsEndBeforeTheirSuite == Spec => []NoTestOutlivesItsSuite
<1>1. IInv => NoTestOutlivesItsSuite
  BY ActiveIsPending DEF IInv, NoTestOutlivesItsSuite, SuiteDone
<1> QED
  BY IInvHolds, <1>1, PTL

\* For every plan no test of a suite that stopped starts (executor.py:97-98).
THEOREM NothingStartsAfterStop == Spec => NoStartAfterStop
<1>1. IInv /\ [Next]_vars => [\A t \in Tests : task[t] # "running" /\ task'[t] = "running"
                                => suite[SuiteOf[t]] = "waiting"]_vars
  <2> SUFFICES ASSUME IInv, [Next]_vars, NEW t \in Tests,
                      task[t] # "running", task'[t] = "running"
               PROVE  suite[SuiteOf[t]] = "waiting"
    OBVIOUS
  <2>1. TypeOK /\ Lifecycle
    BY DEF IInv
  <2>2. EnterSuite(t) \/ EnterGlobal(t)
    BY <2>1 DEF Next, vars, SuiteStep, RefuseSuite, StartSuite, Collect, Drain, TaskStep,
                EnterSuite, EnterGlobal, TestEnds, Finish, Unwind, Aggregate, Over,
                Outcomes, TypeOK
  <2>3. task[t] \in Active /\ t \notin cancelling
    BY <2>2 DEF EnterSuite, EnterGlobal, Active
  <2>4. /\ SuiteOf[t] \in Suites
        /\ suite[SuiteOf[t]] \in {"waiting", "draining"}
        /\ t \in pending[SuiteOf[t]]
    BY <2>1, <2>3, ActiveIsPending
  <2> QED
    BY <2>1, <2>3, <2>4 DEF Lifecycle, LifecycleOf
<1> QED
  BY IInvHolds, <1>1, PTL DEF Spec, NoStartAfterStop
-----------------------------------------------------------------------------
\* A run with a verdict is over: each of its suites has ended.
StatusIsFinal == status # "running" => \A s \in Suites : suite[s] \in SuiteDone

LEMMA StatusStep ==
  ASSUME TypeOK, Lifecycle, StatusIsFinal, [Next]_vars
  PROVE  StatusIsFinal' /\ (status # "running" => UNCHANGED vars)
<1>1. CASE status = "running"
  <2>1. CASE Aggregate
    BY <2>1 DEF Aggregate, StatusIsFinal
  <2>2. CASE ~Aggregate
    BY <1>1, <2>2 DEF Next, vars, SuiteStep, RefuseSuite, StartSuite, Collect, Drain,
                      TaskStep, EnterSuite, EnterGlobal, TestEnds, Finish, Unwind,
                      Over, StatusIsFinal
  <2> QED
    BY <2>1, <2>2
<1>2. CASE status # "running"
  <2>1. \A s \in Suites : ~SuiteStep(s)
    BY <1>2 DEF StatusIsFinal, SuiteDone, SuiteStep, RefuseSuite, StartSuite, Collect, Drain
  <2>2. \A t \in Tests : ~TaskStep(t)
    <3> SUFFICES ASSUME NEW t \in Tests, TaskStep(t) PROVE FALSE
      OBVIOUS
    <3>1. task[t] \in Active
      BY DEF TaskStep, EnterSuite, EnterGlobal, TestEnds, Finish, Unwind, Active
    <3> QED
      BY <1>2, <3>1, ActiveIsPending DEF StatusIsFinal, SuiteDone
  <2>3. UNCHANGED vars
    BY <1>2, <2>1, <2>2 DEF Next, Aggregate, Over
  <2> QED
    BY <1>2, <2>3 DEF vars, StatusIsFinal
<1> QED
  BY <1>1, <1>2

\* A count is zero only if no test has one of the outcomes counted.
LEMMA CountZero ==
  ASSUME NEW s \in Suites, NEW O
  PROVE  Count(s, O) = 0 <=> \A t \in TestsOf(s) : task[t] \notin O
<1>1. IsFiniteSet({t \in TestsOf(s) : task[t] \in O})
  BY CountsAreNat, FS_Subset
<1>2. Count(s, O) = 0 <=> {t \in TestsOf(s) : task[t] \in O} = {}
  BY <1>1, FS_EmptySet DEF Count
<1> QED
  BY <1>2

\* What execute concludes from the suites' counts is what the tests' outcomes
\* call for: a suite's report is clean exactly if none of its tests failed, and
\* a refused suite is clean exactly if it has no test to run.
LEMMA VerdictIsRight ==
  ASSUME TypeOK, Lifecycle, Aggregate
  PROVE  /\ status' = "success" => \A t \in Tests :
              task[t] \in Outcomes \ Failing /\ suite[SuiteOf[t]] = "returned"
         /\ status' = Contract!Verdict
         /\ \A t \in Tests : \/ task[t] \in TaskDone
                             \/ MaxConcurrency[SuiteOf[t]] < 0 /\ task[t] = "none"
<1> DEFINE Clean(s) == report'[s].failed = 0 /\ report'[s].error = 0
<1>1. \A s \in Suites : suite[s] \in SuiteDone /\ LifecycleOf(s)
  BY DEF Aggregate, Lifecycle
<1>2. ASSUME NEW s \in Suites, suite[s] = "returned"
      PROVE  /\ Clean(s) <=> \A t \in TestsOf(s) : task[t] \notin Failing
             /\ \A t \in TestsOf(s) : task[t] \in Outcomes
             /\ MaxConcurrency[s] >= 0
  <2>1. report'[s] = SuiteReport(s)
    BY <1>1, <1>2 DEF Aggregate, LifecycleOf
  <2>2. Clean(s) <=> Count(s, {"fail"}) = 0 /\ Count(s, {"error", "raised"}) = 0
    BY <2>1 DEF SuiteReport
  <2>3. Clean(s) <=> \A t \in TestsOf(s) : task[t] \notin Failing
    BY <2>2, CountZero DEF Failing
  <2> QED
    BY <1>1, <1>2, <2>3 DEF LifecycleOf
<1>3. ASSUME NEW s \in Suites, suite[s] = "raised"
      PROVE  /\ Clean(s) <=> TestsOf(s) = {}
             /\ \A t \in TestsOf(s) : task[t] = "none"
             /\ MaxConcurrency[s] < 0
  <2>1. report'[s] = ErrorReport(s)
    BY <1>3 DEF Aggregate
  <2>2. Clean(s) <=> Cardinality(TestsOf(s)) = 0
    BY <2>1 DEF ErrorReport
  <2>3. Clean(s) <=> TestsOf(s) = {}
    BY <2>2, CountsAreNat, FS_EmptySet
  <2> QED
    BY <1>1, <1>3, <2>3 DEF LifecycleOf
<1>4. ASSUME NEW s \in Suites, suite[s] = "cancelled"
      PROVE  /\ \A t \in TestsOf(s) : task[t] \in TaskDone
             /\ \E t \in TestsOf(s) : task[t] = "cancelled"
             /\ MaxConcurrency[s] >= 0
  BY <1>1, <1>4 DEF LifecycleOf
<1>5. \A t \in Tests : SuiteOf[t] \in Suites /\ t \in TestsOf(SuiteOf[t])
  BY ExecutorAssumption DEF ExecutorAssumption, TestsOf
<1>6. \A t \in Tests : \/ task[t] \in TaskDone
                       \/ MaxConcurrency[SuiteOf[t]] < 0 /\ task[t] = "none"
  BY <1>1, <1>2, <1>3, <1>4, <1>5 DEF SuiteDone, TaskDone
<1>7. (\E t \in Tests : task[t] = "cancelled") <=> \E s \in Suites : suite[s] = "cancelled"
  <2>1. ASSUME NEW t \in Tests, task[t] = "cancelled" PROVE suite[SuiteOf[t]] = "cancelled"
    BY <1>1, <1>2, <1>3, <1>5, <2>1 DEF SuiteDone, Outcomes
  <2> QED
    BY <1>4, <1>5, <2>1 DEF TestsOf
<1>8. ASSUME \A s \in Suites : suite[s] # "cancelled"
      PROVE  (\A s \in Suites : Clean(s))
               <=> \A t \in Tests : /\ task[t] \notin Failing
                                    /\ MaxConcurrency[SuiteOf[t]] >= 0
  <2>1. ASSUME \A s \in Suites : Clean(s), NEW t \in Tests
        PROVE  task[t] \notin Failing /\ MaxConcurrency[SuiteOf[t]] >= 0
    BY <1>1, <1>2, <1>3, <1>5, <1>8, <2>1 DEF SuiteDone
  <2>2. ASSUME \A t \in Tests : task[t] \notin Failing /\ MaxConcurrency[SuiteOf[t]] >= 0,
               NEW s \in Suites
        PROVE  Clean(s)
    <3>1. CASE suite[s] = "returned"
      BY <1>2, <2>2, <3>1 DEF TestsOf
    <3>2. CASE suite[s] = "raised"
      <4>1. TestsOf(s) = {}
        BY <1>3, <2>2, <3>2, ExecutorAssumption DEF TestsOf, ExecutorAssumption
      <4> QED
        BY <1>3, <3>2, <4>1
    <3> QED
      BY <1>1, <1>8, <3>1, <3>2 DEF SuiteDone
  <2> QED
    BY <2>1, <2>2
<1>9. status' = IF \E s \in Suites : suite[s] = "cancelled" THEN "crashed"
                ELSE IF \A s \in Suites : Clean(s) THEN "success" ELSE "failed"
  BY DEF Aggregate, StatusOf
<1>10. ASSUME status' = "success", NEW t \in Tests
       PROVE  task[t] \in Outcomes \ Failing /\ suite[SuiteOf[t]] = "returned"
  BY <1>1, <1>2, <1>3, <1>5, <1>8, <1>9, <1>10 DEF SuiteDone
<1>11. status' = Contract!Verdict
  <2>1. \A t \in Tests : OutcomeOf(t) = "cut" <=> task[t] = "cancelled"
    BY DEF OutcomeOf, Outcomes
  <2>2. \A t \in Tests : OutcomeOf(t) \in Failing <=> task[t] \in Failing
    BY DEF OutcomeOf, Outcomes, Failing
  <2>3. \A t \in Tests : MaxConcurrency[SuiteOf[t]] < 0 <=> ~(MaxConcurrency[SuiteOf[t]] >= 0)
    BY ExecutorAssumption DEF ExecutorAssumption
  <2> QED
    BY <1>7, <1>8, <1>9, <2>1, <2>2, <2>3
    DEF Contract!Verdict, Contract!Failing, Contract!Refused, Failing
<1> QED
  BY <1>6, <1>10, <1>11

\* The report of a suite that returned counts all its tests.
LEMMA ReturnedTotal ==
  ASSUME Lifecycle, NEW s \in Suites, suite[s] = "returned"
  PROVE  report[s].total = Cardinality(TestsOf(s))
<1>1. report[s] = SuiteReport(s)
  BY DEF Lifecycle, LifecycleOf
<1> QED
  BY <1>1 DEF SuiteReport

\* A step to success leaves no test failed, in error, cut or open.
LEMMA SuccessStep ==
  ASSUME TypeOK, Lifecycle, StatusIsFinal, SuccessMeansNoFailure, [Next]_vars
  PROVE  SuccessMeansNoFailure'
<1>1. Lifecycle'
  BY LifecycleStep
<1>2. CASE status # "running"
  <2>1. UNCHANGED vars
    BY <1>2, StatusStep
  <2> QED
    BY <2>1 DEF vars, SuccessMeansNoFailure, TestsOf
<1>3. CASE status = "running"
  <2> SUFFICES ASSUME status' = "success" PROVE SuccessMeansNoFailure'
    BY DEF SuccessMeansNoFailure
  <2>1. Aggregate
    BY <1>3 DEF Next, vars, SuiteStep, RefuseSuite, StartSuite, Collect, Drain, TaskStep,
                EnterSuite, EnterGlobal, TestEnds, Finish, Unwind, Over
  <2>2. \A t \in Tests : task[t] \in Outcomes \ Failing /\ suite[SuiteOf[t]] = "returned"
    BY <2>1, VerdictIsRight
  <2>3. suite' = suite /\ task' = task
    BY <2>1 DEF Aggregate
  <2>4. \A t \in Tests : report'[SuiteOf[t]] = report[SuiteOf[t]]
    BY <2>1, <2>2, ExecutorAssumption DEF Aggregate, ExecutorAssumption
  <2>5. \A t \in Tests : report'[SuiteOf[t]].total = Cardinality(TestsOf(SuiteOf[t]))
    BY <2>2, <2>4, ReturnedTotal, ExecutorAssumption DEF ExecutorAssumption
  <2> QED
    BY <2>2, <2>3, <2>5 DEF SuccessMeansNoFailure, Outcomes, Failing, TestsOf
<1> QED
  BY <1>2, <1>3

\* For every plan a run that says success has no test that failed, raised, was
\* cut short or did not run (executor.py:43-46, 115-141).
THEOREM SuccessIsSound == Spec => []SuccessMeansNoFailure
<1>1. Init => StatusIsFinal /\ SuccessMeansNoFailure
  BY DEF Init, StatusIsFinal, SuccessMeansNoFailure
<1>2. IInv /\ StatusIsFinal /\ SuccessMeansNoFailure /\ [Next]_vars
        => (StatusIsFinal /\ SuccessMeansNoFailure)'
  BY StatusStep, SuccessStep DEF IInv
<1> QED
  BY IInvHolds, <1>1, <1>2, PTL DEF Spec
-----------------------------------------------------------------------------
\* The function RunContract sees as its variable outcome.
OutcomeMap == [t \in Tests |-> OutcomeOf(t)]

\* A step that changes no task's outcome and not the verdict is a stutter there.
LEMMA ContractStutter ==
  ASSUME \A t \in Tests : OutcomeOf(t)' = OutcomeOf(t), status' = status
  PROVE  UNCHANGED Contract!vars
<1>1. OutcomeMap' = OutcomeMap
  BY DEF OutcomeMap
<1> QED
  BY <1>1 DEF Contract!vars, OutcomeMap

\* A task that ends settles its test: with its outcome, or cut short.
LEMMA ContractSettles ==
  ASSUME IInv, StatusIsFinal, NEW t \in Tests, TestEnds(t) \/ Unwind(t)
  PROVE  Contract!Next
<1>1. TypeOK /\ Lifecycle /\ CancellationHasCause
  BY DEF IInv
<1>2. task[t] \in Active
  BY DEF TestEnds, Finish, Unwind, Active
<1>3. /\ SuiteOf[t] \in Suites
      /\ suite[SuiteOf[t]] \in {"waiting", "draining"}
  BY <1>1, <1>2, ActiveIsPending
<1>4. status = "running"
  BY <1>3 DEF StatusIsFinal, SuiteDone
<1>5. ~(MaxConcurrency[SuiteOf[t]] < 0)
  BY <1>1, <1>3, ExecutorAssumption DEF Lifecycle, LifecycleOf, ExecutorAssumption
<1>6. OutcomeOf(t) = "open"
  BY <1>2 DEF OutcomeOf, Active, Outcomes
<1>7. status' = status
  BY DEF TestEnds, Finish, Unwind
<1>8. ASSUME NEW o \in Outcomes, Finish(t, o) PROVE Contract!Report(t, o)
  <2>1. task' = [task EXCEPT ![t] = o] /\ task \in [Tests -> {"none"} \cup Active \cup TaskDone]
    BY <1>1, <1>8 DEF Finish, TypeOK
  <2>2. OutcomeMap' = [OutcomeMap EXCEPT ![t] = o]
    BY <1>8, <2>1 DEF OutcomeMap, OutcomeOf
  <2> QED
    BY <1>4, <1>5, <1>6, <1>7, <2>2
    DEF Contract!Report, Contract!Refused, OutcomeMap
<1>9. CASE Unwind(t)
  <2>1. task' = [task EXCEPT ![t] = "cancelled"]
        /\ task \in [Tests -> {"none"} \cup Active \cup TaskDone]
    BY <1>1, <1>9 DEF Unwind, TypeOK
  <2>2. OutcomeMap' = [OutcomeMap EXCEPT ![t] = "cut"]
    BY <2>1 DEF OutcomeMap, OutcomeOf, Outcomes
  <2>3. PICK u \in TestsOf(SuiteOf[t]) : task[u] \in Failing
    BY <1>1, <1>9 DEF Unwind, CancellationHasCause
  <2>4. FailFast[SuiteOf[t]]
    BY <1>1, <1>9 DEF Unwind, CancellationHasCause
  <2>5. u \in Tests /\ SuiteOf[u] = SuiteOf[t] /\ OutcomeOf(u) \in Failing
    BY <2>3 DEF TestsOf, OutcomeOf, Failing, Outcomes
  <2>6. Contract!Cut(t)
    BY <1>4, <1>6, <1>7, <2>2, <2>4, <2>5
    DEF Contract!Cut, Contract!Failing, Failing, OutcomeMap
  <2> QED
    BY <2>6 DEF Contract!Next
<1> QED
  BY <1>8, <1>9 DEF TestEnds, Contract!Next, Outcomes, Contract!Outcomes

\* execute's conclusion is the contract's.
LEMMA ContractConcludes ==
  ASSUME IInv, Aggregate
  PROVE  Contract!Conclude
<1>1. TypeOK /\ Lifecycle
  BY DEF IInv
<1>2. status' = Contract!Verdict
  BY <1>1, VerdictIsRight
<1>3. \A t \in Tests : OutcomeOf(t) # "open" \/ MaxConcurrency[SuiteOf[t]] < 0
  BY <1>1, VerdictIsRight DEF OutcomeOf, TaskDone, Outcomes
<1>4. OutcomeMap' = OutcomeMap
  BY DEF Aggregate, OutcomeMap, OutcomeOf
<1> QED
  BY <1>2, <1>3, <1>4 DEF Aggregate, Contract!Conclude, Contract!Refused, OutcomeMap

\* Every step of the engine is a step of the contract, or none.
LEMMA ContractStep ==
  ASSUME IInv, StatusIsFinal, [Next]_vars
  PROVE  [Contract!Next]_(Contract!vars)
<1>1. TypeOK
  BY DEF IInv
<1>2. ASSUME NEW s \in Suites, SuiteStep(s) PROVE UNCHANGED Contract!vars
  <2>1. status' = status
    BY <1>2 DEF SuiteStep, RefuseSuite, StartSuite, Collect, Drain
  <2>2. \A t \in Tests : task'[t] = task[t] \/ (task[t] = "none" /\ task'[t] = "scheduled")
    BY <1>2 DEF SuiteStep, RefuseSuite, StartSuite, Collect, Drain, IInv, Lifecycle,
                LifecycleOf, TestsOf
  <2>3. \A t \in Tests : OutcomeOf(t)' = OutcomeOf(t)
    BY <2>2 DEF OutcomeOf, Outcomes
  <2> QED
    BY <2>1, <2>3, ContractStutter
<1>3. ASSUME NEW t \in Tests, EnterSuite(t) \/ EnterGlobal(t) PROVE UNCHANGED Contract!vars
  <2>1. \A u \in Tests : OutcomeOf(u)' = OutcomeOf(u)
    BY <1>1, <1>3 DEF EnterSuite, EnterGlobal, OutcomeOf, Outcomes, TypeOK
  <2> QED
    BY <1>3, <2>1, ContractStutter DEF EnterSuite, EnterGlobal
<1>4. CASE Over \/ UNCHANGED vars
  <2>1. \A u \in Tests : OutcomeOf(u)' = OutcomeOf(u)
    BY <1>4 DEF Over, vars, OutcomeOf
  <2> QED
    BY <1>4, <2>1, ContractStutter DEF Over, vars
<1>5. ASSUME NEW t \in Tests, TaskStep(t) PROVE [Contract!Next]_(Contract!vars)
  BY <1>3, <1>5, ContractSettles DEF TaskStep
<1>6. CASE Aggregate
  BY <1>6, ContractConcludes DEF Contract!Next
<1> QED
  BY <1>2, <1>4, <1>5, <1>6 DEF Next

\* For every plan the engine implements RunContract: each of its steps settles
\* one test, concludes the run or is invisible to who started it.
THEOREM EngineKeepsContract == Spec => KeepsContract
<1>1. Init => Contract!Init /\ StatusIsFinal
  BY DEF Init, Contract!Init, OutcomeOf, Outcomes, StatusIsFinal
<1>2. IInv /\ StatusIsFinal /\ [Next]_vars => StatusIsFinal'
  BY StatusStep DEF IInv
<1>3. IInv /\ StatusIsFinal /\ [Next]_vars => [Contract!Next]_(Contract!vars)
  BY ContractStep
<1> QED
  BY IInvHolds, <1>1, <1>2, <1>3, PTL DEF Spec, Contract!Spec, KeepsContract
-----------------------------------------------------------------------------
\* The tests of a suite that settled on one of either of two kinds of outcome.
LEMMA CountsAdd ==
  ASSUME NEW s \in Suites, NEW O, NEW P, O \cap P = {}
  PROVE  Count(s, O \cup P) = Count(s, O) + Count(s, P)
<1> DEFINE A == {t \in TestsOf(s) : task[t] \in O}
           B == {t \in TestsOf(s) : task[t] \in P}
<1>1. IsFiniteSet(A) /\ IsFiniteSet(B)
  BY CountsAreNat, FS_Subset
<1>2. A \cap B = {} /\ {t \in TestsOf(s) : task[t] \in O \cup P} = A \cup B
  OBVIOUS
<1>3. Cardinality(A \cup B) = Cardinality(A) + Cardinality(B) - Cardinality(A \cap B)
  BY <1>1, FS_Union
<1>4. Cardinality(A) \in Nat /\ Cardinality(B) \in Nat
  BY <1>1, FS_CardinalityType
<1>5. Cardinality(A \cap B) = 0
  BY <1>2, FS_EmptySet
<1> QED
  BY <1>2, <1>3, <1>4, <1>5 DEF Count

\* What the engine knows as the tests of a suite are those the Scheduler kept,
\* each at one place of the file.
LEMMA TestsAreKept ==
  ASSUME NEW s \in Suites
  PROVE  Cardinality(TestsOf(s)) = Cardinality(Kept(Written[s]))
<1> DEFINE w == Written[s]
           f == [i \in Kept(w) |-> w.tests[i].test]
<1>1. Plan[s].tests = {w.tests[i].test : i \in Kept(w)}
  BY DEF Plan, PlanSuite
<1>2. TestsOf(s) = Plan[s].tests
  <2>1. ASSUME NEW t \in TestsOf(s) PROVE t \in Plan[s].tests
    BY PlannedAssumption DEF PlannedAssumption, TestsOf
  <2>2. ASSUME NEW t \in Plan[s].tests PROVE t \in TestsOf(s)
    BY PlannedAssumption DEF PlannedAssumption, TestsOf
  <2> QED
    BY <2>1, <2>2
<1>3. f \in Surjection(Kept(w), TestsOf(s))
  BY <1>1, <1>2 DEF Surjection
<1>4. f \in Injection(Kept(w), TestsOf(s))
  <2>1. \A i, k \in DOMAIN w.tests : w.tests[i].test = w.tests[k].test => i = k
    BY PlannedAssumption DEF PlannedAssumption
  <2> QED
    BY <1>3, <2>1 DEF Surjection, Injection, IsInjective, Kept
<1>5. IsFiniteSet(TestsOf(s))
  BY CountsAreNat
<1> QED
  BY <1>3, <1>4, <1>5, FS_Injection

\* A test in the file of a suite is kept or dropped.
LEMMA KeptAndDropped ==
  ASSUME NEW s \in Suites
  PROVE  /\ Cardinality(Kept(Written[s])) \in Nat
         /\ Cardinality(Dropped(Written[s])) \in Nat
         /\ Cardinality(Kept(Written[s])) + Cardinality(Dropped(Written[s]))
              = Len(Written[s].tests)
<1> DEFINE w == Written[s]
           n == Len(w.tests)
<1>1. n \in Nat /\ DOMAIN w.tests = 1..n
  BY PlannedAssumption DEF PlannedAssumption
<1>2. IsFiniteSet(1..n) /\ Cardinality(1..n) = n
  BY <1>1, FS_Interval
<1>3. /\ Kept(w) \subseteq 1..n /\ Dropped(w) \subseteq 1..n
      /\ Kept(w) \cup Dropped(w) = 1..n /\ Kept(w) \cap Dropped(w) = {}
  BY <1>1 DEF Kept, Dropped
<1>4. IsFiniteSet(Kept(w)) /\ IsFiniteSet(Dropped(w))
  BY <1>2, <1>3, FS_Subset
<1>5. Cardinality(Kept(w)) \in Nat /\ Cardinality(Dropped(w)) \in Nat
  BY <1>4, FS_CardinalityType
<1>6. Cardinality(Kept(w) \cup Dropped(w))
        = Cardinality(Kept(w)) + Cardinality(Dropped(w)) - Cardinality(Kept(w) \cap Dropped(w))
  BY <1>4, FS_Union
<1>7. Cardinality(Kept(w) \cap Dropped(w)) = 0
  BY <1>3, FS_EmptySet
<1>8. Cardinality(Kept(w) \cup Dropped(w)) = n
  BY <1>2, <1>3
<1> HIDE DEF n
<1> QED
  BY <1>5, <1>6, <1>7, <1>8 DEF n

\* A suite that returned counted every one of its tests by its outcome, but for
\* the flaky ones.
LEMMA CountsCoverSuite ==
  ASSUME Lifecycle, NEW s \in Suites, suite[s] = "returned"
  PROVE  Count(s, {"pass"}) + Count(s, {"fail"}) + Count(s, {"error", "raised"})
           + Count(s, {"skipped"}) + Count(s, {"flake"}) = Cardinality(TestsOf(s))
<1> DEFINE O1 == {"pass"} \cup {"fail"}
           O2 == O1 \cup {"error", "raised"}
           O3 == O2 \cup {"skipped"}
           O4 == O3 \cup {"flake"}
<1>1. Count(s, O1) = Count(s, {"pass"}) + Count(s, {"fail"})
  BY CountsAdd
<1>2. Count(s, O2) = Count(s, O1) + Count(s, {"error", "raised"})
  <2>1. O1 \cap {"error", "raised"} = {}
    OBVIOUS
  <2> QED
    BY <2>1, CountsAdd
<1>3. Count(s, O3) = Count(s, O2) + Count(s, {"skipped"})
  <2>1. O2 \cap {"skipped"} = {}
    OBVIOUS
  <2> QED
    BY <2>1, CountsAdd
<1>4. Count(s, O4) = Count(s, O3) + Count(s, {"flake"})
  <2>1. O3 \cap {"flake"} = {}
    OBVIOUS
  <2> QED
    BY <2>1, CountsAdd
<1>5. \A t \in TestsOf(s) : task[t] \in O4
  BY DEF Lifecycle, LifecycleOf, Outcomes
<1>6. Count(s, O4) = Cardinality(TestsOf(s))
  <2>1. {t \in TestsOf(s) : task[t] \in O4} = TestsOf(s)
    BY <1>5
  <2> QED
    BY <2>1 DEF Count
<1> QED
  BY <1>1, <1>2, <1>3, <1>4, <1>6

\* However suites are written, the counts of a SuiteResult add up to the tests
\* in its file, but for the flaky ones (scheduler.py:59-65, executor.py:115-141).
THEOREM WrittenTestsAreAccounted == Spec => []EveryWrittenTestIsAccounted
<1>1. IInv => EveryWrittenTestIsAccounted
  <2> SUFFICES ASSUME IInv, NEW s \in Suites, suite[s] = "returned"
               PROVE  report[s].passed + report[s].failed + report[s].error
                        + report[s].skipped
                        + Cardinality({t \in TestsOf(s) : task[t] = "flake"})
                        = Len(Written[s].tests)
    BY DEF EveryWrittenTestIsAccounted
  <2>1. Lifecycle
    BY DEF IInv
  <2>2. report[s] = SuiteReport(s)
    BY <2>1 DEF Lifecycle, LifecycleOf
  <2>3. /\ report[s].passed = Count(s, {"pass"})
        /\ report[s].failed = Count(s, {"fail"})
        /\ report[s].error = Count(s, {"error", "raised"})
        /\ report[s].skipped = SkippedCount[s] + Count(s, {"skipped"})
    BY <2>2 DEF SuiteReport
  <2>4. SkippedCount[s] = Cardinality(Dropped(Written[s]))
    BY PlannedAssumption DEF PlannedAssumption, Plan, PlanSuite
  <2>5. Cardinality({t \in TestsOf(s) : task[t] = "flake"}) = Count(s, {"flake"})
    <3>1. {t \in TestsOf(s) : task[t] = "flake"} = {t \in TestsOf(s) : task[t] \in {"flake"}}
      OBVIOUS
    <3> QED
      BY <3>1 DEF Count
  <2>6. /\ Count(s, {"pass"}) \in Nat /\ Count(s, {"fail"}) \in Nat
        /\ Count(s, {"error", "raised"}) \in Nat /\ Count(s, {"skipped"}) \in Nat
        /\ Count(s, {"flake"}) \in Nat
    BY CountsAreNat
  <2>7. Count(s, {"pass"}) + Count(s, {"fail"}) + Count(s, {"error", "raised"})
          + Count(s, {"skipped"}) + Count(s, {"flake"}) = Cardinality(TestsOf(s))
    BY <2>1, CountsCoverSuite
  <2>8. /\ Cardinality(Kept(Written[s])) \in Nat
        /\ Cardinality(Dropped(Written[s])) \in Nat
        /\ Cardinality(Kept(Written[s])) + Cardinality(Dropped(Written[s]))
             = Len(Written[s].tests)
    BY KeptAndDropped
  <2>9. Cardinality(TestsOf(s)) = Cardinality(Kept(Written[s]))
    BY TestsAreKept
  <2> QED
    BY <2>3, <2>4, <2>5, <2>6, <2>7, <2>8, <2>9
<1> QED
  BY <1>1, IInvHolds, PTL
-----------------------------------------------------------------------------
\* A suite's coroutine, and a test's task, can go on: a guard of one of its
\* actions holds (executor.py:55-113; 57-64 and 143-147).
SuiteMoves(s) ==
  \/ suite[s] = "created"
  \/ suite[s] = "waiting" /\ Arrived(s) # {}
  \/ suite[s] = "draining" /\ Arrived(s) = pending[s]

TaskMoves(t) ==
  \/ task[t] = "running"
  \/ t \in cancelling /\ task[t] \in Active
  \/ t \notin cancelling /\ task[t] = "scheduled" /\ suiteFree[SuiteOf[t]] > 0
  \/ t \notin cancelling /\ task[t] = "queued" /\ globalFree > 0

\* The two nested semaphores never lock each other out: a suite with a limit
\* other than 0 that has not ended goes on by itself, or one of its tests does,
\* or a test runs somewhere, whose end will give a permit back.
NeverStuck ==
  \A s \in Suites : suite[s] \notin SuiteDone /\ MaxConcurrency[s] # 0 =>
    \/ SuiteMoves(s)
    \/ \E t \in TestsOf(s) : TaskMoves(t)
    \/ \E t \in Tests : task[t] = "running"

\* A suite that waits waits for a test, and only a global cap makes tests queue.
WaitsHaveCause ==
  /\ \A s \in Suites : suite[s] = "waiting" => pending[s] # {}
  /\ \A t \in Tests : task[t] = "queued" => GlobalCap # 0

LEMMA CausesOfWaits ==
  ASSUME TypeOK, WaitsHaveCause, [Next]_vars
  PROVE  WaitsHaveCause'
<1> USE DEF TypeOK, WaitsHaveCause
<1>1. CASE UNCHANGED vars \/ Over \/ Aggregate
  BY <1>1 DEF vars, Over, Aggregate
<1>2. ASSUME NEW r \in Suites, SuiteStep(r) PROVE WaitsHaveCause'
  <2>1. ASSUME NEW s \in Suites, suite'[s] = "waiting" PROVE pending'[s] # {}
    <3>1. CASE s # r
      BY <1>2, <2>1, <3>1 DEF SuiteStep, RefuseSuite, StartSuite, Collect, Drain, ReturnSuite
    <3>2. CASE s = r /\ StartSuite(r)
      BY <2>1, <3>2 DEF StartSuite, ReturnSuite
    <3>3. CASE s = r /\ Collect(r)
      <4>1. pending[r] # Arrived(r) /\ pending'[r] = pending[r] \ Arrived(r)
        BY <2>1, <3>3 DEF Collect, ReturnSuite
      <4>2. Arrived(r) \subseteq pending[r]
        BY DEF Arrived
      <4> QED
        BY <3>3, <4>1, <4>2
    <3>4. CASE s = r /\ (RefuseSuite(r) \/ Drain(r))
      BY <2>1, <3>4 DEF RefuseSuite, Drain, ReturnSuite
    <3> QED
      BY <1>2, <3>1, <3>2, <3>3, <3>4 DEF SuiteStep
  <2>2. ASSUME NEW t \in Tests, task'[t] = "queued" PROVE GlobalCap # 0
    BY <1>2, <2>2 DEF SuiteStep, RefuseSuite, StartSuite, Collect, Drain
  <2> QED
    BY <2>1, <2>2
<1>3. ASSUME NEW u \in Tests, TaskStep(u) PROVE WaitsHaveCause'
  <2>1. UNCHANGED <<suite, pending>>
    BY <1>3 DEF TaskStep, EnterSuite, EnterGlobal, TestEnds, Finish, Unwind
  <2>2. ASSUME NEW t \in Tests, task'[t] = "queued" PROVE GlobalCap # 0
    BY <1>3, <2>2 DEF TaskStep, EnterSuite, EnterGlobal, TestEnds, Finish, Unwind, Outcomes
  <2> QED
    BY <2>1, <2>2
<1> QED
  BY <1>1, <1>2, <1>3 DEF Next

\* With no test running, every global permit is free, and with none of a suite
\* queued or running every permit of the suite.
LEMMA FreePermits ==
  ASSUME TypeOK, PermitConservation
  PROVE  /\ (\A t \in Tests : task[t] # "running") /\ GlobalCap # 0 => globalFree = GlobalCap
         /\ \A s \in Suites :
              /\ suite[s] \in {"waiting", "draining"}
              /\ \A t \in TestsOf(s) : task[t] \notin {"queued", "running"}
              => suiteFree[s] = MaxConcurrency[s]
<1>1. ASSUME \A t \in Tests : task[t] # "running", GlobalCap # 0
      PROVE  globalFree = GlobalCap
  <2>1. Cardinality(GlobalHolders) = 0
    <3>1. GlobalHolders = {}
      BY <1>1 DEF GlobalHolders
    <3> QED
      BY <3>1, FS_EmptySet
  <2> QED
    BY <1>1, <2>1 DEF TypeOK, PermitConservation, GlobalPermits
<1>2. ASSUME NEW s \in Suites, suite[s] \in {"waiting", "draining"},
             \A t \in TestsOf(s) : task[t] \notin {"queued", "running"}
      PROVE  suiteFree[s] = MaxConcurrency[s]
  <2>1. Cardinality(SuiteHolders(s)) = 0
    <3>1. SuiteHolders(s) = {}
      BY <1>2 DEF SuiteHolders
    <3> QED
      BY <3>1, FS_EmptySet
  <2> QED
    BY <1>2, <2>1 DEF TypeOK, PermitConservation, SuitePermits
<1> QED
  BY <1>1, <1>2

\* For every plan and at any time no suite is stuck: what it waits for moves.
THEOREM SuitesAreNeverStuck == Spec => []NeverStuck
<1>1. IInv /\ WaitsHaveCause => NeverStuck
  <2> SUFFICES ASSUME IInv, WaitsHaveCause, NEW s \in Suites, suite[s] \notin SuiteDone,
                      MaxConcurrency[s] # 0, ~SuiteMoves(s),
                      \A t \in Tests : task[t] # "running"
               PROVE  \E t \in TestsOf(s) : TaskMoves(t)
    BY DEF NeverStuck
  <2>1. TypeOK /\ LifecycleOf(s) /\ PermitConservation
    BY DEF IInv, Lifecycle
  <2>2. suite[s] \in {"waiting", "draining"}
    BY <2>1 DEF TypeOK, SuiteMoves
  <2>3. pending[s] \subseteq TestsOf(s) /\ \A t \in pending[s] : task[t] # "none"
    BY <2>1, <2>2 DEF LifecycleOf
  <2>4. PICK t \in pending[s] : task[t] \notin TaskDone
    <3>1. CASE suite[s] = "waiting"
      BY <3>1 DEF SuiteMoves, WaitsHaveCause, Arrived
    <3>2. CASE suite[s] = "draining"
      BY <3>2 DEF SuiteMoves, Arrived
    <3> QED
      BY <2>2, <3>1, <3>2
  <2>5. /\ t \in TestsOf(s) /\ t \in Tests /\ SuiteOf[t] = s
        /\ task[t] \in {"scheduled", "queued"}
    BY <2>1, <2>3, <2>4 DEF TestsOf, TypeOK, Active
  <2>6. CASE \E u \in TestsOf(s) : task[u] = "queued"
    <3>1. PICK u \in TestsOf(s) : task[u] = "queued"
      BY <2>6
    <3>2. u \in Tests /\ GlobalCap # 0
      BY <3>1 DEF TestsOf, WaitsHaveCause
    <3>3. globalFree = GlobalCap
      BY <2>1, <3>2, FreePermits
    <3>4. globalFree > 0
      BY <3>2, <3>3, ExecutorAssumption DEF ExecutorAssumption
    <3> QED
      BY <3>1, <3>4 DEF TaskMoves, Active
  <2>7. CASE \A u \in TestsOf(s) : task[u] # "queued"
    <3>1. \A u \in TestsOf(s) : task[u] \notin {"queued", "running"}
      BY <2>7 DEF TestsOf
    <3>2. suiteFree[s] = MaxConcurrency[s]
      BY <2>1, <2>2, <3>1, FreePermits
    <3>3. suiteFree[s] > 0
      BY <2>1, <3>2 DEF TypeOK
    <3> QED
      BY <2>5, <2>7, <3>3 DEF TaskMoves, Active
  <2> QED
    BY <2>6, <2>7
<1>2. Init => WaitsHaveCause
  BY DEF Init, WaitsHaveCause
<1>3. IInv /\ WaitsHaveCause /\ [Next]_vars => WaitsHaveCause'
  BY CausesOfWaits DEF IInv
<1> QED
  BY IInvHolds, <1>1, <1>2, <1>3, PTL DEF Spec
==============================================================================
