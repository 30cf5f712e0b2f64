------------------------- MODULE TestExecutionProofs -------------------------
(***************************************************************************)
(* What one test's execution guarantees for every set of test plans: any    *)
(* number of runs, turns and evaluators, any threshold.  The flake verdict   *)
(* is settled by counting: every run that was not skipped either passed or   *)
(* failed or raised (CountSplits), so "fewer passes than runs that were not  *)
(* skipped" says that some run failed or raised.                             *)
(***************************************************************************)
EXTENDS TestExecution, FiniteSetTheorems, TLAPS

Verdicts == RunStatuses \cup {"flake"}

\* A test without a result has runs to go; a test with one has had them all.
Settled ==
  /\ result = "none" => Len(runs) < plan.runs
  /\ result \in Verdicts => Len(runs) = plan.runs /\ result = TestStatus(runs)

\* The run that ended last has the status of what it saw, or raised.
LastRun ==
  runs # << >> =>
    \/ runs[Len(runs)] = "error"
    \/ /\ Len(seen.calls) = plan.turns
       /\ runs[Len(runs)] = RunStatus(seen.calls, seen.answers)

IInv == TypeOK /\ Settled /\ LastRun

-----------------------------------------------------------------------------
\* The plan that is executed is well formed.
LEMMA PlanFacts ==
  ASSUME plan \in Plans
  PROVE  /\ plan.runs \in Nat \ {0} /\ plan.pass_threshold \in Nat \ {0}
         /\ plan.conversation \in BOOLEAN /\ plan.checksExit \in BOOLEAN
         /\ plan.turns \in Nat /\ (~plan.conversation => plan.turns = 1)
         /\ plan.evals \in Nat
BY TestExecutionAssumption

\* Counting runs: a count is a number, it is 0 when no run has such a status.
LEMMA CountFacts ==
  ASSUME NEW rs \in Seq(RunStatuses), NEW S
  PROVE  /\ IsFiniteSet({i \in DOMAIN rs : rs[i] \in S})
         /\ CountIn(rs, S) \in Nat
         /\ CountIn(rs, S) = 0 <=> \A i \in DOMAIN rs : rs[i] \notin S
<1>1. DOMAIN rs = 1..Len(rs) /\ Len(rs) \in Nat
  OBVIOUS
<1>2. IsFiniteSet(DOMAIN rs)
  BY <1>1, FS_Interval
<1>3. IsFiniteSet({i \in DOMAIN rs : rs[i] \in S})
  BY <1>2, FS_Subset
<1> QED  BY <1>3, FS_CardinalityType, FS_EmptySet DEF CountIn

\* The runs that were not skipped are those that passed and those that failed
\* or raised.
LEMMA CountSplits ==
  ASSUME NEW rs \in Seq(RunStatuses)
  PROVE  CountIn(rs, RunStatuses \ {"skipped"})
           = CountIn(rs, {"pass"}) + CountIn(rs, {"fail", "error"})
<1> DEFINE P == {i \in DOMAIN rs : rs[i] \in {"pass"}}
           F == {i \in DOMAIN rs : rs[i] \in {"fail", "error"}}
           N == {i \in DOMAIN rs : rs[i] \in RunStatuses \ {"skipped"}}
<1>1. IsFiniteSet(P) /\ IsFiniteSet(F)
  BY CountFacts
<1>2. N = P \cup F /\ P \cap F = {}
  BY DEF RunStatuses
<1>3. Cardinality(P \cap F) = 0
  BY <1>2, FS_EmptySet
<1>4. Cardinality(P) \in Nat /\ Cardinality(F) \in Nat
  BY <1>1, FS_CardinalityType
<1>5. Cardinality(P \cup F) = Cardinality(P) + Cardinality(F) - Cardinality(P \cap F)
  BY <1>1, FS_Union
<1>6. Cardinality(N) = Cardinality(P) + Cardinality(F)
  <2> HIDE DEF P, F, N
  <2>1. Cardinality(N) = Cardinality(P \cup F)
    BY <1>2
  <2> QED  BY <2>1, <1>3, <1>4, <1>5
<1> QED  BY <1>6 DEF CountIn

\* What FlakeDetector.detect answers, in counts.
LEMMA FlakeStatusFacts ==
  ASSUME NEW rs \in Seq(RunStatuses), plan \in Plans
  PROVE  LET p == CountIn(rs, {"pass"})
             f == CountIn(rs, {"fail", "error"})
         IN  /\ FlakeStatus(rs) \in {"pass", "fail", "flake", "skipped"}
             /\ FlakeStatus(rs) = "skipped" <=> p + f = 0
             /\ FlakeStatus(rs) = "flake" <=> f > 0 /\ p >= plan.pass_threshold
             /\ FlakeStatus(rs) = "pass" => p > 0 /\ f = 0
             /\ f = 0 /\ p >= plan.pass_threshold => FlakeStatus(rs) = "pass"
<1> DEFINE p == CountIn(rs, {"pass"})
           f == CountIn(rs, {"fail", "error"})
           n == CountIn(rs, RunStatuses \ {"skipped"})
<1>1. p \in Nat /\ f \in Nat /\ n = p + f
  BY CountFacts, CountSplits
<1>2. plan.pass_threshold \in Nat /\ plan.pass_threshold > 0
  BY PlanFacts
<1>3. CASE n = 0
  BY <1>1, <1>2, <1>3 DEF FlakeStatus
<1>4. CASE n # 0 /\ p < n /\ p >= plan.pass_threshold
  BY <1>1, <1>2, <1>4 DEF FlakeStatus
<1>5. CASE n # 0 /\ ~(p < n /\ p >= plan.pass_threshold)
  <2>1. CASE p = n
    BY <1>1, <1>2, <1>5, <2>1 DEF FlakeStatus
  <2>2. CASE p # n
    BY <1>1, <1>2, <1>5, <2>2 DEF FlakeStatus
  <2> QED  BY <2>1, <2>2
<1> QED  BY <1>3, <1>4, <1>5

\* What the verdict of a run says of its evaluators and of Moss.
LEMMA RunStatusFacts ==
  ASSUME NEW c \in Seq(CallResults), NEW A \in SUBSET Answers,
         plan \in Plans, Len(c) = plan.turns
  PROVE  /\ RunStatus(c, A) \in {"pass", "fail", "skipped"}
         /\ RunStatus(c, A) = "skipped" => A \subseteq {"skipped"}
         /\ RunStatus(c, A) = "fail" =>
              \/ "failed" \in A
              \/ plan.checksExit /\ \E i \in DOMAIN c : c[i] # "ok"
<1>1. ~plan.conversation => 1 \in DOMAIN c
  BY PlanFacts
<1>2. RunStatus(c, A) \in {"pass", "fail", "skipped"}
  BY DEF RunStatus
<1>3. RunStatus(c, A) = "skipped" => A \subseteq {"skipped"}
  BY DEF RunStatus
<1>4. ASSUME RunStatus(c, A) = "fail", "failed" \notin A
      PROVE  plan.checksExit /\ ~ExitCodeIsZero(c)
  BY <1>4 DEF RunStatus, Answers
<1> QED  BY <1>1, <1>2, <1>3, <1>4 DEF ExitCodeIsZero
-----------------------------------------------------------------------------
\* A run that ends adds its status; a test whose last run ends has its verdict.
LEMMA EndRunFacts ==
  ASSUME IInv, NEW s \in RunStatuses, result = "none", EndRun(s)
  PROVE  /\ plan' = plan /\ plan' \in Plans /\ calls' = << >>
         /\ runs' \in Seq(RunStatuses) /\ Len(runs') <= plan'.runs
         /\ runs' # << >> /\ runs'[Len(runs')] = s
         /\ result' \in RunStatuses \cup {"none", "flake"}
         /\ Settled'
<1>1. plan \in Plans /\ plan' = plan /\ runs \in Seq(RunStatuses)
  BY DEF IInv, TypeOK, EndRun
<1>2. plan.runs \in Nat /\ plan.turns \in Nat
  BY <1>1, PlanFacts
<1>3. /\ runs' \in Seq(RunStatuses) /\ Len(runs') = Len(runs) + 1
      /\ runs'[Len(runs')] = s /\ runs' # << >> /\ calls' = << >>
  BY <1>1 DEF EndRun
<1>4. Len(runs) < plan.runs
  BY DEF IInv, Settled
<1>5. Len(runs') <= plan.runs
  BY <1>1, <1>2, <1>3, <1>4
<1>6. CASE Len(runs') = plan.runs
  <2>1. result' = TestStatus(runs')
    BY <1>6 DEF EndRun
  <2>2. TestStatus(runs') \in Verdicts
    <3>1. CASE plan.runs = 1
      BY <1>3, <1>6, <3>1 DEF TestStatus, Verdicts
    <3>2. CASE plan.runs # 1
      BY <1>1, <1>3, <3>2, FlakeStatusFacts DEF TestStatus, Verdicts, RunStatuses
    <3> QED  BY <3>1, <3>2
  <2>3. result' = TestStatus(runs)'
    BY <2>1, <1>1 DEF TestStatus, FlakeStatus
  <2> QED  BY <1>1, <1>3, <1>5, <1>6, <2>1, <2>2, <2>3 DEF Settled, Verdicts, RunStatuses
<1>7. CASE Len(runs') # plan.runs
  <2>1. result' = "none"
    BY <1>7 DEF EndRun
  <2> QED  BY <1>1, <1>2, <1>3, <1>5, <1>7, <2>1 DEF Settled, Verdicts, RunStatuses
<1> QED  BY <1>6, <1>7

\* A test that has not begun satisfies the inductive invariant.
THEOREM InvInit == Init => IInv
<1> SUFFICES ASSUME Init PROVE IInv
  OBVIOUS
<1>1. plan.runs \in Nat \ {0} /\ plan.turns \in Nat
  BY PlanFacts DEF Init
<1>2. TypeOK
  BY <1>1 DEF Init, TypeOK
<1> QED  BY <1>1, <1>2 DEF Init, IInv, Settled, LastRun, Verdicts, RunStatuses

\* Every Moss call, evaluation, exception and cancel of a test keeps the
\* inductive invariant (executor.py:149-214, flake.py:15-33).
THEOREM InvStep == IInv /\ [Next]_vars => IInv'
<1> SUFFICES ASSUME IInv, [Next]_vars PROVE IInv'
  OBVIOUS
<1>1. /\ plan \in Plans /\ calls \in Seq(CallResults) /\ Len(calls) <= plan.turns
      /\ plan.turns \in Nat /\ plan.runs \in Nat
      /\ runs \in Seq(RunStatuses) /\ seen \in [calls : Seq(CallResults), answers : SUBSET Answers]
  BY PlanFacts DEF IInv, TypeOK
<1>2. ASSUME UNCHANGED vars PROVE IInv'
  BY <1>2 DEF vars, IInv, TypeOK, Settled, LastRun, RunStatus, ExitCodeIsZero,
              TestStatus, FlakeStatus
<1>3. ASSUME NEW c \in CallResults, MossReturns(c) PROVE IInv'
  <2>1. /\ calls' \in Seq(CallResults) /\ Len(calls') = Len(calls) + 1
        /\ UNCHANGED <<plan, seen, runs, result>> /\ Len(calls) < plan.turns
    BY <1>1, <1>3 DEF MossReturns
  <2>2. Len(calls') <= plan.turns
    BY <1>1, <2>1
  <2>3. TypeOK'
    BY <2>1, <2>2 DEF IInv, TypeOK
  <2> QED  BY <2>1, <2>3 DEF IInv, Settled, LastRun, RunStatus, ExitCodeIsZero,
                            TestStatus, FlakeStatus
<1>4. ASSUME NEW A \in SUBSET Answers, Evaluate(A) PROVE IInv'
  <2>1. /\ result = "none" /\ Len(calls) = plan.turns /\ EndRun(RunStatus(calls, A))
        /\ seen' = [calls |-> calls, answers |-> A]
    BY <1>4 DEF Evaluate
  <2>2. RunStatus(calls, A) \in RunStatuses
    BY <1>1, <2>1, RunStatusFacts DEF RunStatuses
  <2>3. /\ plan' = plan /\ plan' \in Plans /\ calls' = << >>
        /\ runs' \in Seq(RunStatuses) /\ Len(runs') <= plan'.runs
        /\ runs'[Len(runs')] = RunStatus(calls, A)
        /\ result' \in RunStatuses \cup {"none", "flake"}
        /\ Settled'
    BY <2>1, <2>2, EndRunFacts
  <2>4. TypeOK'
    BY <1>1, <2>1, <2>3 DEF TypeOK
  <2>5. Len(seen'.calls) = plan'.turns
    BY <2>1, <2>3
  <2>6. RunStatus(seen.calls, seen.answers)' = RunStatus(calls, A)
    BY <2>1, <2>3 DEF RunStatus, ExitCodeIsZero
  <2>7. LastRun'
    BY <2>3, <2>5, <2>6 DEF LastRun
  <2> QED  BY <2>3, <2>4, <2>7 DEF IInv
<1>5. ASSUME Raise PROVE IInv'
  <2>1. /\ result = "none" /\ EndRun("error")
        /\ seen' = [calls |-> calls, answers |-> {}]
    BY <1>5 DEF Raise
  <2>2. "error" \in RunStatuses
    BY DEF RunStatuses
  <2>3. /\ plan' = plan /\ plan' \in Plans /\ calls' = << >>
        /\ runs' \in Seq(RunStatuses) /\ Len(runs') <= plan'.runs
        /\ runs'[Len(runs')] = "error"
        /\ result' \in RunStatuses \cup {"none", "flake"}
        /\ Settled'
    BY <2>1, <2>2, EndRunFacts
  <2>4. TypeOK'
    BY <1>1, <2>1, <2>3 DEF TypeOK
  <2>5. LastRun'
    BY <2>3 DEF LastRun
  <2> QED  BY <2>3, <2>4, <2>5 DEF IInv
<1>6. ASSUME Cancelled PROVE IInv'
  <2>1. UNCHANGED <<plan, calls, seen, runs>> /\ result' = "cancelled"
    BY <1>6 DEF Cancelled
  <2>2. TypeOK'
    BY <2>1 DEF IInv, TypeOK
  <2> QED  BY <2>1, <2>2 DEF IInv, Settled, LastRun, RunStatus, ExitCodeIsZero,
                            Verdicts, RunStatuses
<1> QED  BY <1>2, <1>3, <1>4, <1>5, <1>6 DEF Next, Over

\* The inductive invariant of a test's execution holds at all times.
THEOREM IInvHolds == Spec => []IInv
BY InvInit, InvStep, PTL DEF Spec

\* Type correctness of one test's execution (executor.py:149-214): no test runs
\* more often than its plan says, no run makes more calls than it has turns.
THEOREM TypeCorrect == Spec => []TypeOK
<1>1. IInv => TypeOK
  BY DEF IInv
<1> QED  BY <1>1, IInvHolds, PTL

-----------------------------------------------------------------------------
\* The verdict of a single-run test is its run's status.
LEMMA SingleRun ==
  ASSUME IInv, result \in Verdicts, plan.runs = 1
  PROVE  /\ runs = <<result>> /\ DOMAIN runs = {1} /\ result \in RunStatuses
<1>1. Len(runs) = 1 /\ result = TestStatus(runs) /\ runs \in Seq(RunStatuses)
  BY DEF IInv, Settled, TypeOK
<1>2. result = runs[1]
  BY <1>1 DEF TestStatus
<1> QED  BY <1>1, <1>2

\* A test that passed has a run that passed and none that failed or raised,
\* whatever its consensus, threshold and number of runs (flake.py:26-33).
THEOREM PassesHideNothing == Spec => []PassHidesNothing
<1>1. IInv => PassHidesNothing
  <2> SUFFICES ASSUME IInv, result = "pass"
               PROVE  CountIn(runs, {"pass"}) > 0 /\ CountIn(runs, {"fail", "error"}) = 0
    BY DEF PassHidesNothing
  <2>1. result \in Verdicts /\ runs \in Seq(RunStatuses) /\ plan \in Plans
    BY DEF Verdicts, RunStatuses, IInv, TypeOK
  <2>2. CASE plan.runs = 1
    <3>1. DOMAIN runs = {1} /\ runs[1] = "pass"
      BY <2>1, <2>2, SingleRun
    <3>2. CountIn(runs, {"pass"}) # 0 /\ CountIn(runs, {"pass"}) \in Nat
      BY <2>1, <3>1, CountFacts
    <3>3. CountIn(runs, {"fail", "error"}) = 0
      BY <2>1, <3>1, CountFacts
    <3> QED  BY <3>2, <3>3
  <2>3. CASE plan.runs # 1
    <3>1. FlakeStatus(runs) = "pass"
      BY <2>1, <2>3 DEF IInv, Settled, TestStatus
    <3> QED  BY <2>1, <3>1, FlakeStatusFacts
  <2> QED  BY <2>2, <2>3
<1> QED  BY <1>1, IInvHolds, PTL

\* "flake" is the verdict of exactly the tests that failed or raised at least
\* once and still passed often enough (flake.py:32-33).
THEOREM FlakesAreInconsistent == Spec => []FlakeMeansInconsistent
<1>1. IInv => FlakeMeansInconsistent
  <2> SUFFICES ASSUME IInv, result \notin {"none", "cancelled"}, plan.runs > 1
               PROVE  result = "flake" <=>
                        /\ CountIn(runs, {"pass"}) >= plan.pass_threshold
                        /\ CountIn(runs, {"fail", "error"}) > 0
    BY DEF FlakeMeansInconsistent
  <2>1. result \in Verdicts /\ runs \in Seq(RunStatuses) /\ plan \in Plans
    BY DEF Verdicts, IInv, TypeOK
  <2>2. plan.runs \in Nat
    BY <2>1, PlanFacts
  <2>3. result = FlakeStatus(runs)
    BY <2>1, <2>2 DEF IInv, Settled, TestStatus
  <2> QED  BY <2>1, <2>3, FlakeStatusFacts
<1> QED  BY <1>1, IInvHolds, PTL

\* A run that turns from a failure into a pass adds one to the passes and takes
\* one from the failures.
LEMMA BetterRunCounts ==
  ASSUME NEW rs \in Seq(RunStatuses), NEW i \in DOMAIN rs, rs[i] \in {"fail", "error"},
         NEW better, better = [rs EXCEPT ![i] = "pass"]
  PROVE  /\ better \in Seq(RunStatuses)
         /\ CountIn(better, {"pass"}) = CountIn(rs, {"pass"}) + 1
         /\ CountIn(better, {"fail", "error"}) = CountIn(rs, {"fail", "error"}) - 1
<1> DEFINE P(s) == {k \in DOMAIN s : s[k] \in {"pass"}}
           F(s) == {k \in DOMAIN s : s[k] \in {"fail", "error"}}
<1>1. /\ better \in Seq(RunStatuses) /\ DOMAIN better = DOMAIN rs /\ better[i] = "pass"
      /\ \A k \in DOMAIN rs : k # i => better[k] = rs[k]
  BY DEF RunStatuses
<1>2. P(better) = P(rs) \cup {i} /\ i \notin P(rs)
  BY <1>1
<1>3. F(better) = F(rs) \ {i} /\ i \in F(rs)
  BY <1>1
<1>4. IsFiniteSet(P(rs)) /\ IsFiniteSet(F(rs))
  BY CountFacts
<1>5. Cardinality(P(better)) = Cardinality(P(rs)) + 1
  <2> HIDE DEF P
  <2> QED  BY <1>2, <1>4, FS_AddElement
<1>6. Cardinality(F(better)) = Cardinality(F(rs)) - 1
  <2> HIDE DEF F
  <2> QED  BY <1>3, <1>4, FS_RemoveElement
<1> QED  BY <1>1, <1>5, <1>6 DEF CountIn

\* For any plan, a run that passes instead of failing or raising never makes the
\* test's status worse (flake.py:22-33).
THEOREM BetterIsNeverWorse == Spec => []BetterRunsNeverHurt
<1>1. IInv => BetterRunsNeverHurt
  <2> SUFFICES ASSUME IInv, result \in RunStatuses \cup {"flake"}, NEW i \in DOMAIN runs,
                      runs[i] \in {"fail", "error"}
               PROVE  Rank(TestStatus([runs EXCEPT ![i] = "pass"])) >= Rank(result)
    BY DEF BetterRunsNeverHurt
  <2> DEFINE better == [runs EXCEPT ![i] = "pass"]
             p == CountIn(runs, {"pass"})
             f == CountIn(runs, {"fail", "error"})
  <2>1. /\ result \in Verdicts /\ runs \in Seq(RunStatuses) /\ plan \in Plans
        /\ result = TestStatus(runs)
    BY DEF Verdicts, IInv, Settled, TypeOK
  <2>2. CASE plan.runs = 1
    <3>1. DOMAIN runs = {1}
      BY <2>1, <2>2, SingleRun
    <3>2. TestStatus(better) = "pass"
      BY <2>1, <2>2, <3>1 DEF TestStatus
    <3> QED  BY <2>1, <3>2 DEF Rank, RunStatuses
  <2>3. CASE plan.runs # 1
    <3>1. /\ better \in Seq(RunStatuses)
          /\ CountIn(better, {"pass"}) = p + 1
          /\ CountIn(better, {"fail", "error"}) = f - 1
      BY <2>1, BetterRunCounts
    <3>2. p \in Nat /\ f \in Nat /\ f # 0 /\ plan.pass_threshold \in Nat
      BY <2>1, CountFacts, PlanFacts
    <3>3. /\ result = FlakeStatus(runs)
          /\ TestStatus(better) = FlakeStatus(better)
      BY <2>1, <2>3 DEF TestStatus
    <3>4. result \in {"fail", "flake"}
      BY <2>1, <3>2, <3>3, FlakeStatusFacts
    <3>5. FlakeStatus(better) \in {"pass", "fail", "flake", "skipped"}
      BY <2>1, <3>1, FlakeStatusFacts
    <3>6. CASE result = "fail"
      BY <3>3, <3>5, <3>6 DEF Rank
    <3>7. CASE result = "flake"
      <4>1. p >= plan.pass_threshold
        BY <2>1, <3>3, <3>7, FlakeStatusFacts
      <4>2. FlakeStatus(better) \in {"pass", "flake"}
        <5>1. CASE f = 1
          BY <2>1, <3>1, <3>2, <4>1, <5>1, FlakeStatusFacts
        <5>2. CASE f > 1
          BY <2>1, <3>1, <3>2, <4>1, <5>2, FlakeStatusFacts
        <5> QED  BY <3>2, <5>1, <5>2
      <4> QED  BY <3>3, <3>7, <4>2 DEF Rank
    <3> QED  BY <3>4, <3>6, <3>7
  <2> QED  BY <2>2, <2>3
<1> QED  BY <1>1, IInvHolds, PTL

\* A skipped test has no run with a decisive answer, a skipped run no evaluator
\* with one (executor.py:197-205, flake.py:22-25).
THEOREM SkipsLoseNothing == Spec => []SkippedMeansNoVerdict
<1>1. IInv => SkippedMeansNoVerdict
  <2> SUFFICES ASSUME IInv PROVE SkippedMeansNoVerdict
    OBVIOUS
  <2>1. /\ runs \in Seq(RunStatuses) /\ plan \in Plans
        /\ seen.calls \in Seq(CallResults) /\ seen.answers \in SUBSET Answers
    BY DEF IInv, TypeOK
  <2>2. ASSUME result = "skipped", NEW i \in DOMAIN runs PROVE runs[i] = "skipped"
    <3>1. result \in Verdicts
      BY <2>2 DEF Verdicts, RunStatuses
    <3>2. CASE plan.runs = 1
      BY <2>2, <3>1, <3>2, SingleRun
    <3>3. CASE plan.runs # 1
      <4>1. FlakeStatus(runs) = "skipped"
        BY <2>2, <3>1, <3>3 DEF IInv, Settled, TestStatus
      <4>2. CountIn(runs, {"pass"}) + CountIn(runs, {"fail", "error"}) = 0
        BY <2>1, <4>1, FlakeStatusFacts
      <4>3. CountIn(runs, RunStatuses \ {"skipped"}) = 0
        BY <2>1, <4>2, CountSplits
      <4>4. runs[i] \notin RunStatuses \ {"skipped"}
        BY <2>1, <4>3, CountFacts
      <4>5. runs[i] \in RunStatuses
        BY <2>1
      <4> QED  BY <4>4, <4>5
    <3> QED  BY <3>2, <3>3
  <2>3. ASSUME runs # << >>, runs[Len(runs)] = "skipped"
        PROVE  seen.answers \subseteq {"skipped"}
    BY <2>1, <2>3, RunStatusFacts DEF IInv, LastRun
  <2> QED  BY <2>2, <2>3 DEF SkippedMeansNoVerdict
<1> QED  BY <1>1, IInvHolds, PTL

\* A run fails only on account of an evaluator that failed it or of a non-zero
\* exit code of Moss; an evaluator that was skipped never turns a run red
\* (executor.py:197-205).
THEOREM FailuresAreReal == Spec => []FailureNeedsFailedEvaluator
<1>1. IInv => FailureNeedsFailedEvaluator
  <2> SUFFICES ASSUME IInv, runs # << >>, runs[Len(runs)] = "fail"
               PROVE  \/ "failed" \in seen.answers
                      \/ plan.checksExit /\ \E i \in DOMAIN seen.calls : seen.calls[i] # "ok"
    BY DEF FailureNeedsFailedEvaluator
  <2>1. /\ plan \in Plans
        /\ seen.calls \in Seq(CallResults) /\ seen.answers \in SUBSET Answers
    BY DEF IInv, TypeOK
  <2>2. Len(seen.calls) = plan.turns /\ RunStatus(seen.calls, seen.answers) = "fail"
    BY DEF IInv, LastRun
  <2> QED  BY <2>1, <2>2, RunStatusFacts
<1> QED  BY <1>1, IInvHolds, PTL
=============================================================================
