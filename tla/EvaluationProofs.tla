-------------------------- MODULE EvaluationProofs --------------------------
(***************************************************************************)
(* What an executed test guarantees for every set of tests, of Moss replies *)
(* and of judge replies: it does what TestExecution says, and it is green   *)
(* on evidence.                                                             *)
(***************************************************************************)
EXTENDS Evaluation, SequenceLemmas, TLAPS

Statuses == [n \in DOMAIN results |-> results[n].status]

\* An eval of a judge that passed has a good score.
JudgedWell(i, a) ==
  test.evals[i].type = "llm_judge" /\ a.passed => GoodScore(test.evals[i].spec, a.score)

\* A test without a result has runs to go; one with a result has that of its runs.
Settled ==
  /\ result = "none" => Len(results) < test.runs
  /\ result \notin {"none", "cancelled"} =>
       Len(results) = test.runs /\ result = T!TestStatus(Statuses)

\* Evaluators are asked when Moss is done; an exit_code check is never skipped.
AnswersInOrder ==
  /\ answers # << >> => Len(turns) = test.turns
  /\ \A i \in DOMAIN answers :
       /\ JudgedWell(i, answers[i])
       /\ IsExitCheck(test.evals[i]) =>
            ~answers[i].skipped /\ answers[i].passed = ExitCodeIsZero

\* A run that was not red has no answer against it, a green one an answer for it.
RunsJudged ==
  \A n \in DOMAIN results :
    LET evals == results[n].evals
    IN  /\ Len(evals) <= Len(test.evals)
        /\ \A i \in DOMAIN evals : JudgedWell(i, evals[i])
        /\ results[n].status \in {"pass", "skipped"} =>
             \A i \in DOMAIN evals : evals[i].skipped \/ evals[i].passed
        /\ results[n].status = "pass" => \E i \in DOMAIN evals : evals[i].passed

IInv == TypeOK /\ Settled /\ AnswersInOrder /\ RunsJudged
-----------------------------------------------------------------------------
\* What is assumed of the test that is executed.
LEMMA TestFacts ==
  ASSUME test \in Tests
  PROVE  /\ test.runs \in Nat \ {0} /\ test.turns \in Nat
         /\ ~test.conversation => test.turns = 1
         /\ Len(test.evals) \in Nat /\ DOMAIN test.evals = 1..Len(test.evals)
BY EvaluationAssumption

\* Every evaluator but the judge answers yes or no.
LEMMA PassesIsBoolean ==
  ASSUME test \in Tests, NEW i \in DOMAIN test.evals, test.evals[i].type # "llm_judge"
  PROVE  Passes(test.evals[i]) \in BOOLEAN
<1> DEFINE ev == test.evals[i]
<1>1. ev.type \in {"contains", "tool_sequence", "tool_args", "side_effect"}
  BY EvaluationAssumption
<1>2. CASE ev.type = "contains"
  BY <1>2 DEF Passes
<1>3. CASE ev.type = "tool_sequence"
  BY <1>3 DEF Passes, SequencePasses, InAnyOrder, IsPrefix
<1>4. CASE ev.type = "tool_args"
  BY <1>4 DEF Passes, ArgsPass
<1>5. CASE ev.type = "side_effect"
  <2>1. SideEffectPasses(ev.spec) \in BOOLEAN
    <3>1. ev.spec.check \in {"file_modified", "file_created", "tests_pass", "tests_fail", "exit_code"}
      BY <1>5, EvaluationAssumption
    <3>2. CASE ev.spec.check = "file_modified"
      <4>1. CASE ev.spec.target = NoTarget
        BY <3>2, <4>1 DEF SideEffectPasses
      <4>2. CASE ev.spec.target # NoTarget
        BY <3>2, <4>2 DEF SideEffectPasses
      <4> QED  BY <4>1, <4>2
    <3>3. CASE ev.spec.check = "exit_code"
      BY <3>3 DEF SideEffectPasses, ExitCodeIsZero
    <3>4. CASE ev.spec.check = "file_created"
      BY <3>4 DEF SideEffectPasses
    <3>5. CASE ev.spec.check = "tests_pass"
      BY <3>5 DEF SideEffectPasses
    <3>6. CASE ev.spec.check = "tests_fail"
      BY <3>6 DEF SideEffectPasses
    <3> QED  BY <3>1, <3>2, <3>3, <3>4, <3>5, <3>6
  <2> QED  BY <1>5, <2>1 DEF Passes
<1> QED  BY <1>1, <1>2, <1>3, <1>4, <1>5

\* What is read out of an answered reply is a score or none.
LEMMA ScoreIsTyped ==
  ASSUME NEW text \in [1..4 -> Int \cup {NoScore}]
  PROVE  ParseScore(text) \in Int \cup {NoScore}
<1> DEFINE found == {i \in 1..4 : text[i] # NoScore}
<1>1. CASE found = {}
  BY <1>1 DEF ParseScore
<1>2. CASE found # {}
  <2>1. \E i \in found : \A k \in found : i <= k
    <3>1. CASE 1 \in found
      BY <3>1
    <3>2. CASE 1 \notin found /\ 2 \in found
      BY <3>2
    <3>3. CASE 1 \notin found /\ 2 \notin found /\ 3 \in found
      BY <3>3
    <3>4. CASE 1 \notin found /\ 2 \notin found /\ 3 \notin found
      BY <1>2, <3>4
    <3> QED  BY <3>1, <3>2, <3>3, <3>4
  <2>2. (CHOOSE i \in found : \A k \in found : i <= k) \in 1..4
    BY <2>1
  <2> QED  BY <1>2, <2>2 DEF ParseScore
<1> QED  BY <1>1, <1>2

\* A judge's answer is typed, and it passes on a good score only, whether the
\* judge is missing, refuses, rambles or cannot be reached (llm_judge.py:17-53).
LEMMA JudgeFacts ==
  ASSUME test \in Tests, NEW i \in DOMAIN test.evals, test.evals[i].type = "llm_judge",
         NEW reply \in JudgeReplies
  PROVE  LET a == JudgeAnswer(test.evals[i].spec, reply)
         IN  a \in EvalResults /\ JudgedWell(i, a)
<1> DEFINE spec == test.evals[i].spec
           a == JudgeAnswer(spec, reply)
<1>1. spec.threshold \in Int /\ spec.mins \in SUBSET Int /\ NoScore \notin Int
  BY EvaluationAssumption
<1>2. a.score \in Int \cup {NoScore}
  BY ScoreIsTyped, EvaluationAssumption DEF JudgeAnswer
<1>3. /\ a = [skipped |-> a.skipped, score |-> a.score, passed |-> a.passed]
      /\ a.skipped \in BOOLEAN /\ a.passed \in BOOLEAN
  BY DEF JudgeAnswer
<1>4. a.passed => /\ a.score # NoScore /\ a.score >= spec.threshold
                  /\ \A min \in spec.mins : min > 0 => a.score >= min
  BY DEF JudgeAnswer
<1>5. ASSUME a.passed PROVE GoodScore(spec, a.score)
  <2>1. a.score \in Int
    BY <1>2, <1>4, <1>5
  <2>2. ASSUME NEW min \in {spec.threshold} \cup spec.mins, a.score < min PROVE min <= 0
    BY <1>1, <1>4, <1>5, <2>1, <2>2
  <2> HIDE DEF a
  <2> QED  BY <1>4, <1>5, <2>2 DEF GoodScore
<1>6. a = JudgeAnswer(test.evals[i].spec, reply)
  OBVIOUS
<1> HIDE DEF a
<1>7. a \in EvalResults /\ JudgedWell(i, a)
  BY <1>2, <1>3, <1>5 DEF EvalResults, JudgedWell
<1> QED  BY <1>6, <1>7

-----------------------------------------------------------------------------
\* TestExecution counts as FiniteSets does.
LEMMA SameCardinality == ASSUME NEW S PROVE T!Cardinality(S) = Cardinality(S)
BY DEF T!Cardinality, Cardinality

\* What the consensus of several runs may be, and what a pass of it says of them
\* (flake.py:18-33).
LEMMA ConsensusFacts ==
  ASSUME test \in Tests, NEW rs \in Seq(T!RunStatuses)
  PROVE  /\ T!FlakeStatus(rs) \in {"pass", "fail", "flake", "skipped"}
         /\ T!FlakeStatus(rs) = "pass" => /\ \A i \in DOMAIN rs : rs[i] \in {"pass", "skipped"}
                                          /\ \E i \in DOMAIN rs : rs[i] = "pass"
<1> DEFINE P == {i \in DOMAIN rs : rs[i] \in {"pass"}}
           N == {i \in DOMAIN rs : rs[i] \in T!RunStatuses \ {"skipped"}}
<1>1. T!FlakeStatus(rs) \in {"pass", "fail", "flake", "skipped"}
  BY DEF T!FlakeStatus
<1>2. P \subseteq N /\ IsFiniteSet(N)
  <2>1. DOMAIN rs = 1..Len(rs) /\ Len(rs) \in Nat
    OBVIOUS
  <2>2. IsFiniteSet(DOMAIN rs)
    BY <2>1, FS_Interval
  <2> QED  BY <2>2, FS_Subset DEF T!RunStatuses
<1>3. /\ Cardinality(P) \in Nat /\ Cardinality(N) \in Nat /\ Cardinality(P) <= Cardinality(N)
      /\ Cardinality(P) = Cardinality(N) => P = N
  BY <1>2, FS_Subset, FS_CardinalityType
<1>4. ASSUME T!FlakeStatus(rs) = "pass" PROVE P = N /\ N # {}
  <2>1. PlanOf(test).pass_threshold \in Nat
    BY EvaluationAssumption DEF PlanOf
  <2>2. Cardinality(P) = Cardinality(N) /\ Cardinality(N) # 0
    <3> DEFINE p == Cardinality(P)
               n == Cardinality(N)
    <3>1. T!CountIn(rs, {"pass"}) = p /\ T!CountIn(rs, T!RunStatuses \ {"skipped"}) = n
      BY SameCardinality DEF T!CountIn
    <3> HIDE DEF p, n
    <3>2. n # 0 /\ (p >= PlanOf(test).pass_threshold => p = n \/ ~(p < n))
      BY <1>4, <3>1 DEF T!FlakeStatus
    <3>3. p = n \/ p >= PlanOf(test).pass_threshold
      BY <1>4, <3>1, <3>2 DEF T!FlakeStatus
    <3>4. p \in Nat /\ n \in Nat /\ p <= n
      BY <1>3 DEF p, n
    <3>5. p = n /\ n # 0
      BY <2>1, <3>2, <3>3, <3>4
    <3> QED  BY <3>5 DEF p, n
  <2> QED  BY <1>3, <2>2, FS_EmptySet
<1>5. ASSUME T!FlakeStatus(rs) = "pass"
      PROVE  /\ \A i \in DOMAIN rs : rs[i] \in {"pass", "skipped"}
             /\ \E i \in DOMAIN rs : rs[i] = "pass"
  BY <1>4, <1>5 DEF T!RunStatuses
<1> QED  BY <1>1, <1>5

\* A test with a result has a status, and passes on passed runs only.
LEMMA StatusFacts ==
  ASSUME test \in Tests, NEW rs \in Seq(T!RunStatuses), Len(rs) = test.runs
  PROVE  /\ T!TestStatus(rs) \in {"pass", "fail", "error", "skipped", "flake"}
         /\ T!TestStatus(rs) = "pass" => /\ \A i \in DOMAIN rs : rs[i] \in {"pass", "skipped"}
                                         /\ \E i \in DOMAIN rs : rs[i] = "pass"
<1>1. CASE test.runs = 1
  <2>1. DOMAIN rs = {1} /\ rs[1] \in T!RunStatuses /\ T!TestStatus(rs) = rs[1]
    BY <1>1, SMTT(60) DEF T!TestStatus, PlanOf
  <2> QED  BY <2>1 DEF T!RunStatuses
<1>2. CASE test.runs # 1
  <2>1. T!TestStatus(rs) = T!FlakeStatus(rs)
    BY <1>2 DEF T!TestStatus, PlanOf
  <2> QED  BY <2>1, ConsensusFacts
<1> QED  BY <1>1, <1>2
-----------------------------------------------------------------------------
\* A run that ends with a status its answers support keeps the invariant.
LEMMA EndRunFacts ==
  ASSUME IInv, result = "none", NEW s \in T!RunStatuses, NEW es \in Seq(EvalResults),
         Len(es) <= Len(test.evals),
         \A i \in DOMAIN es : JudgedWell(i, es[i]),
         s \in {"pass", "skipped"} => \A i \in DOMAIN es : es[i].skipped \/ es[i].passed,
         s = "pass" => \E i \in DOMAIN es : es[i].passed,
         EndRun(s, es)
  PROVE  IInv'
<1> DEFINE new == [status |-> s, evals |-> es, turns |-> turns]
           Runs == [status : {"pass", "fail", "error", "skipped"},
                    evals : Seq(EvalResults), turns : Seq(MossReplies)]
<1>1. /\ test \in Tests /\ test' = test /\ results \in Seq(Runs) /\ Len(results) < test.runs
      /\ test.runs \in Nat \ {0} /\ turns \in Seq(MossReplies)
      /\ turns' = << >> /\ answers' = << >> /\ results' = Append(results, new)
  BY TestFacts DEF IInv, TypeOK, Settled, EndRun
<1>2. new \in Runs
  BY <1>1 DEF T!RunStatuses
<1>3. /\ results' \in Seq(Runs) /\ Len(results') = Len(results) + 1 /\ Len(results') <= test.runs
      /\ \A n \in DOMAIN results' : \/ n \in DOMAIN results /\ results'[n] = results[n]
                                    \/ results'[n] = new
  <2> HIDE DEF new, Runs
  <2> QED  BY <1>1, <1>2
<1>4. Statuses' \in Seq(T!RunStatuses) /\ Len(Statuses') = Len(results')
  <2>1. \A n \in DOMAIN results' : results'[n] \in Runs
    <3> HIDE DEF Runs
    <3> QED  BY <1>3
  <2>2. DOMAIN results' = 1..Len(results') /\ Len(results') \in Nat
    BY <1>3
  <2> QED  BY <2>1, <2>2 DEF Statuses, T!RunStatuses
<1>5. /\ result' \in {"none", "pass", "fail", "error", "skipped", "flake"}
      /\ result' = "none" => Len(results') < test.runs
      /\ result' # "none" => Len(results') = test.runs /\ result' = T!TestStatus(Statuses')
  <2>1. CASE Len(results') < test.runs
    BY <2>1 DEF EndRun
  <2>2. CASE ~(Len(results') < test.runs)
    <3>1. Len(results') = test.runs
      BY <1>1, <1>3, <2>2
    <3>2. result' = T!TestStatus(Statuses')
      BY <2>2 DEF EndRun, Statuses
    <3> QED  BY <1>1, <1>4, <3>1, <3>2, StatusFacts
  <2> QED  BY <2>1, <2>2
<1>6. TypeOK'
  <2>1. Len(test.evals) \in Nat /\ test.turns \in Nat
    BY <1>1, TestFacts
  <2> QED  BY <1>1, <1>3, <1>5, <2>1 DEF TypeOK
<1>7. Settled'
  <2>1. T!TestStatus(Statuses)' = T!TestStatus(Statuses')
    BY <1>1 DEF T!TestStatus, T!FlakeStatus
  <2> QED  BY <1>1, <1>5, <2>1 DEF Settled
<1>8. AnswersInOrder'
  BY <1>1 DEF AnswersInOrder
<1>9. RunsJudged'
  <2> SUFFICES ASSUME NEW n \in DOMAIN results'
               PROVE  LET evals == results'[n].evals
                      IN  /\ Len(evals) <= Len(test.evals)
                          /\ \A i \in DOMAIN evals : JudgedWell(i, evals[i])
                          /\ results'[n].status \in {"pass", "skipped"} =>
                               \A i \in DOMAIN evals : evals[i].skipped \/ evals[i].passed
                          /\ results'[n].status = "pass" => \E i \in DOMAIN evals : evals[i].passed
    BY <1>1 DEF RunsJudged, JudgedWell
  <2>1. CASE n \in DOMAIN results /\ results'[n] = results[n]
    BY <2>1 DEF IInv, RunsJudged
  <2>2. CASE results'[n] = new
    BY <2>2
  <2> QED  BY <1>3, <2>1, <2>2
<1> QED  BY <1>6, <1>7, <1>8, <1>9 DEF IInv

\* An answer that is added keeps the invariant.
LEMMA AnswerFacts ==
  ASSUME IInv, Asking, NEW a \in EvalResults, JudgedWell(Len(answers) + 1, a),
         IsExitCheck(Asked) => ~a.skipped /\ a.passed = ExitCodeIsZero,
         answers' = Append(answers, a), UNCHANGED <<test, turns, results, result>>
  PROVE  IInv'
<1>1. /\ test \in Tests /\ answers \in Seq(EvalResults) /\ Len(test.evals) \in Nat
      /\ Len(answers) < Len(test.evals) /\ Len(turns) = test.turns
  BY TestFacts DEF IInv, TypeOK, Asking
<1>2. /\ answers' \in Seq(EvalResults) /\ Len(answers') = Len(answers) + 1
      /\ Len(answers') <= Len(test.evals)
      /\ \A i \in DOMAIN answers' : \/ i \in DOMAIN answers /\ answers'[i] = answers[i]
                                    \/ i = Len(answers) + 1 /\ answers'[i] = a
  BY <1>1
<1>3. TypeOK'
  BY <1>2 DEF IInv, TypeOK
<1>4. Settled'
  BY DEF IInv, Settled, Statuses, T!TestStatus, T!FlakeStatus
<1>5. AnswersInOrder'
  <2> SUFFICES ASSUME NEW i \in DOMAIN answers'
               PROVE  /\ JudgedWell(i, answers'[i])
                      /\ IsExitCheck(test.evals[i]) =>
                           ~answers'[i].skipped /\ answers'[i].passed = ExitCodeIsZero
    BY <1>1 DEF AnswersInOrder, JudgedWell, ExitCodeIsZero
  <2> QED  BY <1>2 DEF IInv, AnswersInOrder, Asked
<1>6. RunsJudged'
  BY DEF IInv, RunsJudged, JudgedWell
<1> QED  BY <1>3, <1>4, <1>5, <1>6 DEF IInv

\* What the status of a run says of its answers (executor.py:197-205).
LEMMA RunStatusFacts ==
  /\ RunStatus \in {"pass", "fail", "skipped"}
  /\ RunStatus \in {"pass", "skipped"} =>
       \A i \in DOMAIN answers : answers[i].skipped \/ answers[i].passed
  /\ RunStatus = "pass" => \E i \in DOMAIN answers : answers[i].passed
BY DEF RunStatus

\* A test that has not begun satisfies the inductive invariant.
THEOREM InvInit == Init => IInv
<1> SUFFICES ASSUME Init PROVE IInv
  OBVIOUS
<1>1. test \in Tests /\ test.runs \in Nat \ {0} /\ test.turns \in Nat /\ Len(test.evals) \in Nat
  BY TestFacts DEF Init
<1> QED  BY <1>1 DEF Init, IInv, TypeOK, Settled, AnswersInOrder, RunsJudged

\* Every Moss call, answer, exception and cancel of a test keeps the inductive
\* invariant (executor.py:149-222, llm_judge.py:17-53).
THEOREM InvStep == IInv /\ [Next]_vars => IInv'
<1> SUFFICES ASSUME IInv, [Next]_vars PROVE IInv'
  OBVIOUS
<1>1. /\ test \in Tests /\ turns \in Seq(MossReplies) /\ answers \in Seq(EvalResults)
      /\ Len(answers) <= Len(test.evals) /\ test.turns \in Nat
      /\ Len(test.evals) \in Nat /\ DOMAIN test.evals = 1..Len(test.evals)
  BY TestFacts DEF IInv, TypeOK
<1>2. ASSUME UNCHANGED vars PROVE IInv'
  BY <1>2 DEF vars, IInv, TypeOK, Settled, Statuses, T!TestStatus, T!FlakeStatus,
              AnswersInOrder, ExitCodeIsZero, RunsJudged, JudgedWell
<1>3. ASSUME NEW r \in MossReplies, MossReturns(r) PROVE IInv'
  <2>1. /\ turns' \in Seq(MossReplies) /\ Len(turns') <= test.turns /\ answers = << >>
        /\ UNCHANGED <<test, answers, results, result>>
    BY <1>1, <1>3 DEF MossReturns, IInv, AnswersInOrder
  <2>2. TypeOK'
    BY <2>1 DEF IInv, TypeOK
  <2>3. Settled'
    BY <2>1 DEF IInv, Settled, Statuses, T!TestStatus, T!FlakeStatus
  <2>4. AnswersInOrder'
    BY <2>1 DEF AnswersInOrder
  <2>5. RunsJudged'
    BY <2>1 DEF IInv, RunsJudged, JudgedWell
  <2> QED  BY <2>2, <2>3, <2>4, <2>5 DEF IInv
<1>4. ASSUME result = "none", EndRun("error", << >>) PROVE IInv'
  <2>1. "error" \in T!RunStatuses /\ << >> \in Seq(EvalResults) /\ Len(<< >>) <= Len(test.evals)
    BY <1>1 DEF T!RunStatuses
  <2> DEFINE es == << >>
  <2>2. /\ es \in Seq(EvalResults) /\ Len(es) <= Len(test.evals) /\ EndRun("error", es)
        /\ \A i \in DOMAIN es : JudgedWell(i, es[i])
    BY <1>4, <2>1
  <2> HIDE DEF es
  <2> QED  BY <1>4, <2>1, <2>2, EndRunFacts
<1>5. ASSUME EvaluatorAnswers PROVE IInv'
  <2> DEFINE a == [skipped |-> FALSE, score |-> NoScore, passed |-> Passes(Asked)]
  <2>1. /\ Asking /\ Asked.type # "llm_judge" /\ answers' = Append(answers, a)
        /\ UNCHANGED <<test, turns, results, result>>
    BY <1>5 DEF EvaluatorAnswers
  <2>2. Len(answers) + 1 \in DOMAIN test.evals
    BY <1>1, <2>1 DEF Asking
  <2>3. Passes(Asked) \in BOOLEAN
    BY <1>1, <2>1, <2>2, PassesIsBoolean DEF Asked
  <2>4. a \in EvalResults
    BY <2>3 DEF EvalResults
  <2>5. JudgedWell(Len(answers) + 1, a)
    BY <2>1 DEF JudgedWell, Asked
  <2>6. IsExitCheck(Asked) => ~a.skipped /\ a.passed = ExitCodeIsZero
    BY DEF IsExitCheck, Passes, SideEffectPasses
  <2> HIDE DEF a
  <2> QED  BY <2>1, <2>4, <2>5, <2>6, AnswerFacts
<1>6. ASSUME NEW reply \in JudgeReplies, JudgeAnswers(reply) PROVE IInv'
  <2> DEFINE a == JudgeAnswer(Asked.spec, reply)
  <2>1. /\ Asking /\ Asked.type = "llm_judge" /\ answers' = Append(answers, a)
        /\ UNCHANGED <<test, turns, results, result>>
    BY <1>6 DEF JudgeAnswers
  <2>2. Len(answers) + 1 \in DOMAIN test.evals
    BY <1>1, <2>1 DEF Asking
  <2>3. a \in EvalResults /\ JudgedWell(Len(answers) + 1, a)
    BY <1>1, <2>1, <2>2, JudgeFacts DEF Asked
  <2>4. ~IsExitCheck(Asked)
    BY <2>1 DEF IsExitCheck
  <2> HIDE DEF a
  <2> QED  BY <2>1, <2>3, <2>4, AnswerFacts
<1>7. ASSUME Verdict PROVE IInv'
  <2>1. result = "none" /\ EndRun(RunStatus, answers)
    BY <1>7 DEF Verdict
  <2>2. RunStatus \in T!RunStatuses
    BY RunStatusFacts DEF T!RunStatuses
  <2>3. \A i \in DOMAIN answers : JudgedWell(i, answers[i])
    BY DEF IInv, AnswersInOrder
  <2> QED  BY <1>1, <2>1, <2>2, <2>3, RunStatusFacts, EndRunFacts
<1>8. ASSUME Cancelled PROVE IInv'
  <2>1. result' = "cancelled" /\ UNCHANGED <<test, turns, answers, results>>
    BY <1>8 DEF Cancelled
  <2>2. TypeOK'
    BY <2>1 DEF IInv, TypeOK
  <2> QED  BY <2>1, <2>2 DEF IInv, Settled, AnswersInOrder, ExitCodeIsZero, RunsJudged, JudgedWell
<1> QED  BY <1>2, <1>3, <1>4, <1>5, <1>6, <1>7, <1>8
         DEF Next, RunStep, Over, MossRaises, AwaitsMoss, EvaluatorRaises, Asking

\* The inductive invariant holds at all times.
THEOREM IInvHolds == Spec => []IInv
BY InvInit, InvStep, PTL DEF Spec

\* Type correctness of a test's evaluation: no evaluator is asked twice, no run
\* makes more calls than it has turns (executor.py:149-195).
THEOREM TypeCorrect == Spec => []TypeOK
<1>1. IInv => TypeOK
  BY DEF IInv
<1> QED  BY <1>1, IInvHolds, PTL

\* For any evaluators, replies and number of runs, a green test has an eval that
\* passed, and no judge of any of its runs let it pass without a good score, but
\* for those that could not be reached (llm_judge.py:17-53, flake.py:18-33).
THEOREM GreenOnEvidence == Spec => []JudgeNeverFakesAPass
<1>1. IInv => JudgeNeverFakesAPass
  <2> SUFFICES ASSUME IInv, result = "pass"
               PROVE  /\ \E n \in DOMAIN results :
                           \E i \in DOMAIN results[n].evals : results[n].evals[i].passed
                      /\ \A n \in DOMAIN results : \A i \in DOMAIN results[n].evals :
                           test.evals[i].type = "llm_judge" =>
                             \/ results[n].evals[i].skipped
                             \/ GoodScore(test.evals[i].spec, results[n].evals[i].score)
    BY DEF JudgeNeverFakesAPass
  <2>1. /\ test \in Tests /\ Len(results) = test.runs /\ T!TestStatus(Statuses) = "pass"
        /\ results \in Seq([status : T!RunStatuses, evals : Seq(EvalResults), turns : Seq(MossReplies)])
    BY DEF IInv, TypeOK, Settled, T!RunStatuses
  <2>2. /\ Statuses \in Seq(T!RunStatuses) /\ Len(Statuses) = Len(results)
        /\ DOMAIN Statuses = DOMAIN results
    <3>1. DOMAIN results = 1..Len(results) /\ Len(results) \in Nat
      BY <2>1
    <3> DEFINE Runs == [status : T!RunStatuses, evals : Seq(EvalResults), turns : Seq(MossReplies)]
    <3>2. \A n \in DOMAIN results : results[n] \in Runs
      <4>1. results \in Seq(Runs)
        BY <2>1
      <4> HIDE DEF Runs
      <4> QED  BY <4>1
    <3> QED  BY <3>1, <3>2 DEF Statuses
  <2>3. /\ \A n \in DOMAIN results : results[n].status \in {"pass", "skipped"}
        /\ \E n \in DOMAIN results : results[n].status = "pass"
    <3>1. /\ \A n \in DOMAIN Statuses : Statuses[n] \in {"pass", "skipped"}
          /\ \E n \in DOMAIN Statuses : Statuses[n] = "pass"
      BY <2>1, <2>2, StatusFacts
    <3> QED  BY <2>2, <3>1 DEF Statuses
  <2>4. \E n \in DOMAIN results : \E i \in DOMAIN results[n].evals : results[n].evals[i].passed
    BY <2>3 DEF IInv, RunsJudged
  <2>5. ASSUME NEW n \in DOMAIN results, NEW i \in DOMAIN results[n].evals,
               test.evals[i].type = "llm_judge", ~results[n].evals[i].skipped
        PROVE  GoodScore(test.evals[i].spec, results[n].evals[i].score)
    <3>1. results[n].evals[i].passed
      BY <2>3, <2>5 DEF IInv, RunsJudged
    <3> QED  BY <2>5, <3>1 DEF IInv, RunsJudged, JudgedWell
  <2> QED  BY <2>4, <2>5
<1> QED  BY <1>1, IInvHolds, PTL
-----------------------------------------------------------------------------
\* The answers of the current run as TestExecution sees them.
Kept == {AnswerOf(answers[i]) : i \in {i \in DOMAIN answers : ~IsExitCheck(test.evals[i])}}

\* TestExecution's count of evaluators bounds what they answer.
LEMMA KeptFacts ==
  ASSUME test \in Tests, Len(answers) = Len(test.evals), answers \in Seq(EvalResults)
  PROVE  /\ Kept \in SUBSET T!Answers
         /\ T!Cardinality(Kept) <= PlanOf(test).evals
         /\ PlanOf(test).evals > 0 => Kept # {}
<1> DEFINE I == {i \in DOMAIN test.evals : ~IsExitCheck(test.evals[i])}
           f == [i \in I |-> AnswerOf(answers[i])]
<1>1. DOMAIN answers = DOMAIN test.evals /\ DOMAIN test.evals = 1..Len(test.evals)
      /\ Len(test.evals) \in Nat
  BY TestFacts
<1>2. IsFiniteSet(I)
  <2>1. IsFiniteSet(DOMAIN test.evals)
    BY <1>1, FS_Interval
  <2> QED  BY <2>1, FS_Subset
<1>3. Kept = {f[i] : i \in I}
  BY <1>1 DEF Kept
<1>4. f \in Surjection(I, Kept)
  BY <1>3 DEF Surjection
<1>5. Cardinality(Kept) <= Cardinality(I)
  <2> HIDE DEF I, f
  <2> QED  BY <1>2, <1>4, FS_Surjection
<1>6. PlanOf(test).evals = Cardinality(I)
  BY DEF PlanOf
<1>7. Cardinality(I) > 0 => Kept # {}
  <2>1. I = {} => Cardinality(I) = 0
    BY FS_EmptySet
  <2>2. Kept = {} => I = {}
    BY <1>3
  <2> HIDE DEF I, f
  <2> QED  BY <2>1, <2>2
<1>8. Kept \in SUBSET T!Answers
  BY DEF Kept, AnswerOf, T!Answers
<1> HIDE DEF I, f
<1> QED  BY <1>5, <1>6, <1>7, <1>8, SameCardinality

\* The status of a run is what TestExecution makes of the answers and exit codes.
LEMMA StatusMaps ==
  ASSUME IInv, Len(turns) = test.turns, Len(answers) = Len(test.evals)
  PROVE  T!RunStatus(Exits(turns), Kept) = RunStatus
<1> DEFINE exit == IF ~PlanOf(test).checksExit THEN {}
                   ELSE IF T!ExitCodeIsZero(Exits(turns)) THEN {"passed"} ELSE {"failed"}
           all == {AnswerOf(answers[i]) : i \in DOMAIN answers}
<1>1. /\ test \in Tests /\ DOMAIN answers = DOMAIN test.evals /\ turns \in Seq(MossReplies)
      /\ ~test.conversation => 1 \in DOMAIN turns
  BY TestFacts DEF IInv, TypeOK
<1>2. T!ExitCodeIsZero(Exits(turns)) = ExitCodeIsZero
  <2>1. PlanOf(test).conversation = test.conversation
    BY DEF PlanOf
  <2>2. ~test.conversation => Exits(turns)[1] = turns[1].exit
    BY <1>1 DEF Exits
  <2> QED  BY <2>1, <2>2 DEF T!ExitCodeIsZero, ExitCodeIsZero
<1>3. PlanOf(test).checksExit <=> \E i \in DOMAIN answers : IsExitCheck(test.evals[i])
  BY <1>1 DEF PlanOf
<1>4. \A i \in DOMAIN answers : IsExitCheck(test.evals[i]) =>
        AnswerOf(answers[i]) = IF ExitCodeIsZero THEN "passed" ELSE "failed"
  BY DEF IInv, AnswersInOrder, AnswerOf
<1>5. Kept \cup exit = all
  <2>1. ASSUME NEW x \in all PROVE x \in Kept \cup exit
    <3>1. PICK i \in DOMAIN answers : x = AnswerOf(answers[i])
      BY <2>1
    <3>2. CASE IsExitCheck(test.evals[i])
      BY <1>2, <1>3, <1>4, <3>1, <3>2
    <3>3. CASE ~IsExitCheck(test.evals[i])
      BY <3>1, <3>3 DEF Kept
    <3> QED  BY <3>2, <3>3
  <2>2. ASSUME NEW x \in exit PROVE x \in all
    <3>1. PICK i \in DOMAIN answers : IsExitCheck(test.evals[i])
      BY <1>3, <2>2
    <3>2. x = AnswerOf(answers[i])
      BY <1>2, <1>3, <1>4, <2>2, <3>1
    <3> QED  BY <3>2
  <2>3. Kept \subseteq all
    BY DEF Kept
  <2> QED  BY <2>1, <2>2, <2>3
<1>6. T!RunStatus(Exits(turns), Kept) =
        IF all \ {"skipped"} = {} THEN "skipped"
        ELSE IF all \ {"skipped"} = {"passed"} THEN "pass" ELSE "fail"
  BY <1>5 DEF T!RunStatus
<1>7. all \ {"skipped"} = {} <=> \A i \in DOMAIN answers : answers[i].skipped
  BY SMTT(60) DEF AnswerOf
<1>8. ASSUME all \ {"skipped"} # {}
      PROVE  all \ {"skipped"} = {"passed"} <=>
               \A i \in DOMAIN answers : ~answers[i].skipped => answers[i].passed
  <2>1. PICK k \in DOMAIN answers : ~answers[k].skipped
    BY <1>7, <1>8
  <2>2. \A i \in DOMAIN answers : AnswerOf(answers[i]) \in all
    OBVIOUS
  <2>3. ASSUME all \ {"skipped"} = {"passed"}, NEW i \in DOMAIN answers, ~answers[i].skipped
        PROVE  answers[i].passed
    BY <2>2, <2>3 DEF AnswerOf
  <2>4. ASSUME \A i \in DOMAIN answers : ~answers[i].skipped => answers[i].passed
        PROVE  all \ {"skipped"} = {"passed"}
    <3>1. \A x \in all : x \in {"skipped", "passed"}
      BY <2>4 DEF AnswerOf
    <3>2. "passed" \in all
      BY <2>1, <2>2, <2>4 DEF AnswerOf
    <3> HIDE DEF all
    <3> QED  BY <3>1, <3>2
  <2> QED  BY <2>3, <2>4
<1> HIDE DEF all
<1> QED  BY <1>6, <1>7, <1>8 DEF RunStatus

\* A run that ends here ends there.
LEMMA EndRunMaps ==
  ASSUME IInv, result = "none", NEW s, NEW es, EndRun(s, es)
  PROVE  /\ T!EndRun(s)
         /\ Seen' = [calls   |-> Exits(turns),
                     answers |-> {AnswerOf(es[i]) :
                                    i \in {i \in DOMAIN es : ~IsExitCheck(test.evals[i])}}]
<1> DEFINE new == [status |-> s, evals |-> es, turns |-> turns]
           after == [n \in DOMAIN results' |-> results'[n].status]
<1>1. /\ test \in Tests /\ test' = test /\ Len(results) \in Nat /\ DOMAIN results = 1..Len(results)
      /\ Len(results) < test.runs /\ test.runs \in Nat
      /\ turns' = << >> /\ results' = Append(results, new)
  BY TestFacts DEF IInv, TypeOK, Settled, EndRun
<1>2. /\ Len(results') = Len(results) + 1 /\ DOMAIN results' = 1..(Len(results) + 1)
      /\ results'[Len(results) + 1] = new /\ Len(results') <= test.runs /\ results' # << >>
      /\ \A n \in DOMAIN results : results'[n] = results[n]
  <2>1. results \in Seq([status : {"pass", "fail", "error", "skipped"},
                         evals : Seq(EvalResults), turns : Seq(MossReplies)])
    BY DEF IInv, TypeOK
  <2> HIDE DEF new
  <2> QED  BY <1>1, <2>1
<1>3. after = Append(Statuses, s) /\ Len(after) = Len(results')
  <2>1. DOMAIN after = DOMAIN Append(Statuses, s)
    BY <1>1, <1>2 DEF Statuses
  <2>2. ASSUME NEW n \in DOMAIN after PROVE after[n] = Append(Statuses, s)[n]
    BY <1>1, <1>2 DEF Statuses
  <2> QED  BY <1>1, <1>2, <2>1, <2>2 DEF Statuses
<1>4. result' = IF Len(after) = PlanOf(test).runs THEN T!TestStatus(after) ELSE "none"
  <2>1. PlanOf(test).runs = test.runs
    BY DEF PlanOf
  <2>2. result' = IF Len(results') < test.runs THEN "none" ELSE T!TestStatus(after)
    BY DEF EndRun
  <2> HIDE DEF new, after
  <2> QED  BY <1>1, <1>2, <1>3, <2>1, <2>2
<1>5. Exits(turns)' = << >>
  BY <1>1 DEF Exits
<1>6. PlanOf(test)' = PlanOf(test)
  BY <1>1
<1>7. T!EndRun(s)
  BY <1>3, <1>4, <1>5, <1>6 DEF T!EndRun, Statuses
<1>8. Last(results') = new
  BY <1>2 DEF Last
<1>9. Seen' = [calls   |-> Exits(turns),
               answers |-> {AnswerOf(es[i]) :
                              i \in {i \in DOMAIN es : ~IsExitCheck(test.evals[i])}}]
  <2>1. Last(results').turns = turns /\ Last(results').evals = es
    BY <1>8
  <2> HIDE DEF new
  <2> QED  BY <1>1, <1>2, <2>1 DEF Seen
<1> QED  BY <1>7, <1>9

LEMMA InitMaps == Init => T!Init
<1> SUFFICES ASSUME Init PROVE T!Init
  OBVIOUS
<1>1. PlanOf(test) \in {PlanOf(t) : t \in Tests}
  BY DEF Init
<1>2. Exits(turns) = << >> /\ [i \in DOMAIN results |-> results[i].status] = << >>
  BY DEF Init, Exits
<1>3. Seen = [calls |-> << >>, answers |-> {}] /\ result = "none"
  BY DEF Init, Seen
<1> QED  BY <1>1, <1>2, <1>3 DEF T!Init

\* The mapped state changes only with the runs, the calls and the result.
LEMMA StutterMaps ==
  ASSUME UNCHANGED <<test, turns, results, result>>
  PROVE  UNCHANGED T!vars
BY DEF T!vars, Exits, Seen, PlanOf

LEMMA MossReturnsMaps ==
  ASSUME IInv, NEW r \in MossReplies, MossReturns(r)
  PROVE  T!MossReturns(r.exit) /\ r.exit \in T!CallResults
<1>1. turns \in Seq(MossReplies)
  BY DEF IInv, TypeOK
<1>2. r.exit \in T!CallResults
  BY EvaluationAssumption DEF T!CallResults
<1>3. /\ result = "none" /\ Len(turns) < test.turns /\ turns' = Append(turns, r)
      /\ UNCHANGED <<test, results, result>>
  BY DEF MossReturns
<1>4. Exits(turns') = Append(Exits(turns), r.exit)
  <2>1. DOMAIN Exits(turns') = DOMAIN Append(Exits(turns), r.exit)
    BY <1>1, <1>3 DEF Exits
  <2>2. ASSUME NEW i \in DOMAIN Exits(turns')
        PROVE  Exits(turns')[i] = Append(Exits(turns), r.exit)[i]
    BY <1>1, <1>3, <2>2 DEF Exits
  <2> QED  BY <1>1, <1>3, <2>1, <2>2 DEF Exits
<1>5. Len(Exits(turns)) = Len(turns)
  BY <1>1 DEF Exits
<1>6. Exits(turns)' = Exits(turns')
  BY DEF Exits
<1>7. PlanOf(test).turns = test.turns
  BY DEF PlanOf
<1>8. UNCHANGED <<PlanOf(test), Seen, [i \in DOMAIN results |-> results[i].status], result>>
  BY <1>3 DEF Seen
<1> QED  BY <1>2, <1>3, <1>4, <1>5, <1>6, <1>7, <1>8 DEF T!MossReturns

LEMMA RaiseMaps ==
  ASSUME IInv, result = "none", EndRun("error", << >>)
  PROVE  T!Raise
<1>1. T!EndRun("error") /\ Seen' = [calls |-> Exits(turns), answers |-> {}]
  BY EndRunMaps
<1> QED  BY <1>1 DEF T!Raise

LEMMA VerdictMaps ==
  ASSUME IInv, Verdict
  PROVE  T!Evaluate(Kept) /\ Kept \in SUBSET T!Answers
<1>1. /\ result = "none" /\ Len(turns) = test.turns /\ Len(answers) = Len(test.evals)
      /\ EndRun(RunStatus, answers)
  BY DEF Verdict
<1>2. test \in Tests /\ answers \in Seq(EvalResults) /\ turns \in Seq(MossReplies)
  BY DEF IInv, TypeOK
<1>3. T!EndRun(RunStatus)
  BY <1>1, EndRunMaps DEF T!EndRun
<1>4. Seen' = [calls |-> Exits(turns), answers |-> Kept]
  <2>1. Seen' = [calls   |-> Exits(turns),
                 answers |-> {AnswerOf(answers[i]) :
                                i \in {i \in DOMAIN answers : ~IsExitCheck(test.evals[i])}}]
    BY <1>1, EndRunMaps
  <2> QED  BY <2>1 DEF Kept
<1>5. T!EndRun(T!RunStatus(Exits(turns), Kept))
  <2>1. T!RunStatus(Exits(turns), Kept) = RunStatus
    BY <1>1, StatusMaps
  <2> QED  BY <1>3, <2>1 DEF T!EndRun
<1>6. Len(Exits(turns)) = PlanOf(test).turns
  BY <1>1, <1>2 DEF Exits, PlanOf
<1>7. /\ Kept \in SUBSET T!Answers
      /\ T!Cardinality(Kept) <= PlanOf(test).evals
      /\ PlanOf(test).evals > 0 => Kept # {}
  BY <1>1, <1>2, KeptFacts
<1> QED  BY <1>1, <1>4, <1>5, <1>6, <1>7 DEF T!Evaluate

LEMMA StepMaps == IInv /\ [Next]_vars => [T!Next]_(T!vars)
<1> SUFFICES ASSUME IInv, [Next]_vars PROVE [T!Next]_(T!vars)
  OBVIOUS
<1>1. CASE UNCHANGED vars
  BY <1>1, StutterMaps DEF vars
<1>2. ASSUME NEW r \in MossReplies, MossReturns(r) PROVE [T!Next]_(T!vars)
  BY <1>2, MossReturnsMaps DEF T!Next
<1>3. CASE MossRaises
  BY <1>3, RaiseMaps DEF MossRaises, AwaitsMoss, T!Next
<1>4. CASE EvaluatorAnswers
  BY <1>4, StutterMaps DEF EvaluatorAnswers
<1>5. CASE EvaluatorRaises
  BY <1>5, RaiseMaps DEF EvaluatorRaises, Asking, T!Next
<1>6. ASSUME NEW reply \in JudgeReplies, JudgeAnswers(reply) PROVE [T!Next]_(T!vars)
  BY <1>6, StutterMaps DEF JudgeAnswers
<1>7. CASE Verdict
  BY <1>7, VerdictMaps DEF T!Next
<1>8. CASE Cancelled
  <2>1. UNCHANGED <<PlanOf(test), Exits(turns), Seen, [i \in DOMAIN results |-> results[i].status]>>
    BY <1>8 DEF Cancelled, Seen, Exits
  <2> QED  BY <1>8, <2>1 DEF Cancelled, AwaitsMoss, Asking, T!Cancelled, T!Next
<1>9. CASE Over
  BY <1>9, StutterMaps DEF Over, vars
<1> QED  BY <1>1, <1>2, <1>3, <1>4, <1>5, <1>6, <1>7, <1>8, <1>9 DEF Next, RunStep

\* With the evaluators as the code has them, one asked after the other, a test still
\* does nothing that TestExecution does not allow, for every evaluator, reply and
\* number of runs: its steps are steps of TestExecution or leave its state alone
\* (executor.py:143-222, evaluator/registry.py:15-21).
THEOREM ImplementsTestExecution == Spec => T!Spec
BY InitMaps, StepMaps, IInvHolds, PTL DEF Spec, T!Spec

-----------------------------------------------------------------------------
(***************************************************************************)
(* How often a tool is in a list.                                           *)
(***************************************************************************)
Places(s, x, n) == {i \in 1..n : s[i] = x}

LEMMA PlacesCount ==
  ASSUME NEW s, NEW x, NEW n \in Nat
  PROVE  /\ IsFiniteSet(Places(s, x, n)) /\ Cardinality(Places(s, x, n)) \in Nat
         /\ Cardinality(Places(s, x, 0)) = 0
<1>1. IsFiniteSet(1..n) /\ Places(s, x, n) \in SUBSET (1..n)
  BY FS_Interval DEF Places
<1>2. Places(s, x, 0) = {}
  BY DEF Places
<1> QED BY <1>1, <1>2, FS_Subset, FS_CardinalityType, FS_EmptySet

LEMMA PlacesStep ==
  ASSUME NEW s, NEW x, NEW n \in Nat, NEW m, m = n + 1
  PROVE  Cardinality(Places(s, x, m)) =
           IF s[m] = x THEN Cardinality(Places(s, x, n)) + 1 ELSE Cardinality(Places(s, x, n))
<1> DEFINE p == Places(s, x, n)
           q == Places(s, x, m)
<1>1. IsFiniteSet(p)
  BY PlacesCount
<1>2. CASE s[m] = x
  <2>1. q = p \cup {m} /\ m \notin p
    BY <1>2 DEF Places
  <2> HIDE DEF p, q
  <2>2. Cardinality(q) = Cardinality(p) + 1
    BY <1>1, <2>1, FS_AddElement
  <2> QED BY <1>2, <2>2 DEF p, q
<1>3. CASE s[m] # x
  <2>1. q = p
    BY <1>3 DEF Places
  <2> QED BY <1>3, <2>1
<1> QED BY <1>2, <1>3

LEMMA TimesArePlaces ==
  ASSUME NEW S, NEW s \in Seq(S), NEW x
  PROVE  /\ Times(x, s) = Cardinality(Places(s, x, Len(s))) /\ Times(x, s) \in Nat
         /\ Times(x, s) = 0 <=> x \notin ToSet(s)
<1>1. Len(s) \in Nat /\ DOMAIN s = 1..Len(s)
  OBVIOUS
<1>2. Times(x, s) = Cardinality(Places(s, x, Len(s)))
  BY <1>1 DEF Times, Places
<1>3. IsFiniteSet(Places(s, x, Len(s))) /\ Cardinality(Places(s, x, Len(s))) \in Nat
  BY <1>1, PlacesCount
<1>4. Places(s, x, Len(s)) = {} <=> x \notin ToSet(s)
  BY <1>1 DEF Places, ToSet
<1> QED BY <1>2, <1>3, <1>4, FS_EmptySet

\* An element less is one time less.
LEMMA TimesRemoveAt ==
  ASSUME NEW S, NEW s \in Seq(S), NEW i \in 1..Len(s), NEW x
  PROVE  Times(x, RemoveAt(s, i)) = IF s[i] = x THEN Times(x, s) - 1 ELSE Times(x, s)
<1> DEFINE t == RemoveAt(s, i)
           n == Len(s)
           p == Places(s, x, n)
           q == Places(t, x, n - 1)
<1>1. n \in Nat /\ i \in Int /\ 1 <= i /\ i <= n /\ n - 1 \in Nat
  OBVIOUS
<1>2. /\ t \in Seq(S) /\ Len(t) = n - 1
      /\ \A k \in 1..(n - 1) : t[k] = IF k < i THEN s[k] ELSE s[k + 1]
  BY RemoveAtPlaces
<1> HIDE DEF t
<1>3. Times(x, t) = Cardinality(q) /\ Times(x, s) = Cardinality(p)
  BY <1>2, TimesArePlaces
<1> HIDE DEF n
<1>4. IsFiniteSet(p) /\ IsFiniteSet(q) /\ Cardinality(p) \in Nat
  BY <1>1, PlacesCount
<1>5. Cardinality(p \ {i}) = Cardinality(q)
  <2> DEFINE f == [k \in q |-> IF k < i THEN k ELSE k + 1]
  <2>1. ASSUME NEW k \in q PROVE f[k] \in p \ {i}
    <3>1. k \in 1..(n - 1) /\ t[k] = x
      BY DEF Places
    <3>2. CASE k < i
      BY <1>1, <1>2, <3>1, <3>2 DEF Places
    <3>3. CASE ~(k < i)
      <4>1. k + 1 \in 1..n /\ k + 1 # i /\ s[k + 1] = x
        BY <1>1, <1>2, <3>1, <3>3
      <4> QED BY <3>3, <4>1 DEF Places
    <3> QED BY <3>2, <3>3
  <2>2. ASSUME NEW k \in q, NEW m \in q, f[k] = f[m] PROVE k = m
    <3>1. k \in Int /\ m \in Int
      BY DEF Places
    <3> QED BY <1>1, <2>2, <3>1
  <2>3. ASSUME NEW m \in p \ {i} PROVE \E k \in q : f[k] = m
    <3>1. m \in 1..n /\ s[m] = x /\ m # i
      BY DEF Places
    <3>2. CASE m < i
      <4>1. m \in 1..(n - 1) /\ t[m] = x
        BY <1>1, <1>2, <3>1, <3>2
      <4>2. m \in q
        BY <4>1 DEF Places
      <4> QED BY <3>2, <4>2
    <3>3. CASE ~(m < i)
      <4>1. m - 1 \in 1..(n - 1) /\ ~(m - 1 < i) /\ (m - 1) + 1 = m
        BY <1>1, <3>1, <3>3
      <4>2. t[m - 1] = x
        BY <1>2, <3>1, <4>1
      <4>3. m - 1 \in q
        BY <4>1, <4>2 DEF Places
      <4>4. f[m - 1] = m
        BY <4>1, <4>3
      <4> QED BY <4>3, <4>4
    <3> QED BY <3>2, <3>3
  <2>4. f \in [q -> p \ {i}]
    BY <2>1
  <2> HIDE DEF f, p, q
  <2>5. ExistsBijection(q, p \ {i})
    BY <2>2, <2>3, <2>4 DEF ExistsBijection, Bijection, Injection, IsInjective, Surjection
  <2> QED BY <1>4, <2>5, FS_Bijection
<1>6. Cardinality(p \ {i}) = IF i \in p THEN Cardinality(p) - 1 ELSE Cardinality(p)
  <2> HIDE DEF p
  <2> QED BY <1>4, FS_RemoveElement
<1>7. i \in p <=> s[i] = x
  BY <1>1 DEF Places
<1> HIDE DEF p, q
<1> QED BY <1>3, <1>5, <1>6, <1>7 DEF t

\* Taking out the first of a tool.
LEMMA TimesRemoveFirst ==
  ASSUME NEW S, NEW s \in Seq(S), NEW x
  PROVE  /\ RemoveFirst(s, x) \in Seq(S)
         /\ x \notin ToSet(s) => RemoveFirst(s, x) = s
         /\ x \in ToSet(s) =>
              \A y : Times(y, RemoveFirst(s, x)) = IF y = x THEN Times(y, s) - 1 ELSE Times(y, s)
<1>1. x \in ToSet(s) <=> \E i \in 1..Len(s) : s[i] = x
  BY DEF ToSet
<1>2. CASE x \notin ToSet(s)
  <2>1. RemoveFirst(s, x) = s
    BY <1>1, <1>2, Zenon DEF RemoveFirst
  <2> QED BY <1>2, <2>1
<1>3. CASE x \in ToSet(s)
  <2> DEFINE I == {i \in 1..Len(s) : s[i] = x}
             m == Min(I)
  <2>1. RemoveFirst(s, x) = RemoveAt(s, m)
    <3>1. I # {}
      BY <1>1, <1>3
    <3> QED BY <1>1, <1>3, <3>1, Zenon DEF RemoveFirst, SelectInSeq
  <2>2. m \in I
    <3>1. PICK j \in 1..Len(s) : s[j] = x
      BY <1>1, <1>3
    <3>2. j \in I /\ I \subseteq Nat
      BY <3>1
    <3> HIDE DEF I
    <3>3. PICK k \in I : \A z \in I : k <= z
      BY <3>2, LeastNumber
    <3> QED BY <3>3 DEF Min
  <2>3. m \in 1..Len(s) /\ s[m] = x
    BY <2>2
  <2> HIDE DEF m
  <2>4. RemoveAt(s, m) \in Seq(S)
    BY <2>3, RemoveAtPlaces
  <2>5. \A y : Times(y, RemoveAt(s, m)) = IF y = x THEN Times(y, s) - 1 ELSE Times(y, s)
    BY <2>3, TimesRemoveAt
  <2> QED BY <1>3, <2>1, <2>4, <2>5
<1> QED BY <1>2, <1>3

\* The loop over the expected tools: what is left of the calls, and what was missing.
Taken == [missing : SUBSET STRING, remaining : Seq(STRING)]
Take(left, tool) ==
  [missing   |-> IF tool \in ToSet(left.remaining) THEN left.missing
                 ELSE left.missing \cup {tool},
   remaining |-> RemoveFirst(left.remaining, tool)]

TakesBy(h, n, actual, expected) ==
  /\ h \in [0..n -> Taken]
  /\ h[0] = [missing |-> {}, remaining |-> actual]
  /\ \A i \in 1..n : h[i] = Take(h[i - 1], expected[i])

LEMMA TakesInOrder ==
  ASSUME NEW actual \in Seq(STRING), NEW n \in Nat, NEW expected \in [1..n -> STRING]
  PROVE  \E h : TakesBy(h, n, actual, expected) /\ InAnyOrder(actual, expected) = (h[n].missing = {})
<1> DEFINE V == Taken
           base == [missing |-> {}, remaining |-> actual]
           F == [x \in (1..n) \X V |-> Take(x[2], expected[x[1]])]
           Step(d, s) == IF s = {} THEN base ELSE Take(d[s \ {Max(s)}], expected[Max(s)])
           c == CHOOSE d : d = [s \in SUBSET DOMAIN expected |-> Step(d, s)]
<1>1. InAnyOrder(actual, expected) = (c[DOMAIN expected].missing = {})
  BY Zenon DEF InAnyOrder, FoldLeft, MapThenFoldSet, Take
<1>2. DOMAIN expected = 1..n
  OBVIOUS
<1>3. ASSUME NEW i \in 1..n, NEW v \in V
      PROVE  F[<<i, v>>] = Take(v, expected[i]) /\ Take(v, expected[i]) \in V
  <2>1. Take(v, expected[i]) \in V
    <3> DEFINE tool == expected[i]
    <3>1. tool \in STRING /\ v.remaining \in Seq(STRING) /\ v.missing \in SUBSET STRING
      BY DEF Taken
    <3> HIDE DEF tool
    <3>2. RemoveFirst(v.remaining, tool) \in Seq(STRING)
      BY <3>1, TimesRemoveFirst
    <3>3. Take(v, tool) \in Taken
      BY <3>1, <3>2 DEF Take, Taken
    <3> QED BY <3>3 DEF tool
  <2>2. <<i, v>> \in (1..n) \X V
    OBVIOUS
  <2> HIDE DEF V
  <2> QED BY <2>1, <2>2
<1>4. F \in [(1..n) \X V -> V] /\ base \in V
  <2>1. base \in V
    BY DEF Taken
  <2> HIDE DEF V, base
  <2>2. \A x \in (1..n) \X V : x[1] \in 1..n /\ x[2] \in V /\ x = <<x[1], x[2]>>
    OBVIOUS
  <2> QED BY <1>3, <2>1, <2>2
<1> HIDE DEF V, F, base
<1>5. PICK g \in [SUBSET (1..n) -> V] : FoldsBy(g, n, base, F)
  BY <1>4, FoldExists
<1>6. \A s \in SUBSET (1..n) : g[s] = Step(g, s)
  <2> SUFFICES ASSUME NEW s \in SUBSET (1..n), s # {} PROVE g[s] = Step(g, s)
    BY <1>5 DEF FoldsBy
  <2>1. Max(s) \in 1..n /\ s \ {Max(s)} \in SUBSET (1..n)
    BY MaxOfPlaces
  <2>2. g[s \ {Max(s)}] \in V /\ g[s] = F[<<Max(s), g[s \ {Max(s)}]>>]
    BY <1>5, <2>1 DEF FoldsBy
  <2> QED BY <1>3, <2>1, <2>2
<1>7. g = [s \in SUBSET DOMAIN expected |-> Step(g, s)]
  <2> HIDE DEF Step
  <2> QED BY <1>2, <1>5, <1>6
<1>8. c = [s \in SUBSET DOMAIN expected |-> Step(c, s)]
  <2> HIDE DEF Step
  <2> QED BY <1>7
<1> HIDE DEF c
<1>9. \A s \in SUBSET (1..n) : c[s] = Step(c, s)
  <2> HIDE DEF Step
  <2> QED BY <1>2, <1>8
<1>10. c[{}] = base
  BY <1>9
<1>11. ASSUME NEW s \in SUBSET (1..n), s # {}, c[s \ {Max(s)}] \in V
       PROVE  c[s] = F[<<Max(s), c[s \ {Max(s)}]>>]
  <2>1. Max(s) \in 1..n
    BY <1>11, MaxOfPlaces
  <2>2. c[s] = Take(c[s \ {Max(s)}], expected[Max(s)])
    BY <1>9, <1>11
  <2>3. F[<<Max(s), c[s \ {Max(s)}]>>] = Take(c[s \ {Max(s)}], expected[Max(s)])
    BY <1>3, <1>11, <2>1
  <2> QED BY <2>2, <2>3
<1>12. PICK h : LoopsBy(h, n, V, base, F) /\ c[1..n] = h[n]
  <2>1. \A s \in SUBSET (1..n) : s # {} /\ c[s \ {Max(s)}] \in V
          => c[s] = F[<<Max(s), c[s \ {Max(s)}]>>]
    BY <1>11
  <2>2. FoldsOn(V, c, n, base, F)
    BY <1>4, <1>10, <2>1 DEF FoldsOn
  <2> QED BY <1>4, <2>2, FoldIsLoop
<1>13. ASSUME NEW i \in 1..n PROVE h[i] = Take(h[i - 1], expected[i])
  <2>1. h[i - 1] \in V /\ h[i] = F[<<i, h[i - 1]>>]
    BY <1>12 DEF LoopsBy
  <2> QED BY <1>3, <2>1
<1>14. TakesBy(h, n, actual, expected)
  BY <1>12, <1>13 DEF TakesBy, LoopsBy, V, base
<1> QED BY <1>1, <1>2, <1>12, <1>14

\* After k expected tools a list has as many of a tool less, if it had as many; a
\* tool that it had not is missing.
LEMMA AnyOrderIsCounting ==
  ASSUME NEW actual \in Seq(STRING), NEW expected \in Seq(STRING)
  PROVE  InAnyOrder(actual, expected)
           <=> \A tool \in ToSet(expected) : Times(tool, expected) <= Times(tool, actual)
<1> DEFINE n == Len(expected)
           Want(tool, k) == Cardinality(Places(expected, tool, k))
<1>1. n \in Nat /\ expected \in [1..n -> STRING]
  OBVIOUS
<1> HIDE DEF n
<1>2. PICK h : TakesBy(h, n, actual, expected) /\ InAnyOrder(actual, expected) = (h[n].missing = {})
  BY <1>1, TakesInOrder
<1> DEFINE Left(tool, k) == Times(tool, h[k].remaining)
           Good(k) == \A tool \in STRING :
             /\ Left(tool, k) = IF Want(tool, k) <= Times(tool, actual)
                                THEN Times(tool, actual) - Want(tool, k) ELSE 0
             /\ tool \in h[k].missing <=> Want(tool, k) > Times(tool, actual)
           N == {k \in Nat : k <= n => Good(k)}
<1>3. \A tool : Times(tool, actual) \in Nat /\ \A k \in Nat : Want(tool, k) \in Nat
  <2>1. \A tool : Times(tool, actual) \in Nat
    BY TimesArePlaces
  <2>2. \A tool : \A k \in Nat : Want(tool, k) \in Nat
    BY PlacesCount
  <2> QED BY <2>1, <2>2
<1>4. 0 \in N
  <2>1. \A tool : Want(tool, 0) = 0
    BY PlacesCount
  <2>2. h[0].missing = {} /\ h[0].remaining = actual
    BY <1>2 DEF TakesBy
  <2> HIDE DEF Want
  <2>3. Good(0)
    BY <1>3, <2>1, <2>2
  <2> QED BY <2>3
<1>5. ASSUME NEW k \in Nat, k \in N PROVE k + 1 \in N
  <2> SUFFICES ASSUME k + 1 <= n PROVE Good(k + 1)
    OBVIOUS
  <2>1. Good(k)
    <3> HIDE DEF Good
    <3> QED BY <1>1, <1>5
  <2> DEFINE e == expected[k + 1]
             r == h[k].remaining
  <2>2. k \in 0..n /\ k + 1 \in 1..n /\ (k + 1) - 1 = k
    BY <1>1
  <2>3. /\ h[k] \in Taken /\ h[k + 1] = Take(h[k], e) /\ e \in STRING
    BY <1>1, <1>2, <2>2 DEF TakesBy
  <2>4. /\ r \in Seq(STRING) /\ h[k].missing \in SUBSET STRING
        /\ h[k + 1].remaining = RemoveFirst(r, e)
        /\ h[k + 1].missing = IF e \in ToSet(r) THEN h[k].missing ELSE h[k].missing \cup {e}
    BY <2>3 DEF Taken, Take
  <2>5. \A tool : Want(tool, k + 1) = IF e = tool THEN Want(tool, k) + 1 ELSE Want(tool, k)
    BY PlacesStep
  <2> HIDE DEF e, r, Want
  <2>6. ASSUME NEW tool \in STRING
        PROVE  /\ Left(tool, k + 1) = IF Want(tool, k + 1) <= Times(tool, actual)
                                      THEN Times(tool, actual) - Want(tool, k + 1) ELSE 0
               /\ tool \in h[k + 1].missing <=> Want(tool, k + 1) > Times(tool, actual)
    <3> DEFINE a == Times(tool, actual)
               w == Want(tool, k)
               x == Want(tool, k + 1)
               y == Times(tool, r)
               z == Times(tool, RemoveFirst(r, e))
    <3>1. /\ a \in Nat /\ w \in Nat /\ y \in Nat
          /\ y = 0 <=> tool \notin ToSet(r)
      BY <1>3, <2>4, TimesArePlaces
    <3>2. /\ y = IF w <= a THEN a - w ELSE 0
          /\ tool \in h[k].missing <=> w > a
      BY <2>1 DEF r
    <3>3. x = IF e = tool THEN w + 1 ELSE w
      BY <2>5
    <3>4. z = IF e = tool /\ e \in ToSet(r) THEN y - 1 ELSE y
      <4>1. CASE e \in ToSet(r)
        BY <2>3, <2>4, <4>1, TimesRemoveFirst
      <4>2. CASE e \notin ToSet(r)
        BY <2>3, <2>4, <4>2, TimesRemoveFirst
      <4> QED BY <4>1, <4>2
    <3>5. Left(tool, k + 1) = z
      BY <2>4
    <3>6. tool \in h[k + 1].missing <=> tool \in h[k].missing \/ (e = tool /\ e \notin ToSet(r))
      BY <2>4
    <3> HIDE DEF a, w, x, y, z, Left
    <3>7. z = IF x <= a THEN a - x ELSE 0
      BY <3>1, <3>2, <3>3, <3>4
    <3>8. tool \in h[k + 1].missing <=> x > a
      BY <3>1, <3>2, <3>3, <3>6
    <3> QED BY <3>5, <3>7, <3>8 DEF a, x
  <2> QED BY <2>6
<1>6. n \in N
  <2> HIDE DEF N
  <2> QED BY <1>1, <1>4, <1>5, NatSet
<1>7. Good(n)
  <2> HIDE DEF Good
  <2> QED BY <1>1, <1>6
<1>8. /\ \A tool : Times(tool, expected) = Want(tool, n)
      /\ \A tool \in STRING : tool \notin ToSet(expected) => Times(tool, expected) = 0
      /\ ToSet(expected) \subseteq STRING
  <2>1. \A tool : /\ Times(tool, expected) = Want(tool, n)
                  /\ Times(tool, expected) = 0 <=> tool \notin ToSet(expected)
    BY TimesArePlaces DEF n
  <2>2. ToSet(expected) \subseteq STRING
    BY DEF ToSet
  <2> QED BY <2>1, <2>2
<1> HIDE DEF Want, Left
<1>9. h[n].missing \in SUBSET STRING
  BY <1>1, <1>2 DEF TakesBy, Taken
<1>10. h[n].missing = {} <=> \A tool \in STRING : Times(tool, expected) <= Times(tool, actual)
  <2>1. \A tool \in STRING : tool \in h[n].missing <=> Want(tool, n) > Times(tool, actual)
    BY <1>7
  <2> HIDE DEF Good
  <2>2. ASSUME NEW tool \in STRING
        PROVE  tool \in h[n].missing <=> ~(Times(tool, expected) <= Times(tool, actual))
    <3> DEFINE w == Want(tool, n)
               a == Times(tool, actual)
    <3>1. w \in Nat /\ a \in Nat /\ Times(tool, expected) = w /\ (tool \in h[n].missing <=> w > a)
      BY <1>1, <1>3, <1>8, <2>1
    <3> HIDE DEF w, a
    <3>2. tool \in h[n].missing <=> ~(w <= a)
      BY <3>1
    <3> QED BY <3>1, <3>2 DEF a
  <2> QED BY <1>9, <2>2
<1>11. (\A tool \in STRING : Times(tool, expected) <= Times(tool, actual))
         <=> \A tool \in ToSet(expected) : Times(tool, expected) <= Times(tool, actual)
  <2>1. ASSUME NEW tool \in STRING, tool \notin ToSet(expected)
        PROVE  Times(tool, expected) <= Times(tool, actual)
    <3> DEFINE a == Times(tool, actual)
    <3>1. a \in Nat /\ Times(tool, expected) = 0
      BY <1>3, <1>8, <2>1
    <3> HIDE DEF a
    <3>2. 0 <= a
      BY <3>1
    <3> QED BY <3>1, <3>2 DEF a
  <2> QED BY <1>8, <2>1
<1> QED BY <1>2, <1>10, <1>11

-----------------------------------------------------------------------------
(***************************************************************************)
(* The checks of tool calls.                                                *)
(***************************************************************************)
CallRecords == [tool : STRING, object : BOOLEAN, args : SUBSET STRING]
ToolsOf(calls) == [i \in DOMAIN calls |-> calls[i].tool]

LEMMA ToolsAreNames ==
  ASSUME NEW calls \in Seq(CallRecords)
  PROVE  ToolsOf(calls) \in Seq(STRING) /\ Len(ToolsOf(calls)) = Len(calls)
<1>1. Len(calls) \in Nat /\ DOMAIN calls = 1..Len(calls)
  OBVIOUS
<1>2. \A i \in 1..Len(calls) : calls[i] \in CallRecords
  OBVIOUS
<1>3. \A i \in 1..Len(calls) : calls[i].tool \in STRING
  BY <1>2 DEF CallRecords
<1> QED BY <1>1, <1>3 DEF ToolsOf

\* The tool calls of a run, and of one that has gone a turn on.
LEMMA CallsOfRun ==
  ASSUME TypeOK
  PROVE  /\ ToolCalls \in Seq(CallRecords)
         /\ \A r \in MossReplies : turns' = Append(turns, r) =>
              r.calls \in Seq(CallRecords) /\ ToolCalls' = ToolCalls \o r.calls
<1> DEFINE ss == [i \in DOMAIN turns |-> turns[i].calls]
<1>1. /\ Len(turns) \in Nat /\ DOMAIN turns = 1..Len(turns)
      /\ \A i \in 1..Len(turns) : turns[i] \in MossReplies
  <2>1. turns \in Seq(MossReplies)
    BY DEF TypeOK
  <2> QED BY <2>1
<1>2. \A r \in MossReplies : r.calls \in Seq(CallRecords)
  BY EvaluationAssumption DEF CallRecords
<1>3. ss \in Seq(Seq(CallRecords)) /\ Len(ss) = Len(turns)
  <2>1. \A i \in 1..Len(turns) : turns[i].calls \in Seq(CallRecords)
    BY <1>1, <1>2
  <2> DEFINE V == Seq(CallRecords)
  <2> HIDE DEF V
  <2>2. \A i \in 1..Len(turns) : turns[i].calls \in V
    BY <2>1 DEF V
  <2>3. ss \in Seq(V) /\ Len(ss) = Len(turns)
    BY <1>1, <2>2
  <2> QED BY <2>3 DEF V
<1>4. ToolCalls = FlattenSeq(ss)
  BY DEF ToolCalls
<1>5. ASSUME NEW r \in MossReplies, turns' = Append(turns, r)
      PROVE  ToolCalls' = ToolCalls \o r.calls
  <2> DEFINE tt == [i \in DOMAIN turns' |-> turns'[i].calls]
             s == r.calls
  <2>1. tt = Append(ss, s)
    <3> DEFINE V == Seq(CallRecords)
               n == Len(turns)
               u == Append(ss, s)
    <3>1. ss \in Seq(V) /\ s \in V /\ Len(ss) = n
      BY <1>2, <1>3
    <3>2. /\ n \in Nat /\ DOMAIN turns' = 1..(n + 1)
          /\ \A i \in 1..n : turns'[i] = turns[i]
          /\ turns'[n + 1] = r
      <4>1. turns \in Seq(MossReplies)
        BY DEF TypeOK
      <4> QED BY <1>5, <4>1
    <3>3. \A i \in 1..n : ss[i] = turns[i].calls
      BY <1>1
    <3> HIDE DEF V, n, ss, s
    <3>4. /\ u \in Seq(V) /\ DOMAIN u = 1..(n + 1) /\ u[n + 1] = s
          /\ \A i \in 1..n : u[i] = ss[i]
      BY <3>1, <3>2
    <3> HIDE DEF u
    <3>5. \A i \in 1..(n + 1) : u[i] = tt[i]
      <4> TAKE i \in 1..(n + 1)
      <4>1. i \in 1..n \/ i = n + 1
        BY <3>2
      <4> QED BY <3>2, <3>3, <3>4, <4>1 DEF s
    <3>6. u = [i \in 1..(n + 1) |-> u[i]]
      BY <3>4
    <3>7. tt = u
      BY <3>2, <3>5, <3>6
    <3> QED BY <3>7 DEF u
  <2>2. ToolCalls' = FlattenSeq(tt)
    BY DEF ToolCalls
  <2> HIDE DEF ss, tt, s
  <2>3. s \in Seq(CallRecords)
    BY <1>2 DEF s
  <2>4. FlattenSeq(Append(ss, s)) = FlattenSeq(ss) \o s
    BY <1>3, <2>3, FlattenAppend
  <2> QED BY <1>4, <2>1, <2>2, <2>4 DEF s
<1>6. FlattenSeq(ss) \in Seq(CallRecords)
  <2> HIDE DEF ss
  <2> QED BY <1>3, FlattenPlaces
<1> QED BY <1>2, <1>4, <1>5, <1>6

\* More calls, of whatever tools: a check that passed passes.
LEMMA MoreCallsPass ==
  ASSUME NEW calls \in Seq(CallRecords), NEW more \in Seq(CallRecords), NEW spec
  PROVE  /\ spec.expected \in Seq(STRING) /\ SequencePasses(spec, calls)
              => SequencePasses(spec, calls \o more)
         /\ ArgsPass(spec, calls) => ArgsPass(spec, calls \o more)
<1> DEFINE all == calls \o more
           n == Len(calls)
           a == ToolsOf(calls)
           b == ToolsOf(all)
<1>1. /\ all \in Seq(CallRecords) /\ n \in Nat /\ Len(all) \in Nat /\ n <= Len(all)
      /\ DOMAIN calls = 1..n /\ DOMAIN all = 1..Len(all)
      /\ \A i \in 1..n : all[i] = calls[i]
  OBVIOUS
<1> HIDE DEF all, n
<1>2. /\ a \in Seq(STRING) /\ b \in Seq(STRING) /\ Len(a) = n /\ Len(b) = Len(all)
      /\ \A i \in 1..n : b[i] = a[i]
  <2>1. a \in Seq(STRING) /\ b \in Seq(STRING) /\ Len(a) = n /\ Len(b) = Len(all)
    BY <1>1, ToolsAreNames DEF n
  <2>2. \A i \in 1..n : b[i] = a[i]
    BY <1>1 DEF ToolsOf
  <2> QED BY <2>1, <2>2
<1>3. ASSUME ArgsPass(spec, calls) PROVE ArgsPass(spec, all)
  <2>1. PICK i \in 1..n : Matches(spec, calls[i]) /\ \A k \in 1..i : ~Breaks(spec, calls[k])
    BY <1>1, <1>3 DEF ArgsPass
  <2>2. i \in DOMAIN all /\ \A k \in 1..i : k \in 1..n
    BY <1>1
  <2> QED BY <1>1, <2>1, <2>2 DEF ArgsPass
<1>4. ASSUME spec.expected \in Seq(STRING), SequencePasses(spec, calls) PROVE SequencePasses(spec, all)
  <2> DEFINE e == spec.expected
  <2> HIDE DEF a, b
  <2>1. /\ SequencePasses(spec, calls) = IF spec.order = "strict" THEN IsPrefix(e, a) ELSE InAnyOrder(a, e)
        /\ SequencePasses(spec, all) = IF spec.order = "strict" THEN IsPrefix(e, b) ELSE InAnyOrder(b, e)
    BY DEF SequencePasses, a, b, ToolsOf
  <2>2. e \in Seq(STRING) /\ Len(e) \in Nat
    BY <1>4
  <2> HIDE DEF e
  <2>3. CASE spec.order = "strict"
    <3>1. Len(e) <= Len(a) /\ SubSeq(e, 1, Len(e)) = SubSeq(a, 1, Len(e))
      BY <1>4, <2>1, <2>3 DEF IsPrefix
    <3>2. SubSeq(b, 1, Len(e)) = SubSeq(a, 1, Len(e))
      BY <1>1, <1>2, <2>2, <3>1
    <3>3. IsPrefix(e, b)
      BY <1>1, <1>2, <2>2, <3>1, <3>2 DEF IsPrefix
    <3> QED BY <2>1, <2>3, <3>3
  <2>4. CASE spec.order # "strict"
    <3>1. \A tool \in ToSet(e) : Times(tool, e) <= Times(tool, a)
      BY <1>2, <1>4, <2>1, <2>2, <2>4, AnyOrderIsCounting
    <3>2. \A tool : Times(tool, a) <= Times(tool, b) /\ Times(tool, a) \in Nat /\ Times(tool, b) \in Nat
      <4> TAKE tool
      <4> DEFINE p == Places(a, tool, n)
                 q == Places(b, tool, Len(all))
      <4>1. /\ Times(tool, a) = Cardinality(p) /\ Times(tool, b) = Cardinality(q)
            /\ Times(tool, a) \in Nat /\ Times(tool, b) \in Nat
        BY <1>2, TimesArePlaces
      <4>2. p \subseteq q
        BY <1>1, <1>2 DEF Places
      <4>3. IsFiniteSet(q)
        BY <1>1, PlacesCount
      <4> HIDE DEF p, q
      <4>4. Cardinality(p) <= Cardinality(q)
        BY <4>2, <4>3, FS_Subset
      <4> QED BY <4>1, <4>4
    <3>3. ASSUME NEW tool \in ToSet(e) PROVE Times(tool, e) <= Times(tool, b)
      <4>1. Times(tool, e) \in Nat
        BY <2>2, TimesArePlaces
      <4> DEFINE x == Times(tool, e)
                 y == Times(tool, a)
                 z == Times(tool, b)
      <4>2. x \in Nat /\ y \in Nat /\ z \in Nat /\ x <= y /\ y <= z
        BY <3>1, <3>2, <4>1
      <4> HIDE DEF x, y, z
      <4>3. x <= z
        BY <4>2
      <4> QED BY <4>3 DEF x, z
    <3>4. InAnyOrder(b, e)
      BY <1>2, <2>2, <3>3, AnyOrderIsCounting
    <3> QED BY <2>1, <2>4, <3>4
  <2> QED BY <2>3, <2>4
<1> QED BY <1>3, <1>4 DEF all

\* "Any order" means: as often as expected, or more often (tool_sequence.py:17-24).
LEMMA AnyOrderIsDecided == TypeOK => AnyOrderCounts
<1> SUFFICES ASSUME TypeOK, NEW i \in DOMAIN test.evals,
                    test.evals[i].type = "tool_sequence", test.evals[i].spec.order = "any"
             PROVE  SequencePasses(test.evals[i].spec, ToolCalls)
                      <=> \A tool \in ToSet(test.evals[i].spec.expected) :
                            Times(tool, test.evals[i].spec.expected) <= Times(tool, ToolsOf(ToolCalls))
  BY DEF AnyOrderCounts, ToolsOf
<1> DEFINE e == test.evals[i].spec.expected
           a == ToolsOf(ToolCalls)
<1>1. e \in Seq(STRING)
  BY EvaluationAssumption DEF TypeOK
<1>2. a \in Seq(STRING)
  BY CallsOfRun, ToolsAreNames
<1>3. SequencePasses(test.evals[i].spec, ToolCalls) = InAnyOrder(a, e)
  BY DEF SequencePasses, ToolsOf
<1> HIDE DEF e, a
<1>4. InAnyOrder(a, e) <=> \A tool \in ToSet(e) : Times(tool, e) <= Times(tool, a)
  BY <1>1, <1>2, AnyOrderIsCounting
<1> QED BY <1>3, <1>4 DEF e, a

\* What follows in a conversation takes no passed check of its tool calls back.
LEMMA TurnsAdd ==
  ASSUME TypeOK, [Next]_vars, Len(turns') > Len(turns), NEW i \in DOMAIN test.evals,
         test.evals[i].type \in {"tool_sequence", "tool_args"}, Passes(test.evals[i])
  PROVE  Passes(test.evals[i])'
<1>1. PICK r \in MossReplies : turns' = Append(turns, r) /\ test' = test
  <2>1. turns \in Seq(MossReplies) /\ Len(turns) \in Nat
    BY DEF TypeOK
  <2>2. ~(turns' = << >>) /\ turns' # turns
    BY <2>1
  <2>3. \A status, evals : ~EndRun(status, evals)
    BY <2>2 DEF EndRun
  <2> QED BY <2>2, <2>3 DEF Next, RunStep, MossReturns, MossRaises, EvaluatorAnswers, EvaluatorRaises,
             JudgeAnswers, Verdict, Cancelled, Over, vars
<1>2. /\ ToolCalls \in Seq(CallRecords) /\ r.calls \in Seq(CallRecords)
      /\ ToolCalls' = ToolCalls \o r.calls
  BY <1>1, CallsOfRun
<1> DEFINE ev == test.evals[i]
           spec == ev.spec
           calls == ToolCalls
           more == r.calls
<1>3. ev.type = "tool_sequence" => spec.expected \in Seq(STRING)
  BY EvaluationAssumption DEF TypeOK
<1>4. CASE ev.type = "tool_sequence"
  <2>1. SequencePasses(spec, calls)
    BY <1>4 DEF Passes
  <2>2. calls \in Seq(CallRecords) /\ more \in Seq(CallRecords) /\ spec.expected \in Seq(STRING)
    BY <1>2, <1>3, <1>4
  <2>3. Passes(ev)' = SequencePasses(spec, calls \o more)
    BY <1>1, <1>2, <1>4 DEF Passes
  <2> HIDE DEF spec, calls, more
  <2>4. SequencePasses(spec, calls \o more)
    BY <2>1, <2>2, MoreCallsPass
  <2> QED BY <2>3, <2>4
<1>5. CASE ev.type = "tool_args"
  <2>1. ArgsPass(spec, calls)
    BY <1>5 DEF Passes
  <2>2. calls \in Seq(CallRecords) /\ more \in Seq(CallRecords)
    BY <1>2
  <2>3. Passes(ev)' = ArgsPass(spec, calls \o more)
    BY <1>1, <1>2, <1>5 DEF Passes
  <2> HIDE DEF spec, calls, more
  <2>4. ArgsPass(spec, calls \o more)
    BY <2>1, <2>2, MoreCallsPass
  <2> QED BY <2>3, <2>4
<1> QED BY <1>4, <1>5

\* Taking tools out of the list is counting them, whatever is expected and called
\* (tool_sequence.py:17-24).
THEOREM AnyOrderIsCounted == Spec => []AnyOrderCounts
BY IInvHolds, AnyOrderIsDecided, PTL DEF IInv

\* No turn of a conversation takes back a check of its tool calls that passed on the
\* turns before (base.py:19-25, tool_sequence.py:10-24, tool_args.py:15-22).
THEOREM TurnsNeverHurt == Spec => LaterTurnsNeverHurt
<1> DEFINE StillPass ==
             Len(turns') > Len(turns) =>
             \A i \in DOMAIN test.evals :
               test.evals[i].type \in {"tool_sequence", "tool_args"} /\ Passes(test.evals[i])
                 => Passes(test.evals[i])'
<1>1. TypeOK /\ [Next]_vars => StillPass
  BY TurnsAdd
<1>2. TypeOK /\ [Next]_vars => [StillPass]_vars
  BY <1>1
<1> QED BY <1>2, TypeCorrect, PTL DEF Spec, LaterTurnsNeverHurt
=============================================================================
