----------------------------- MODULE Evaluation -----------------------------
(***************************************************************************)
(* What TestExecution leaves open: how each evaluator judges what Moss      *)
(* returned (moss_ci/evaluator/), one after the other, as _run_test_once     *)
(* asks them (moss_ci/engine/executor.py).  It implements TestExecution.     *)
(*                                                                          *)
(* An output is the set of the texts it contains, a tool call its tool,     *)
(* whether its arguments are an object at all, and the set of the "key      *)
(* holds value" facts that are true of them.                                *)
(* Scores are counted in tenths of a point.                                 *)
(***************************************************************************)
EXTENDS Integers, FiniteSets, SequencesExt

CONSTANTS
  Tests,        \* the tests that may be executed
  MossReplies,  \* what a Moss call may return
  JudgeReplies, \* what the judge may answer
  NoScore,      \* the score None
  NoTarget      \* the target None of a file check

\* A test is a plan of TestExecution with its evaluators themselves.  A judge's
\* reply that came with HTTP status 200 has in text what each of the four ways to
\* look for a score finds in it.
ASSUME EvaluationAssumption ==
  /\ NoScore \notin Int
  /\ \A t \in Tests :
       /\ t.runs \in Nat \ {0} /\ t.pass_threshold \in Nat \ {0}
       /\ t.consensus \in {"majority", "unanimous"}
       /\ t.conversation \in BOOLEAN
       /\ t.turns \in Nat /\ (~t.conversation => t.turns = 1)
       /\ Len(t.evals) \in Nat /\ DOMAIN t.evals = 1..Len(t.evals)
       /\ \A i \in DOMAIN t.evals :
            /\ t.evals[i].type \in
                 {"contains", "tool_sequence", "tool_args", "llm_judge", "side_effect"}
            /\ t.evals[i].type = "side_effect" => t.evals[i].spec.check \in
                 {"file_modified", "file_created", "tests_pass", "tests_fail", "exit_code"}
            /\ t.evals[i].type = "llm_judge" =>
                 t.evals[i].spec.threshold \in Int /\ t.evals[i].spec.mins \in SUBSET Int
            /\ t.evals[i].type = "tool_sequence" => t.evals[i].spec.expected \in Seq(STRING)
  /\ \A r \in MossReplies : /\ r.exit \in {"ok", "nonzero"}
                            /\ r.calls \in Seq([tool : STRING, object : BOOLEAN, args : SUBSET STRING])
  /\ \A r \in JudgeReplies : /\ r.kind \in {"unconfigured", "unreachable", "refused", "answered"}
                             /\ r.text \in [1..4 -> Int \cup {NoScore}]

VARIABLES
  test,     \* the test that is executed
  turns,    \* what Moss returned in the current run, call by call
  answers,  \* the EvalResults of the current run so far
  results,  \* the TestResult of every run that ended
  result    \* as in TestExecution

vars == <<test, turns, answers, results, result>>

-----------------------------------------------------------------------------
\* The MossResult of a run: run_conversation puts outputs and tool calls together
\* and drops the exit codes and the modified files.
Output == UNION {turns[i].texts : i \in DOMAIN turns}
ToolCalls == FlattenSeq([i \in DOMAIN turns |-> turns[i].calls])
FilesModified == IF test.conversation THEN {} ELSE turns[1].files
ExitCodeIsZero == test.conversation \/ turns[1].exit = "ok"

\* Mutated InAnyOrder: a tool that is expected twice may be called once.
InAnyOrderOnce(actual, expected) == ToSet(expected) \subseteq ToSet(actual)

\* The loop over remaining: each expected tool takes one call out of the list.
InAnyOrder(actual, expected) ==
  FoldLeft(LAMBDA left, tool :
             [missing   |-> IF tool \in ToSet(left.remaining) THEN left.missing
                            ELSE left.missing \cup {tool},
              remaining |-> RemoveFirst(left.remaining, tool)],
           [missing |-> {}, remaining |-> actual], expected).missing = {}

\* Mutated SequencePasses: strict order admits no further calls.
SequencePassesExactly(spec, calls) ==
  LET actual == [i \in DOMAIN calls |-> calls[i].tool]
  IN  IF spec.order = "strict" THEN spec.expected = actual ELSE InAnyOrder(actual, spec.expected)

\* tool_sequence: strict order is that of the first calls.
SequencePasses(spec, calls) ==
  LET actual == [i \in DOMAIN calls |-> calls[i].tool]
  IN  IF spec.order = "strict" THEN IsPrefix(spec.expected, actual)
                               ELSE InAnyOrder(actual, spec.expected)

\* tool_args looks at the calls of the tool in their order: it stops at one that has
\* every expected argument, and raises at one that has no object to look into.
Matches(spec, call) == call.tool = spec.tool /\ spec.contains \subseteq call.args
Breaks(spec, call) == call.tool = spec.tool /\ spec.contains # {} /\ ~call.object
ArgsPass(spec, calls) ==
  \E i \in DOMAIN calls : Matches(spec, calls[i]) /\ \A k \in 1..i : ~Breaks(spec, calls[k])
ArgsRaise(spec, calls) ==
  \E i \in DOMAIN calls : Breaks(spec, calls[i]) /\ \A k \in 1..(i - 1) : ~Matches(spec, calls[k])

\* side_effect; tests_pass and tests_fail look for words in the output.
SideEffectPasses(spec) ==
  CASE spec.check = "file_modified" -> IF spec.target = NoTarget THEN FilesModified # {}
                                       ELSE spec.target \in FilesModified
    [] spec.check = "file_created"  -> FilesModified # {}
    [] spec.check = "tests_pass"    -> "pass" \in Output
    [] spec.check = "tests_fail"    -> {"fail", "error"} \cap Output # {}
    [] spec.check = "exit_code"     -> ExitCodeIsZero

\* The evaluators that need nothing but what Moss returned.
Passes(e) ==
  CASE e.type = "contains"      -> e.spec.value \in Output
    [] e.type = "tool_sequence" -> SequencePasses(e.spec, ToolCalls)
    [] e.type = "tool_args"     -> ArgsPass(e.spec, ToolCalls)
    [] e.type = "side_effect"   -> SideEffectPasses(e.spec)

\* _parse_score: plain JSON, fenced JSON, an object in the text, prose; the first
\* that finds a score.
ParseScore(text) ==
  LET found == {i \in 1..4 : text[i] # NoScore}
  IN  IF found = {} THEN NoScore ELSE text[CHOOSE i \in found : \A k \in found : i <= k]

\* Mutated JudgeAnswer: a judge that is not configured scores 3.0.
JudgeAnswerPhantom(spec, reply) ==
  LET score == CASE reply.kind = "answered" -> ParseScore(reply.text)
                 [] reply.kind = "unconfigured" -> 30
                 [] OTHER -> NoScore
  IN  [skipped |-> reply.kind = "unreachable", score |-> score,
       passed  |-> \/ reply.kind = "unconfigured"
                   \/ score # NoScore /\ score >= spec.threshold]

\* llm_judge: an endpoint that cannot be reached skips the eval, every other way
\* to get no score fails it.  A dimension counts if a minimum was set for it.
JudgeAnswer(spec, reply) ==
  LET score == IF reply.kind = "answered" THEN ParseScore(reply.text) ELSE NoScore
  IN  [skipped |-> reply.kind = "unreachable",
       score   |-> score,
       passed  |-> /\ score # NoScore
                   /\ score >= spec.threshold
                   /\ \A min \in spec.mins : min > 0 => score >= min]

-----------------------------------------------------------------------------
\* The test as TestExecution knows it.
IsExitCheck(e) == e.type = "side_effect" /\ e.spec.check = "exit_code"
PlanOf(t) ==
  [runs |-> t.runs, pass_threshold |-> t.pass_threshold, consensus |-> t.consensus,
   conversation |-> t.conversation, turns |-> t.turns,
   evals |-> Cardinality({i \in DOMAIN t.evals : ~IsExitCheck(t.evals[i])}),
   checksExit |-> \E i \in DOMAIN t.evals : IsExitCheck(t.evals[i])]

Exits(replies) == [i \in DOMAIN replies |-> replies[i].exit]
AnswerOf(a) == IF a.skipped THEN "skipped" ELSE IF a.passed THEN "passed" ELSE "failed"
Seen ==
  IF results = << >> THEN [calls |-> << >>, answers |-> {}]
  ELSE [calls   |-> Exits(Last(results).turns),
        answers |-> {AnswerOf(Last(results).evals[i]) :
                       i \in {i \in DOMAIN Last(results).evals : ~IsExitCheck(test.evals[i])}}]

T == INSTANCE TestExecution WITH
       Plans <- {PlanOf(t) : t \in Tests},
       plan  <- PlanOf(test),
       calls <- Exits(turns),
       seen  <- Seen,
       runs  <- [i \in DOMAIN results |-> results[i].status]

-----------------------------------------------------------------------------
Init ==
  /\ test \in Tests
  /\ turns = << >>
  /\ answers = << >>
  /\ results = << >>
  /\ result = "none"

\* Mutated EndRun: a run too many.
EndRunLate(status, evals) ==
  /\ results' = Append(results, [status |-> status, evals |-> evals, turns |-> turns])
  /\ result' = IF Len(results) < test.runs THEN "none"
               ELSE T!TestStatus([i \in DOMAIN results' |-> results'[i].status])
  /\ turns' = << >>
  /\ answers' = << >>
  /\ UNCHANGED test

\* The current run ends with a TestResult; FlakeDetector starts the next one, or
\* the test is over.
EndRun(status, evals) ==
  /\ results' = Append(results, [status |-> status, evals |-> evals, turns |-> turns])
  /\ result' = IF Len(results') < test.runs THEN "none"
               ELSE T!TestStatus([i \in DOMAIN results' |-> results'[i].status])
  /\ turns' = << >>
  /\ answers' = << >>
  /\ UNCHANGED test

\* A Moss call returns.
MossReturns(r) ==
  /\ result = "none"
  /\ Len(turns) < test.turns
  /\ turns' = Append(turns, r)
  /\ UNCHANGED <<test, answers, results, result>>

\* The run awaits the copy of its workdir, which comes before the first call, or a
\* call.  (A conversation without a user turn makes the copy and no call.)
AwaitsMoss ==
  /\ result = "none"
  /\ answers = << >>
  /\ turns = << >> \/ Len(turns) < test.turns

\* What it awaits raises.
MossRaises == AwaitsMoss /\ EndRun("error", << >>)

\* Moss has returned and some evaluator has not been asked.
Asking == result = "none" /\ Len(turns) = test.turns /\ Len(answers) < Len(test.evals)
Asked == test.evals[Len(answers) + 1]

\* A pattern is no regular expression, or a call's arguments are no object.
Raises(e) ==
  \/ e.type = "contains" /\ ~e.spec.compiles
  \/ e.type = "tool_args" /\ ArgsRaise(e.spec, ToolCalls)

\* An evaluator that looks at the run alone answers; only llm_judge awaits anything.
EvaluatorAnswers ==
  /\ Asking /\ Asked.type # "llm_judge" /\ ~Raises(Asked)
  /\ answers' = Append(answers, [skipped |-> FALSE, score |-> NoScore, passed |-> Passes(Asked)])
  /\ UNCHANGED <<test, turns, results, result>>

\* An evaluator raises: the answers so far are lost.
EvaluatorRaises == Asking /\ Raises(Asked) /\ EndRun("error", << >>)

\* The judge answers, or cannot be reached, or is not configured.
JudgeAnswers(reply) ==
  /\ Asking /\ Asked.type = "llm_judge"
  /\ answers' = Append(answers, JudgeAnswer(Asked.spec, reply))
  /\ UNCHANGED <<test, turns, results, result>>

\* Mutated RunStatus: skipped answers count as passed.
RunStatusSkipPasses == IF \A i \in DOMAIN answers : answers[i].passed \/ answers[i].skipped
                       THEN "pass" ELSE "fail"

\* The status of the run: skipped answers are set aside.
RunStatus ==
  LET decisive == {i \in DOMAIN answers : ~answers[i].skipped}
  IN  IF decisive = {} THEN "skipped"
      ELSE IF \A i \in decisive : answers[i].passed THEN "pass" ELSE "fail"

\* Every evaluator has answered.
Verdict ==
  /\ result = "none"
  /\ Len(turns) = test.turns
  /\ Len(answers) = Len(test.evals)
  /\ EndRun(RunStatus, answers)

\* CancelledError where the run awaits the copy, Moss or the judge.
Cancelled ==
  /\ AwaitsMoss \/ (Asking /\ Asked.type = "llm_judge")
  /\ result' = "cancelled"
  /\ UNCHANGED <<test, turns, answers, results>>

Over == result # "none" /\ UNCHANGED vars

RunStep ==
  \/ \E r \in MossReplies : MossReturns(r)
  \/ MossRaises
  \/ EvaluatorAnswers
  \/ EvaluatorRaises
  \/ \E reply \in JudgeReplies : JudgeAnswers(reply)
  \/ Verdict

Next == RunStep \/ Cancelled \/ Over

Spec == Init /\ [][Next]_vars

\* Every Moss call and every judge call has a timeout.
FairSpec == Spec /\ WF_vars(RunStep)
-----------------------------------------------------------------------------
EvalResults == [skipped : BOOLEAN, score : Int \cup {NoScore}, passed : BOOLEAN]

\* Type invariant of one test's evaluation.
TypeOK ==
  /\ test \in Tests
  /\ turns \in Seq(MossReplies) /\ Len(turns) <= test.turns
  /\ answers \in Seq(EvalResults) /\ Len(answers) <= Len(test.evals)
  /\ results \in Seq([status : {"pass", "fail", "error", "skipped"},
                      evals : Seq(EvalResults), turns : Seq(MossReplies)])
  /\ Len(results) <= test.runs
  /\ result \in {"none", "pass", "fail", "error", "skipped", "flake", "cancelled"}

\* With every evaluator as the code has it, a test still does what TestExecution
\* says, which knows only how many evaluators there are and which of them checks
\* the exit code (executor.py:143-222, evaluator/registry.py:15-21).
KeepsTestExecution == T!FairSpec

Times(tool, tools) == Cardinality({i \in DOMAIN tools : tools[i] = tool})

\* The loop that takes tools out of a list decides what "any order" means: each
\* tool is called at least as often as it is expected (tool_sequence.py:17-24).
AnyOrderCounts ==
  \A i \in DOMAIN test.evals :
    LET spec == test.evals[i].spec
        tools == [k \in DOMAIN ToolCalls |-> ToolCalls[k].tool]
    IN  test.evals[i].type = "tool_sequence" /\ spec.order = "any" =>
          (SequencePasses(spec, ToolCalls) <=>
             \A tool \in ToSet(spec.expected) : Times(tool, spec.expected) <= Times(tool, tools))

\* A longer conversation takes nothing back: a check of tool calls that passes on
\* the turns so far passes on any that follow (base.py:19-25, tool_sequence.py:10-24,
\* tool_args.py:15-22).
LaterTurnsNeverHurt ==
  [][Len(turns') > Len(turns) =>
       \A i \in DOMAIN test.evals :
         test.evals[i].type \in {"tool_sequence", "tool_args"} /\ Passes(test.evals[i])
           => Passes(test.evals[i])']_vars

\* The score of an eval meets the threshold and every minimum that was set.
GoodScore(spec, score) ==
  score # NoScore /\ \A min \in {spec.threshold} \cup spec.mins : score < min => min <= 0

\* A green test is green on evidence: some run has an evaluator that passed it, and
\* no run of it has a judge without a good score, unless the judge could not be
\* reached (llm_judge.py:17-53, executor.py:197-205, flake.py:18-33).
JudgeNeverFakesAPass ==
  result = "pass" =>
    /\ \E n \in DOMAIN results : \E i \in DOMAIN results[n].evals : results[n].evals[i].passed
    /\ \A n \in DOMAIN results : \A i \in DOMAIN results[n].evals :
         test.evals[i].type = "llm_judge" =>
           \/ results[n].evals[i].skipped
           \/ GoodScore(test.evals[i].spec, results[n].evals[i].score)
==============================================================================
