---------------------------- MODULE MCCIBaseline ----------------------------
(***************************************************************************)
(* CIBaseline for TLC: the runs a quick and a full layer may have.          *)
(***************************************************************************)
EXTENDS CIBaseline

Evals(passed, score) ==
  << [type |-> "contains", passed |-> passed, skipped |-> FALSE, score |-> NoScore],
     [type |-> "llm_judge", passed |-> passed /\ score # NoScore, skipped |-> score = NoScore,
      score |-> score] >>
T(name, status, score) ==
  [test_name |-> name, status |-> status, evals |-> Evals(status = "pass", score),
   flake_runs |-> IF name # "ask" THEN << >>
                  ELSE << [status |-> status, evals |-> Evals(status = "pass", score)] >>]
Suite(name, tests) == [suite_name |-> name, tests |-> tests]

\* A judged test that passes and two that fail; then the pass becomes a failure
\* with a lower score and one failure a pass.
Green == << Suite("tools", <<T("ask", "pass", 45), T("edit", "fail", NoScore)>>) >>
Red == << Suite("tools", <<T("edit", "pass", NoScore), T("ask", "fail", 30)>>) >>

\* Two suites with a test of the same name, one test moved, and no judge reached.
Doubled == << Suite("tools", <<T("ask", "fail", NoScore)>>),
              Suite("tasks", <<T("ask", "pass", 48), T("edit", "error", 20)>>) >>

\* Suites of the same name.
Split == << Suite("tools", <<T("edit", "pass", 46)>>),
            Suite("tools", <<T("ask", "skipped", NoScore)>>) >>

\* A second suite before the first.
Tasks == << Suite("tasks", <<T("plan", "pass", 42)>>),
            Suite("tools", <<T("ask", "fail", 36), T("edit", "fail", NoScore)>>) >>

TwoLayers == [quick |-> {Green, Red}, full |-> {Doubled, Split, Tasks}]
Symmetry == Permutations(Jobs) \cup Permutations(Refs)

OneLayer == [quick |-> {Green}]
==============================================================================
