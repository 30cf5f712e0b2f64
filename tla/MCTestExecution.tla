--------------------------- MODULE MCTestExecution ---------------------------
(***************************************************************************)
(* Small test plans: every consensus, up to three runs, thresholds up to    *)
(* one that the runs cannot reach, a prompt or a conversation of two turns, *)
(* no, one or two evaluators, with and without the exit_code check.         *)
(***************************************************************************)
EXTENDS TestExecution

\* The plans of the passing run.
AllPlans ==
  {[runs |-> n, pass_threshold |-> h, consensus |-> k, conversation |-> v,
    turns |-> IF v THEN 2 ELSE 1, evals |-> e, checksExit |-> x] :
     n \in 1..3, h \in 1..4, k \in {"majority", "unanimous"}, v \in BOOLEAN,
     e \in 0..2, x \in BOOLEAN}

\* A judged prompt run three times, two passes needed.
JudgedPlans ==
  {[runs |-> 3, pass_threshold |-> 2, consensus |-> "majority", conversation |-> FALSE,
    turns |-> 1, evals |-> 1, checksExit |-> FALSE]}
==============================================================================
