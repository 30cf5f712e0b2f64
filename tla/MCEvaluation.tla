---------------------------- MODULE MCEvaluation ----------------------------
(***************************************************************************)
(* Evaluation for TLC: a test for each evaluator and for what they do       *)
(* together, once, in flake detection and in a conversation.                *)
(***************************************************************************)
EXTENDS Evaluation

Call(tool, args) == [tool |-> tool, object |-> TRUE, args |-> args]
NullArgs(tool) == [tool |-> tool, object |-> FALSE, args |-> {}]
Reply(exit, calls, files, texts) == [exit |-> exit, calls |-> calls, files |-> files, texts |-> texts]

\* Moss reads and writes, in that order, or reads other things, or calls read with
\* null for its arguments; or it is not found.
Replies ==
  {Reply("ok", <<Call("read", {"a"}), Call("write", {"a", "b"})>>, {"f"}, {"pass"}),
   Reply("ok", <<Call("read", {"b"})>>, {}, {"done"}),
   Reply("ok", <<NullArgs("read")>>, {}, {}),
   Reply("nonzero", << >>, {}, {"error"})}

\* No score, one below every minimum, one between threshold and minimum, a good one
\* that prose precedes, and one off the scale.
N == NoScore
TwoPerWay == {<<N, N, N, N>>, <<30, N, N, N>>, <<N, 42, 50, N>>, <<N, N, N, 48>>, <<90, N, N, 30>>}
Judged ==
  {[kind |-> "answered", text |-> t] : t \in TwoPerWay}
    \cup {[kind |-> k, text |-> <<N, N, N, N>>] : k \in {"unconfigured", "unreachable", "refused"}}

Has(value) == [type |-> "contains", spec |-> [value |-> value, compiles |-> TRUE]]
BadPattern == [type |-> "contains", spec |-> [value |-> "done", compiles |-> FALSE]]
Tools(order, expected) == [type |-> "tool_sequence", spec |-> [order |-> order, expected |-> expected]]
Args(tool, args) == [type |-> "tool_args", spec |-> [tool |-> tool, contains |-> args]]
Judge == [type |-> "llm_judge", spec |-> [threshold |-> 40, mins |-> {0, 45}]]
Effect(check, target) == [type |-> "side_effect", spec |-> [check |-> check, target |-> target]]

Test(n, evals) ==
  [runs |-> n, pass_threshold |-> IF n > 1 THEN n - 1 ELSE 1, consensus |-> "majority",
   conversation |-> FALSE, turns |-> 1, evals |-> evals]
Talk(turnsSent, evals) == [Test(1, evals) EXCEPT !.conversation = TRUE, !.turns = turnsSent]

SmallTests ==
  {Test(1, << >>),
   Test(1, <<Judge>>),
   Test(3, <<Judge, Has("done")>>),
   Test(2, <<Has("pass"), BadPattern>>),
   Test(2, <<Effect("exit_code", NoTarget), Judge>>),
   Test(1, <<Effect("file_modified", "f"), Effect("file_modified", NoTarget), Effect("tests_fail", NoTarget)>>),
   Test(1, <<Effect("file_created", NoTarget), Effect("tests_pass", NoTarget)>>),
   Talk(0, <<Judge, Effect("exit_code", NoTarget)>>),
   Talk(3, <<Tools("strict", <<"read", "write">>), Tools("any", <<"write", "read", "read">>),
             Args("write", {"b"}), Args("read", {"a"})>>),
   Talk(2, <<Effect("file_modified", NoTarget), Effect("exit_code", NoTarget)>>)}
==============================================================================
