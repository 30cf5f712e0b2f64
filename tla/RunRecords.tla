----------------------------- MODULE RunRecords -----------------------------
(***************************************************************************)
(* The rows that a run is made of on record (moss_ci/storage/models.py), and *)
(* how RunRepository.save and _to_domain turn a run into rows and back       *)
(* (moss_ci/storage/repository.py).                                         *)
(*                                                                          *)
(* A run is a sequence of suites as in RegressionDiff, its tests with        *)
(* flake_runs besides.  A table is the sequence of its rows: a row's id,     *)
(* given by autoincrement, is its place.  The columns that are copied as     *)
(* they are (counts, durations, outputs, tool calls, errors) are left out.   *)
(***************************************************************************)
EXTENDS Integers, SequencesExt

EmptyDb == [suite_results |-> << >>, test_results |-> << >>, eval_results |-> << >>]

\* Mutated EvalRow: the flag is not written.
EvalRowPlain(test_result_id, ev) ==
  [test_result_id |-> test_result_id, type |-> ev.type, passed |-> IF ev.passed THEN 1 ELSE 0,
   score |-> ev.score, details |-> {}]

\* A Boolean is a number in SQLite; skipped has no column and goes into details.
EvalRow(test_result_id, ev) ==
  [test_result_id |-> test_result_id, type |-> ev.type, passed |-> IF ev.passed THEN 1 ELSE 0,
   score |-> ev.score, details |-> IF ev.skipped THEN {"_skipped"} ELSE {}]

\* flake_runs is one JSON column.
TestRow(suite_id, t) ==
  [suite_id |-> suite_id, test_name |-> t.test_name, status |-> t.status, flake_runs |-> t.flake_runs]

\* save: the flush inserts the suites, then their tests, then the evals, in order.
SaveRows(db, run_id, run) ==
  LET tests == FlattenSeq([i \in DOMAIN run |->
                 [k \in DOMAIN run[i].tests |->
                    [suite_id |-> Len(db.suite_results) + i, test |-> run[i].tests[k]]]])
  IN  [suite_results |-> db.suite_results \o
         [i \in DOMAIN run |-> [run_id |-> run_id, suite_name |-> run[i].suite_name]],
       test_results  |-> db.test_results \o
         [n \in DOMAIN tests |-> TestRow(tests[n].suite_id, tests[n].test)],
       eval_results  |-> db.eval_results \o
         FlattenSeq([n \in DOMAIN tests |->
           [k \in DOMAIN tests[n].test.evals |->
              EvalRow(Len(db.test_results) + n, tests[n].test.evals[k])]])]

\* The ids of the rows that refer to a row, as selectinload finds them: no order_by
\* is given, SQLite goes through the rows by their ids.
ChildrenOf(rows, key, id) ==
  FoldLeftDomain(LAMBDA ids, i : IF rows[i][key] = id THEN Append(ids, i) ELSE ids, << >>, rows)

\* _eval_to_domain: the flag is taken out of details again.
EvalOf(row) ==
  [type |-> row.type, passed |-> row.passed = 1, score |-> row.score,
   skipped |-> "_skipped" \in row.details]

TestOf(db, id) ==
  LET row   == db.test_results[id]
      evals == ChildrenOf(db.eval_results, "test_result_id", id)
  IN  [test_name |-> row.test_name, status |-> row.status, flake_runs |-> row.flake_runs,
       evals |-> [k \in DOMAIN evals |-> EvalOf(db.eval_results[evals[k]])]]

SuiteOf(db, id) ==
  LET tests == ChildrenOf(db.test_results, "suite_id", id)
  IN  [suite_name |-> db.suite_results[id].suite_name,
       tests |-> [k \in DOMAIN tests |-> TestOf(db, tests[k])]]

\* _to_domain on the rows of a run.
LoadRun(db, run_id) ==
  LET suites == ChildrenOf(db.suite_results, "run_id", run_id)
  IN  [i \in DOMAIN suites |-> SuiteOf(db, suites[i])]
==============================================================================
