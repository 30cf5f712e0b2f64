--------------------------- MODULE RegressionDiff ---------------------------
(***************************************************************************)
(* The regression diff of two runs: DiffEngine.compare                      *)
(* (moss_ci/engine/diff.py), which moss-ci diff and moss-ci diff-files use,  *)
(* and the one that GET /runs/{id}/diff makes on its own                    *)
(* (moss_ci/api/routes/runs.py).                                            *)
(*                                                                          *)
(* A run is the sequence of its suites, a suite its name and the sequence of *)
(* its tests, a test its name, its status, its evals and the runs of flake   *)
(* detection.  Scores are counted in tenths of a point.                     *)
(***************************************************************************)
EXTENDS Integers, Sequences

CONSTANTS
  NoScore,   \* the score None
  Threshold  \* score_threshold

ASSUME DiffAssumption == NoScore \notin Int /\ Threshold \in Nat

EvalResults == [type : STRING, passed : BOOLEAN, skipped : BOOLEAN, score : Int \cup {NoScore}]
TestResults ==
  [test_name : STRING, status : STRING, evals : Seq(EvalResults),
   flake_runs : Seq([status : STRING, evals : Seq(EvalResults)])]
PipelineResults == Seq([suite_name : STRING, tests : Seq(TestResults)])

-----------------------------------------------------------------------------
\* Where the tests of a run are, and their order.
PositionsIn(run, i) == {<<i, k>> : k \in DOMAIN run[i].tests}
Positions(run) == UNION {PositionsIn(run, i) : i \in DOMAIN run}
TestAt(run, p) == run[p[1]].tests[p[2]]
Before(p, q) == p[1] < q[1] \/ (p[1] = q[1] /\ p[2] < q[2])

\* The dict of _index_tests: of the tests of one name, whatever their suites, the
\* last one.
IndexTests(run) ==
  {TestAt(run, p) : p \in {r \in Positions(run) :
     \A q \in Positions(run) :
       Before(r, q) => TestAt(run, q).test_name # TestAt(run, r).test_name}}

\* The first eval of a test that is an llm_judge with a score.
JudgeScore(test) ==
  LET scored == {i \in DOMAIN test.evals : /\ test.evals[i].type = "llm_judge"
                                           /\ test.evals[i].score # NoScore}
      first  == {i \in scored : \A k \in scored : i <= k}
  IN  IF first = {} THEN NoScore ELSE test.evals[CHOOSE i \in first : TRUE].score

\* Both tests have a score, and the second one's is higher by more than the threshold.
Rises(from, to) ==
  /\ JudgeScore(from) # NoScore
  /\ JudgeScore(to) # NoScore
  /\ JudgeScore(to) > JudgeScore(from) + Threshold

\* Mutated Shared: pairs the tests by their places.
SharedByPlace(current, previous) ==
  {<<TestAt(current, p), TestAt(previous, p)>> : p \in Positions(current) \cap Positions(previous)}

\* The tests both runs have, as compare meets them.
Shared(current, previous) ==
  {x \in IndexTests(current) \X IndexTests(previous) : x[1].test_name = x[2].test_name}

StatusItem(x) == [test_name |-> x[1].test_name, previous |-> x[2].status, current |-> x[1].status]
ScoreItem(x) ==
  [test_name |-> x[1].test_name, previous |-> JudgeScore(x[2]), current |-> JudgeScore(x[1])]

\* Mutated Compare: anything but a pass is a failure.
CompareAllRed(current, previous) ==
  LET shared == Shared(current, previous)
  IN  [new_failures |-> {StatusItem(x) : x \in {y \in shared :
                          y[2].status = "pass" /\ y[1].status # "pass"}},
       fixed        |-> {StatusItem(x) : x \in {y \in shared :
                          y[2].status = "fail" /\ y[1].status = "pass"}},
       improved     |-> {ScoreItem(x) : x \in {y \in shared : Rises(y[2], y[1])}},
       degraded     |-> {ScoreItem(x) : x \in {y \in shared : Rises(y[1], y[2])}}]

\* DiffEngine.compare.
Compare(current, previous) ==
  LET shared == Shared(current, previous)
  IN  [new_failures |-> {StatusItem(x) : x \in {y \in shared :
                          y[2].status = "pass" /\ y[1].status = "fail"}},
       fixed        |-> {StatusItem(x) : x \in {y \in shared :
                          y[2].status = "fail" /\ y[1].status = "pass"}},
       improved     |-> {ScoreItem(x) : x \in {y \in shared : Rises(y[2], y[1])}},
       degraded     |-> {ScoreItem(x) : x \in {y \in shared : Rises(y[1], y[2])}}]

-----------------------------------------------------------------------------
\* The first of a sequence of records whose field has a value, if there is one.
FirstWith(seq, f, v) ==
  {i \in DOMAIN seq : seq[i][f] = v /\ \A k \in 1..(i - 1) : seq[k][f] # v}

\* A test and the first one of its name in a suite.
PairsWith(test, suite) ==
  {<<test, suite.tests[k]>> : k \in FirstWith(suite.tests, "test_name", test.test_name)}

\* Mutated ApiShared: looks for a test in the suite of the same place.
ApiSharedByPlace(current, previous) ==
  UNION {PairsWith(TestAt(current, p), previous[p[1]]) :
           p \in {q \in Positions(current) : q[1] \in DOMAIN previous}}

\* The pairs of tests that diff_run compares: the first test of that name in the
\* first suite of that name.
ApiShared(current, previous) ==
  UNION {PairsWith(TestAt(current, x[1]), previous[x[2]]) :
           x \in {y \in Positions(current) \X DOMAIN previous :
                    y[2] \in FirstWith(previous, "suite_name", current[y[1][1]].suite_name)}}

\* What diff_run reports; of a fix it gives the name, from which the statuses follow.
\* Nothing is ever put into its lists improved and degraded.
ApiCompare(current, previous) ==
  LET shared == ApiShared(current, previous)
  IN  [new_failures |-> {StatusItem(x) : x \in {y \in shared :
                          y[2].status = "pass" /\ y[1].status = "fail"}},
       fixed        |-> {StatusItem(x) : x \in {y \in shared :
                          y[2].status = "fail" /\ y[1].status = "pass"}},
       improved     |-> {},
       degraded     |-> {}]

-----------------------------------------------------------------------------
\* A name that only one test of a run has.
Unique(run, name) ==
  \A p, q \in Positions(run) :
    TestAt(run, p).test_name = name /\ TestAt(run, q).test_name = name => p = q

Swap(items) ==
  {[test_name |-> x.test_name, previous |-> x.current, current |-> x.previous] : x \in items}

\* The names in a list of a report.
NamesOf(items) == {x.test_name : x \in items}

\* What is reported of a test whose name nobody shares in either run happened to that
\* very test: the item has its statuses or its scores, and they changed the way the
\* list says.  Of a name that tests share this says only that both runs have it and
\* that it is not in two opposite lists.
ChangesAreReal(report, current, previous) ==
  /\ \A p \in Positions(current), q \in Positions(previous) :
       LET c == TestAt(current, p)
           b == TestAt(previous, q)
           Of(items) == {x \in items : x.test_name = c.test_name}
           Listed(items) == c.test_name \in NamesOf(items)
       IN  /\ c.test_name = b.test_name
           /\ Unique(current, c.test_name) /\ Unique(previous, c.test_name)
           => /\ Of(report.new_failures \cup report.fixed) \subseteq {StatusItem(<<c, b>>)}
              /\ Of(report.improved \cup report.degraded) \subseteq {ScoreItem(<<c, b>>)}
              /\ Listed(report.new_failures) => b.status = "pass" /\ c.status = "fail"
              /\ Listed(report.fixed) => b.status = "fail" /\ c.status = "pass"
              /\ Listed(report.improved) => Rises(b, c)
              /\ Listed(report.degraded) => Rises(c, b)
  /\ \A name \in NamesOf(report.new_failures \cup report.fixed)
                  \cup NamesOf(report.improved \cup report.degraded) :
       /\ \E p \in Positions(current) : TestAt(current, p).test_name = name
       /\ \E q \in Positions(previous) : TestAt(previous, q).test_name = name
  /\ NamesOf(report.new_failures) \cap NamesOf(report.fixed) = {}
  /\ NamesOf(report.improved) \cap NamesOf(report.degraded) = {}

\* Every test whose name nobody shares and that passed and fails now is reported.
RegressionsAreReported(report, current, previous) ==
  \A p \in Positions(current), q \in Positions(previous) :
    LET c == TestAt(current, p)
        b == TestAt(previous, q)
    IN  /\ c.test_name = b.test_name
        /\ Unique(current, c.test_name) /\ Unique(previous, c.test_name)
        /\ b.status = "pass" /\ c.status = "fail"
        => \E x \in report.new_failures : x.test_name = c.test_name

\* The comparison the other way round turns every failure into a fix and every
\* rise of a score into a fall, and nothing else.
Reverses(report, reversed) ==
  /\ reversed.fixed = Swap(report.new_failures)
  /\ reversed.new_failures = Swap(report.fixed)
  /\ reversed.degraded = Swap(report.improved)
  /\ reversed.improved = Swap(report.degraded)

\* Each suite name is used once in a run, each test name too.
NamesAreKeys(run) ==
  /\ \A i, k \in DOMAIN run : run[i].suite_name = run[k].suite_name => i = k
  /\ \A p \in Positions(run) : Unique(run, TestAt(run, p).test_name)

\* A test that both runs have is in the same suite of both.
KeepSuites(current, previous) ==
  \A p \in Positions(current), q \in Positions(previous) :
    TestAt(current, p).test_name = TestAt(previous, q).test_name
      => current[p[1]].suite_name = previous[q[1]].suite_name

\* Of runs whose names are keys one diff reports no failure and no fix that the other
\* has not, and the same ones if the tests keep their suites; of scores it says
\* nothing at all.
AgreesOnStatuses(api, report, current, previous) ==
  NamesAreKeys(current) /\ NamesAreKeys(previous) =>
    /\ api.new_failures \subseteq report.new_failures
    /\ api.fixed \subseteq report.fixed
    /\ KeepSuites(current, previous) => api = [report EXCEPT !.improved = {}, !.degraded = {}]
==============================================================================
