------------------------- MODULE RunResultsProofs -------------------------
(***************************************************************************)
(* Theorems about runs, with any suites, tests, names, evals and scores:    *)
(* what DiffEngine.compare says of two of them, how far the API's own diff  *)
(* agrees with it where names are keys, and that a run which is saved and   *)
(* loaded again is the run it was.                                          *)
(***************************************************************************)
EXTENDS RegressionDiff, RunRecords, SequenceLemmas, TLAPS

\* A place is two numbers.
LEMMA PlaceIsNumbers ==
  ASSUME NEW run \in PipelineResults, NEW p \in Positions(run)
  PROVE  p = <<p[1], p[2]>> /\ p[1] \in Int /\ p[2] \in Int
<1>1. PICK i \in DOMAIN run : p \in PositionsIn(run, i)
  BY Zenon DEF Positions
<1>2. PICK k \in DOMAIN run[i].tests : p = <<i, k>>
  BY <1>1 DEF PositionsIn
<1> DEFINE Suites == [suite_name : STRING, tests : Seq(TestResults)]
<1>3. run \in Seq(Suites)
  BY DEF PipelineResults
<1>4. i \in Int /\ run[i] \in Suites
  <2> HIDE DEF Suites
  <2> QED BY <1>3
<1>5. run[i].tests \in Seq(TestResults)
  BY <1>4
<1>6. k \in Int
  BY <1>5
<1> QED BY <1>2, <1>4, <1>6

\* Of two tests of a run one comes first.
LEMMA PlacesAreOrdered ==
  ASSUME NEW run \in PipelineResults, NEW p \in Positions(run), NEW q \in Positions(run)
  PROVE  Before(p, q) \/ Before(q, p) \/ p = q
BY PlaceIsNumbers DEF Before

\* The index has one test of a name.
LEMMA IndexIsByName ==
  ASSUME NEW run \in PipelineResults, NEW s \in IndexTests(run), NEW t \in IndexTests(run),
         s.test_name = t.test_name
  PROVE  s = t
<1>1. PICK p \in Positions(run) : /\ s = TestAt(run, p)
                                  /\ \A q \in Positions(run) :
                                       Before(p, q) => TestAt(run, q).test_name # TestAt(run, p).test_name
  BY DEF IndexTests
<1>2. PICK q \in Positions(run) : /\ t = TestAt(run, q)
                                  /\ \A r \in Positions(run) :
                                       Before(q, r) => TestAt(run, r).test_name # TestAt(run, q).test_name
  BY DEF IndexTests
<1>3. ~Before(p, q) /\ ~Before(q, p)
  BY <1>1, <1>2
<1> QED BY <1>1, <1>2, <1>3, PlacesAreOrdered

\* What is in the index is a test of the run.
LEMMA IndexIsOfTheRun ==
  ASSUME NEW run, NEW t \in IndexTests(run)
  PROVE  \E p \in Positions(run) : t = TestAt(run, p)
BY DEF IndexTests

\* A test whose name nobody shares is in the index.
LEMMA UniqueIsIndexed ==
  ASSUME NEW run \in PipelineResults, NEW p \in Positions(run),
         Unique(run, TestAt(run, p).test_name)
  PROVE  TestAt(run, p) \in IndexTests(run)
<1>1. ~Before(p, p)
  BY PlaceIsNumbers DEF Before
<1>2. \A q \in Positions(run) : Before(p, q) => TestAt(run, q).test_name # TestAt(run, p).test_name
  BY <1>1 DEF Unique
<1> QED BY <1>2 DEF IndexTests

-----------------------------------------------------------------------------
\* The only test of a name is the one that is compared under that name.
LEMMA UniqueIsShared ==
  ASSUME NEW c, NEW b, NEW y \in Shared(c, b), NEW p \in Positions(c), NEW q \in Positions(b),
         y[1].test_name = TestAt(c, p).test_name, y[1].test_name = TestAt(b, q).test_name,
         Unique(c, y[1].test_name), Unique(b, y[1].test_name)
  PROVE  y[1] = TestAt(c, p) /\ y[2] = TestAt(b, q)
<1>1. y[1] \in IndexTests(c) /\ y[2] \in IndexTests(b) /\ y[1].test_name = y[2].test_name
  BY DEF Shared
<1>2. PICK r \in Positions(c) : y[1] = TestAt(c, r)
  BY <1>1, IndexIsOfTheRun
<1>3. PICK s \in Positions(b) : y[2] = TestAt(b, s)
  BY <1>1, IndexIsOfTheRun
<1>4. r = p
  BY <1>2 DEF Unique
<1>5. s = q
  BY <1>1, <1>3 DEF Unique
<1> QED BY <1>2, <1>3, <1>4, <1>5

\* What an item of the comparison is, list by list.
LEMMA ItemsOfCompare ==
  ASSUME NEW c, NEW b
  PROVE  /\ \A x \in Compare(c, b).new_failures : \E y \in Shared(c, b) :
              x = StatusItem(y) /\ y[2].status = "pass" /\ y[1].status = "fail"
         /\ \A x \in Compare(c, b).fixed : \E y \in Shared(c, b) :
              x = StatusItem(y) /\ y[2].status = "fail" /\ y[1].status = "pass"
         /\ \A x \in Compare(c, b).improved : \E y \in Shared(c, b) :
              x = ScoreItem(y) /\ Rises(y[2], y[1])
         /\ \A x \in Compare(c, b).degraded : \E y \in Shared(c, b) :
              x = ScoreItem(y) /\ Rises(y[1], y[2])
BY DEF Compare

\* A pair of the comparison and its two items have one name.
LEMMA ItemNames ==
  ASSUME NEW c, NEW b, NEW y \in Shared(c, b)
  PROVE  /\ y = <<y[1], y[2]>> /\ y[1].test_name = y[2].test_name
         /\ StatusItem(y).test_name = y[1].test_name /\ ScoreItem(y).test_name = y[1].test_name
BY DEF Shared, StatusItem, ScoreItem

\* A score does not both rise and fall.
LEMMA NoRiseAndFall ==
  ASSUME NEW s \in TestResults, NEW t \in TestResults, Rises(s, t) PROVE ~Rises(t, s)
<1>1. \A u \in TestResults : JudgeScore(u) \in Int \cup {NoScore}
  <2> SUFFICES ASSUME NEW u \in TestResults PROVE JudgeScore(u) \in Int \cup {NoScore}
    OBVIOUS
  <2> DEFINE scored == {i \in DOMAIN u.evals : /\ u.evals[i].type = "llm_judge"
                                              /\ u.evals[i].score # NoScore}
             first == {i \in scored : \A k \in scored : i <= k}
  <2>1. JudgeScore(u) = IF first = {} THEN NoScore ELSE u.evals[CHOOSE i \in first : TRUE].score
    BY DEF JudgeScore
  <2>2. u.evals \in Seq(EvalResults)
    BY DEF TestResults
  <2>3. \A i \in DOMAIN u.evals : u.evals[i] \in EvalResults
    BY <2>2
  <2>4. \A i \in DOMAIN u.evals : u.evals[i].score \in Int \cup {NoScore}
    BY <2>3 DEF EvalResults
  <2>5. first # {} => (CHOOSE i \in first : TRUE) \in DOMAIN u.evals
    OBVIOUS
  <2> HIDE DEF first
  <2> QED BY <2>1, <2>4, <2>5
<1> QED BY <1>1, DiffAssumption DEF Rises

\* A test of a run is a test.
LEMMA TestIsTest ==
  ASSUME NEW run \in PipelineResults, NEW p \in Positions(run)
  PROVE  TestAt(run, p) \in TestResults
<1>1. PICK i \in DOMAIN run : p \in PositionsIn(run, i)
  BY Zenon DEF Positions
<1>2. PICK k \in DOMAIN run[i].tests : p = <<i, k>>
  BY <1>1 DEF PositionsIn
<1> DEFINE Suites == [suite_name : STRING, tests : Seq(TestResults)]
<1>3. run \in Seq(Suites)
  BY DEF PipelineResults
<1>4. run[i] \in Suites
  <2> HIDE DEF Suites
  <2> QED BY <1>3
<1>5. run[i].tests \in Seq(TestResults)
  BY <1>4
<1>6. run[i].tests[k] \in TestResults
  BY <1>5
<1>7. TestAt(run, p) = run[i].tests[k]
  BY <1>2 DEF TestAt
<1> QED BY <1>6, <1>7

\* For any two runs: what compare reports of a test whose name nobody shares in
\* either run happened to that test, whatever suite it is in; and whichever tests
\* shadow one another, no name is reported that one of the runs has not, or in two
\* opposite lists (diff.py:6-41).
THEOREM ComparisonIsReal ==
  ASSUME NEW c \in PipelineResults, NEW b \in PipelineResults
  PROVE  ChangesAreReal(Compare(c, b), c, b)
<1> DEFINE report == Compare(c, b)
<1>1. /\ \A x \in report.new_failures : \E y \in Shared(c, b) :
              x = StatusItem(y) /\ y[2].status = "pass" /\ y[1].status = "fail"
      /\ \A x \in report.fixed : \E y \in Shared(c, b) :
              x = StatusItem(y) /\ y[2].status = "fail" /\ y[1].status = "pass"
      /\ \A x \in report.improved : \E y \in Shared(c, b) :
              x = ScoreItem(y) /\ Rises(y[2], y[1])
      /\ \A x \in report.degraded : \E y \in Shared(c, b) :
              x = ScoreItem(y) /\ Rises(y[1], y[2])
  BY ItemsOfCompare
<1> HIDE DEF report
<1>2. ASSUME NEW p \in Positions(c), NEW q \in Positions(b),
             TestAt(c, p).test_name = TestAt(b, q).test_name,
             Unique(c, TestAt(c, p).test_name), Unique(b, TestAt(c, p).test_name)
      PROVE  LET t == TestAt(c, p)
                 u == TestAt(b, q)
                 Of(items) == {x \in items : x.test_name = t.test_name}
                 Listed(items) == t.test_name \in NamesOf(items)
             IN  /\ Of(report.new_failures \cup report.fixed) \subseteq {StatusItem(<<t, u>>)}
                 /\ Of(report.improved \cup report.degraded) \subseteq {ScoreItem(<<t, u>>)}
                 /\ Listed(report.new_failures) => u.status = "pass" /\ t.status = "fail"
                 /\ Listed(report.fixed) => u.status = "fail" /\ t.status = "pass"
                 /\ Listed(report.improved) => Rises(u, t)
                 /\ Listed(report.degraded) => Rises(t, u)
  <2> DEFINE t == TestAt(c, p)
             u == TestAt(b, q)
  <2>1. ASSUME NEW y \in Shared(c, b), y[1].test_name = t.test_name
        PROVE  y = <<t, u>> /\ y[1] = t /\ y[2] = u
    <3>1. y[1] = t /\ y[2] = u
      BY <1>2, <2>1, UniqueIsShared
    <3>2. y = <<y[1], y[2]>>
      BY ItemNames
    <3> QED BY <3>1, <3>2
  <2> HIDE DEF t, u
  <2>2. ASSUME NEW x \in report.new_failures, x.test_name = t.test_name
        PROVE  x = StatusItem(<<t, u>>) /\ u.status = "pass" /\ t.status = "fail"
    BY <1>1, <2>1, <2>2, ItemNames
  <2>3. ASSUME NEW x \in report.fixed, x.test_name = t.test_name
        PROVE  x = StatusItem(<<t, u>>) /\ u.status = "fail" /\ t.status = "pass"
    BY <1>1, <2>1, <2>3, ItemNames
  <2>4. ASSUME NEW x \in report.improved, x.test_name = t.test_name
        PROVE  x = ScoreItem(<<t, u>>) /\ Rises(u, t)
    BY <1>1, <2>1, <2>4, ItemNames
  <2>5. ASSUME NEW x \in report.degraded, x.test_name = t.test_name
        PROVE  x = ScoreItem(<<t, u>>) /\ Rises(t, u)
    BY <1>1, <2>1, <2>5, ItemNames
  <2> QED BY <2>2, <2>3, <2>4, <2>5 DEF NamesOf, t, u
<1>3. ASSUME NEW y \in Shared(c, b)
      PROVE  /\ \E p \in Positions(c) : TestAt(c, p).test_name = y[1].test_name
             /\ \E q \in Positions(b) : TestAt(b, q).test_name = y[1].test_name
             /\ y[1] \in TestResults /\ y[2] \in TestResults
  <2>1. y[1] \in IndexTests(c) /\ y[2] \in IndexTests(b) /\ y[1].test_name = y[2].test_name
    BY DEF Shared
  <2>2. PICK p \in Positions(c) : y[1] = TestAt(c, p)
    BY <2>1, IndexIsOfTheRun
  <2>3. PICK q \in Positions(b) : y[2] = TestAt(b, q)
    BY <2>1, IndexIsOfTheRun
  <2> QED BY <2>1, <2>2, <2>3, TestIsTest
<1>4. ASSUME NEW name \in NamesOf(report.new_failures \cup report.fixed)
                            \cup NamesOf(report.improved \cup report.degraded)
      PROVE  /\ \E p \in Positions(c) : TestAt(c, p).test_name = name
             /\ \E q \in Positions(b) : TestAt(b, q).test_name = name
  <2>1. PICK y \in Shared(c, b) : name = y[1].test_name
    BY <1>1, ItemNames DEF NamesOf
  <2> QED BY <1>3, <2>1
<1>5. ASSUME NEW y \in Shared(c, b), NEW z \in Shared(c, b), y[1].test_name = z[1].test_name
      PROVE  y[1] = z[1] /\ y[2] = z[2]
  BY <1>5, IndexIsByName DEF Shared
<1>6. NamesOf(report.new_failures) \cap NamesOf(report.fixed) = {}
  <2> SUFFICES ASSUME NEW x \in report.new_failures, NEW w \in report.fixed,
                      x.test_name = w.test_name
               PROVE  FALSE
    BY DEF NamesOf
  <2>1. PICK y \in Shared(c, b) : x = StatusItem(y) /\ y[1].status = "fail"
    BY <1>1
  <2>2. PICK z \in Shared(c, b) : w = StatusItem(z) /\ z[1].status = "pass"
    BY <1>1
  <2> QED BY <1>5, <2>1, <2>2, ItemNames
<1>7. NamesOf(report.improved) \cap NamesOf(report.degraded) = {}
  <2> SUFFICES ASSUME NEW x \in report.improved, NEW w \in report.degraded,
                      x.test_name = w.test_name
               PROVE  FALSE
    BY DEF NamesOf
  <2>1. PICK y \in Shared(c, b) : x = ScoreItem(y) /\ Rises(y[2], y[1])
    BY <1>1
  <2>2. PICK z \in Shared(c, b) : w = ScoreItem(z) /\ Rises(z[1], z[2])
    BY <1>1
  <2>3. y[1].test_name = z[1].test_name
    BY <2>1, <2>2, ItemNames
  <2>4. y[1] = z[1] /\ y[2] = z[2]
    BY <1>5, <2>3
  <2>5. Rises(y[1], y[2])
    BY <2>2, <2>4
  <2>6. ~Rises(y[1], y[2])
    BY <1>3, <2>1, NoRiseAndFall
  <2> QED BY <2>5, <2>6
<1> QED BY <1>2, <1>4, <1>6, <1>7 DEF ChangesAreReal, report

\* compare reports every test that passed and fails now, if nobody shares its
\* name in either run, in whatever suite it is now (diff.py:6-16, 28-33).
THEOREM ComparisonMissesNone ==
  ASSUME NEW c \in PipelineResults, NEW b \in PipelineResults
  PROVE  RegressionsAreReported(Compare(c, b), c, b)
<1> SUFFICES ASSUME NEW p \in Positions(c), NEW q \in Positions(b),
                    TestAt(c, p).test_name = TestAt(b, q).test_name,
                    Unique(c, TestAt(c, p).test_name), Unique(b, TestAt(c, p).test_name),
                    TestAt(b, q).status = "pass", TestAt(c, p).status = "fail"
             PROVE  \E x \in Compare(c, b).new_failures : x.test_name = TestAt(c, p).test_name
  BY DEF RegressionsAreReported
<1> DEFINE y == <<TestAt(c, p), TestAt(b, q)>>
<1>1. TestAt(c, p) \in IndexTests(c) /\ TestAt(b, q) \in IndexTests(b)
  BY UniqueIsIndexed
<1>2. y \in Shared(c, b) /\ y[1] = TestAt(c, p) /\ y[2] = TestAt(b, q)
  BY <1>1 DEF Shared
<1>3. StatusItem(y) \in Compare(c, b).new_failures
  BY <1>2 DEF Compare
<1>4. StatusItem(y).test_name = TestAt(c, p).test_name
  BY <1>2 DEF StatusItem
<1> QED BY <1>3, <1>4

-----------------------------------------------------------------------------
\* The pair y the other way round, among the tests both runs have.
LEMMA SharedReversed ==
  ASSUME NEW c, NEW b, NEW y \in Shared(c, b)
  PROVE  <<y[2], y[1]>> \in Shared(b, c) /\ y[1].test_name = y[2].test_name
BY DEF Shared

\* The items of the reversed pairs are the items of the pairs, swapped.
LEMMA SwapItems ==
  ASSUME NEW A, NEW B,
         \A y \in A : <<y[2], y[1]>> \in B /\ y[1].test_name = y[2].test_name,
         \A y \in B : <<y[2], y[1]>> \in A /\ y[1].test_name = y[2].test_name
  PROVE  /\ {StatusItem(y) : y \in B} = Swap({StatusItem(y) : y \in A})
         /\ {ScoreItem(y) : y \in B} = Swap({ScoreItem(y) : y \in A})
<1> DEFINE Swapped(x) == [test_name |-> x.test_name, previous |-> x.current, current |-> x.previous]
           Other(y) == <<y[2], y[1]>>
<1>1. ASSUME NEW y, y[1].test_name = y[2].test_name
      PROVE  /\ StatusItem(Other(y)) = Swapped(StatusItem(y))
             /\ ScoreItem(Other(y)) = Swapped(ScoreItem(y))
  <2>1. Other(y)[1] = y[2] /\ Other(y)[2] = y[1]
    OBVIOUS
  <2> HIDE DEF Other
  <2>2. StatusItem(Other(y)) = [test_name |-> y[1].test_name, previous |-> y[1].status,
                                current |-> y[2].status]
    BY <1>1, <2>1 DEF StatusItem
  <2>3. ScoreItem(Other(y)) = [test_name |-> y[1].test_name, previous |-> JudgeScore(y[1]),
                               current |-> JudgeScore(y[2])]
    BY <1>1, <2>1 DEF ScoreItem
  <2>4. Swapped(StatusItem(y)) = [test_name |-> y[1].test_name, previous |-> y[1].status,
                                  current |-> y[2].status]
    BY DEF StatusItem
  <2>5. Swapped(ScoreItem(y)) = [test_name |-> y[1].test_name, previous |-> JudgeScore(y[1]),
                                 current |-> JudgeScore(y[2])]
    BY DEF ScoreItem
  <2> HIDE DEF Swapped
  <2> QED BY <2>2, <2>3, <2>4, <2>5
<1>2. ASSUME NEW y, y[1].test_name = y[2].test_name
      PROVE  /\ StatusItem(y) = Swapped(StatusItem(Other(y)))
             /\ ScoreItem(y) = Swapped(ScoreItem(Other(y)))
  <2>1. Other(y)[1] = y[2] /\ Other(y)[2] = y[1] /\ Other(Other(y)) = <<y[1], y[2]>>
    OBVIOUS
  <2>2. /\ StatusItem(Other(Other(y))) = Swapped(StatusItem(Other(y)))
        /\ ScoreItem(Other(Other(y))) = Swapped(ScoreItem(Other(y)))
    BY <1>1, <1>2, <2>1
  <2>3. StatusItem(Other(Other(y))) = StatusItem(y) /\ ScoreItem(Other(Other(y))) = ScoreItem(y)
    BY <2>1 DEF StatusItem, ScoreItem
  <2> HIDE DEF Swapped, Other
  <2> QED BY <2>2, <2>3
<1>3. /\ \A y \in A : Other(y) \in B /\ y[1].test_name = y[2].test_name
      /\ \A y \in B : Other(y) \in A /\ y[1].test_name = y[2].test_name
  OBVIOUS
<1> HIDE DEF Other, Swapped
<1>4. /\ \A y \in A : \E z \in B : /\ StatusItem(z) = Swapped(StatusItem(y))
                                   /\ ScoreItem(z) = Swapped(ScoreItem(y))
      /\ \A z \in B : \E y \in A : /\ StatusItem(z) = Swapped(StatusItem(y))
                                   /\ ScoreItem(z) = Swapped(ScoreItem(y))
  BY <1>1, <1>2, <1>3
<1>5. {StatusItem(y) : y \in B} = {Swapped(x) : x \in {StatusItem(y) : y \in A}}
  BY <1>4
<1>6. {ScoreItem(y) : y \in B} = {Swapped(x) : x \in {ScoreItem(y) : y \in A}}
  BY <1>4
<1> QED BY <1>5, <1>6 DEF Swap, Swapped

\* Comparing two runs the other way round says the opposite and nothing else
\* (diff.py:15-26).
THEOREM ComparisonReverses ==
  ASSUME NEW c, NEW b
  PROVE  Reverses(Compare(c, b), Compare(b, c))
<1> DEFINE Failed(x, y) == {z \in Shared(x, y) : z[2].status = "pass" /\ z[1].status = "fail"}
           Fixed(x, y)  == {z \in Shared(x, y) : z[2].status = "fail" /\ z[1].status = "pass"}
           Rose(x, y)   == {z \in Shared(x, y) : Rises(z[2], z[1])}
           Fell(x, y)   == {z \in Shared(x, y) : Rises(z[1], z[2])}
<1>1. \A x, y : /\ Compare(x, y).new_failures = {StatusItem(z) : z \in Failed(x, y)}
                /\ Compare(x, y).fixed = {StatusItem(z) : z \in Fixed(x, y)}
                /\ Compare(x, y).improved = {ScoreItem(z) : z \in Rose(x, y)}
                /\ Compare(x, y).degraded = {ScoreItem(z) : z \in Fell(x, y)}
  BY DEF Compare
<1>2. ASSUME NEW x, NEW y
      PROVE  /\ \A z \in Failed(x, y) : <<z[2], z[1]>> \in Fixed(y, x) /\ z[1].test_name = z[2].test_name
             /\ \A z \in Fixed(x, y) : <<z[2], z[1]>> \in Failed(y, x) /\ z[1].test_name = z[2].test_name
             /\ \A z \in Rose(x, y) : <<z[2], z[1]>> \in Fell(y, x) /\ z[1].test_name = z[2].test_name
             /\ \A z \in Fell(x, y) : <<z[2], z[1]>> \in Rose(y, x) /\ z[1].test_name = z[2].test_name
  BY SharedReversed
<1> HIDE DEF Failed, Fixed, Rose, Fell
<1>3. {StatusItem(z) : z \in Fixed(b, c)} = Swap({StatusItem(z) : z \in Failed(c, b)})
  <2>1. /\ \A z \in Failed(c, b) : <<z[2], z[1]>> \in Fixed(b, c) /\ z[1].test_name = z[2].test_name
        /\ \A z \in Fixed(b, c) : <<z[2], z[1]>> \in Failed(c, b) /\ z[1].test_name = z[2].test_name
    BY <1>2
  <2> QED BY <2>1, SwapItems
<1>4. {StatusItem(z) : z \in Failed(b, c)} = Swap({StatusItem(z) : z \in Fixed(c, b)})
  <2>1. /\ \A z \in Fixed(c, b) : <<z[2], z[1]>> \in Failed(b, c) /\ z[1].test_name = z[2].test_name
        /\ \A z \in Failed(b, c) : <<z[2], z[1]>> \in Fixed(c, b) /\ z[1].test_name = z[2].test_name
    BY <1>2
  <2> QED BY <2>1, SwapItems
<1>5. {ScoreItem(z) : z \in Fell(b, c)} = Swap({ScoreItem(z) : z \in Rose(c, b)})
  <2>1. /\ \A z \in Rose(c, b) : <<z[2], z[1]>> \in Fell(b, c) /\ z[1].test_name = z[2].test_name
        /\ \A z \in Fell(b, c) : <<z[2], z[1]>> \in Rose(c, b) /\ z[1].test_name = z[2].test_name
    BY <1>2
  <2> QED BY <2>1, SwapItems
<1>6. {ScoreItem(z) : z \in Rose(b, c)} = Swap({ScoreItem(z) : z \in Fell(c, b)})
  <2>1. /\ \A z \in Fell(c, b) : <<z[2], z[1]>> \in Rose(b, c) /\ z[1].test_name = z[2].test_name
        /\ \A z \in Rose(b, c) : <<z[2], z[1]>> \in Fell(c, b) /\ z[1].test_name = z[2].test_name
    BY <1>2
  <2> QED BY <2>1, SwapItems
<1> QED BY <1>1, <1>3, <1>4, <1>5, <1>6 DEF Reverses

-----------------------------------------------------------------------------
\* A suite has its tests at its places.
LEMMA PlacesOfSuites ==
  ASSUME NEW run \in PipelineResults
  PROVE  /\ \A i \in DOMAIN run : \A k \in DOMAIN run[i].tests : <<i, k>> \in Positions(run)
         /\ \A p \in Positions(run) : p[1] \in DOMAIN run /\ p[2] \in DOMAIN run[p[1]].tests
<1>1. ASSUME NEW i \in DOMAIN run, NEW k \in DOMAIN run[i].tests PROVE <<i, k>> \in Positions(run)
  <2>1. <<i, k>> \in PositionsIn(run, i)
    BY DEF PositionsIn
  <2> QED BY <2>1 DEF Positions
<1>2. ASSUME NEW p \in Positions(run)
      PROVE  p[1] \in DOMAIN run /\ p[2] \in DOMAIN run[p[1]].tests
  <2>1. PICK i \in DOMAIN run : p \in PositionsIn(run, i)
    BY Zenon DEF Positions
  <2>2. PICK k \in DOMAIN run[i].tests : p = <<i, k>>
    BY <2>1 DEF PositionsIn
  <2> QED BY <2>2
<1> QED BY <1>1, <1>2

\* Where the names of a run are keys, looking for a test finds the one of that name.
LEMMA FirstIsOnly ==
  ASSUME NEW run \in PipelineResults, NamesAreKeys(run), NEW q \in Positions(run)
  PROVE  /\ q[1] \in FirstWith(run, "suite_name", run[q[1]].suite_name)
         /\ q[2] \in FirstWith(run[q[1]].tests, "test_name", TestAt(run, q).test_name)
<1> DEFINE i == q[1]
           k == q[2]
           Suites == [suite_name : STRING, tests : Seq(TestResults)]
<1>1. i \in DOMAIN run /\ k \in DOMAIN run[i].tests
  BY PlacesOfSuites
<1>2. run \in Seq(Suites) /\ DOMAIN run = 1..Len(run)
  BY DEF PipelineResults
<1>3. run[i] \in Suites
  <2> HIDE DEF Suites, i
  <2> QED BY <1>1, <1>2
<1>4. run[i].tests \in Seq(TestResults)
  BY <1>3
<1> HIDE DEF i, k
<1>5. \A m \in 1..(i - 1) : run[m]["suite_name"] # run[i].suite_name
  <2> SUFFICES ASSUME NEW m \in 1..(i - 1), run[m].suite_name = run[i].suite_name PROVE FALSE
    OBVIOUS
  <2>1. m \in DOMAIN run /\ m # i
    BY <1>1, <1>2
  <2> QED BY <1>1, <2>1 DEF NamesAreKeys
<1>6. \A m \in 1..(k - 1) : run[i].tests[m]["test_name"] # run[i].tests[k].test_name
  <2> SUFFICES ASSUME NEW m \in 1..(k - 1), run[i].tests[m].test_name = run[i].tests[k].test_name
               PROVE  FALSE
    OBVIOUS
  <2>1. m \in DOMAIN run[i].tests /\ m # k
    BY <1>1, <1>4
  <2>2. <<i, m>> \in Positions(run) /\ <<i, k>> \in Positions(run) /\ <<i, m>> # <<i, k>>
    BY <1>1, <2>1, PlacesOfSuites
  <2>3. TestAt(run, <<i, m>>).test_name = TestAt(run, <<i, k>>).test_name
    BY DEF TestAt
  <2> QED BY <2>2, <2>3 DEF NamesAreKeys, Unique
<1> QED BY <1>1, <1>5, <1>6 DEF FirstWith, TestAt, i, k

\* Where names are keys, both diffs pair the same tests if the tests keep their
\* suites; the API pairs no others if they do not.
LEMMA PairsAgree ==
  ASSUME NEW c \in PipelineResults, NEW b \in PipelineResults,
         NamesAreKeys(c), NamesAreKeys(b)
  PROVE  /\ ApiShared(c, b) \subseteq Shared(c, b)
         /\ KeepSuites(c, b) => Shared(c, b) \subseteq ApiShared(c, b)
<1>1. ASSUME KeepSuites(c, b), NEW x \in Shared(c, b) PROVE x \in ApiShared(c, b)
  <2>1. /\ x = <<x[1], x[2]>> /\ x[1].test_name = x[2].test_name
        /\ x[1] \in IndexTests(c) /\ x[2] \in IndexTests(b)
    BY DEF Shared
  <2>2. PICK p \in Positions(c) : x[1] = TestAt(c, p)
    BY <2>1, IndexIsOfTheRun
  <2>3. PICK q \in Positions(b) : x[2] = TestAt(b, q)
    BY <2>1, IndexIsOfTheRun
  <2>4. c[p[1]].suite_name = b[q[1]].suite_name
    BY <1>1, <2>1, <2>2, <2>3 DEF KeepSuites
  <2>5. q[1] \in FirstWith(b, "suite_name", c[p[1]].suite_name)
    BY <2>4, FirstIsOnly
  <2>6. q[2] \in FirstWith(b[q[1]].tests, "test_name", TestAt(c, p).test_name)
    BY <2>1, <2>2, <2>3, FirstIsOnly
  <2>7. x \in PairsWith(TestAt(c, p), b[q[1]])
    BY <2>1, <2>2, <2>3, <2>6 DEF PairsWith, TestAt
  <2> DEFINE y == <<p, q[1]>>
  <2>8. y \in Positions(c) \X DOMAIN b /\ y[1] = p /\ y[2] = q[1]
    BY PlacesOfSuites
  <2> HIDE DEF y
  <2> QED BY <2>5, <2>7, <2>8 DEF ApiShared
<1>2. ASSUME NEW x \in ApiShared(c, b) PROVE x \in Shared(c, b)
  <2>1. PICK y \in Positions(c) \X DOMAIN b : x \in PairsWith(TestAt(c, y[1]), b[y[2]])
    BY Zenon DEF ApiShared
  <2> DEFINE p == y[1]
             j == y[2]
  <2>2. p \in Positions(c) /\ j \in DOMAIN b
    OBVIOUS
  <2>3. PICK k \in FirstWith(b[j].tests, "test_name", TestAt(c, p).test_name) :
          x = <<TestAt(c, p), b[j].tests[k]>>
    BY <2>1 DEF PairsWith
  <2> HIDE DEF p, j
  <2>4. k \in DOMAIN b[j].tests /\ b[j].tests[k]["test_name"] = TestAt(c, p).test_name
    BY <2>3 DEF FirstWith
  <2> DEFINE q == <<j, k>>
  <2>5. q \in Positions(b) /\ TestAt(b, q) = b[j].tests[k]
    BY <2>2, <2>4, PlacesOfSuites DEF TestAt
  <2> HIDE DEF q
  <2>6. TestAt(c, p) \in IndexTests(c) /\ TestAt(b, q) \in IndexTests(b)
    BY <2>2, <2>5, UniqueIsIndexed DEF NamesAreKeys
  <2> QED BY <2>3, <2>4, <2>5, <2>6 DEF Shared
<1> QED BY <1>1, <1>2

\* For any two runs whose names are keys: the diff of the API has no failure and no
\* fix that the engine's diff has not, and the same ones if the tests keep their
\* suites; rises and falls of scores, which the engine's has, are in none of its
\* lists (runs.py:87-108, diff.py:6-33).
THEOREM ComparisonsAgree ==
  ASSUME NEW c \in PipelineResults, NEW b \in PipelineResults
  PROVE  AgreesOnStatuses(ApiCompare(c, b), Compare(c, b), c, b)
<1> SUFFICES ASSUME NamesAreKeys(c), NamesAreKeys(b)
             PROVE  /\ ApiCompare(c, b).new_failures \subseteq Compare(c, b).new_failures
                    /\ ApiCompare(c, b).fixed \subseteq Compare(c, b).fixed
                    /\ KeepSuites(c, b) =>
                         ApiCompare(c, b) = [Compare(c, b) EXCEPT !.improved = {}, !.degraded = {}]
  BY DEF AgreesOnStatuses
<1>1. ApiShared(c, b) \subseteq Shared(c, b)
  BY PairsAgree
<1>2. ASSUME KeepSuites(c, b) PROVE Shared(c, b) = ApiShared(c, b)
  BY <1>1, <1>2, PairsAgree
<1>3. /\ ApiCompare(c, b).new_failures \subseteq Compare(c, b).new_failures
      /\ ApiCompare(c, b).fixed \subseteq Compare(c, b).fixed
  BY <1>1 DEF ApiCompare, Compare
<1>4. ASSUME KeepSuites(c, b)
      PROVE  ApiCompare(c, b) = [Compare(c, b) EXCEPT !.improved = {}, !.degraded = {}]
  <2> DEFINE shared == Shared(c, b)
             failures == {StatusItem(x) : x \in {y \in shared :
                            y[2].status = "pass" /\ y[1].status = "fail"}}
             fixes == {StatusItem(x) : x \in {y \in shared :
                         y[2].status = "fail" /\ y[1].status = "pass"}}
             rises == {ScoreItem(x) : x \in {y \in shared : Rises(y[2], y[1])}}
             falls == {ScoreItem(x) : x \in {y \in shared : Rises(y[1], y[2])}}
  <2>1. Compare(c, b) = [new_failures |-> failures, fixed |-> fixes,
                         improved |-> rises, degraded |-> falls]
    BY DEF Compare
  <2>2. ApiShared(c, b) = shared
    BY <1>2, <1>4
  <2> HIDE DEF shared
  <2>3. ApiCompare(c, b) = [new_failures |-> failures, fixed |-> fixes,
                            improved |-> {}, degraded |-> {}]
    BY <2>2 DEF ApiCompare
  <2> HIDE DEF failures, fixes, rises, falls
  <2> DEFINE noRises == [Compare(c, b) EXCEPT !.improved = {}]
  <2>4. noRises = [new_failures |-> failures, fixed |-> fixes,
                   improved |-> {}, degraded |-> falls]
    BY <2>1
  <2>5. [Compare(c, b) EXCEPT !.improved = {}, !.degraded = {}] = [noRises EXCEPT !.degraded = {}]
    BY <2>1
  <2> HIDE DEF noRises
  <2>6. [noRises EXCEPT !.degraded = {}] = [new_failures |-> failures, fixed |-> fixes,
                                            improved |-> {}, degraded |-> {}]
    BY <2>4
  <2> QED BY <2>3, <2>5, <2>6
<1> QED BY <1>3, <1>4

-----------------------------------------------------------------------------
(***************************************************************************)
(* The rows that refer to a row.                                            *)
(***************************************************************************)
\* The scan of a table, row by row.
ScansBy(h, n, rows, key, id) ==
  /\ h \in [0..n -> Seq(1..n)]
  /\ h[0] = << >>
  /\ \A i \in DOMAIN rows : h[i] = IF rows[i][key] = id THEN Append(h[i - 1], i) ELSE h[i - 1]

\* ChildrenOf is what the scan has collected after the last row.
LEMMA ChildrenAreScanned ==
  ASSUME NEW rows, NEW n \in Nat, DOMAIN rows = 1..n, NEW key, NEW id
  PROVE  \E h : ScansBy(h, n, rows, key, id) /\ ChildrenOf(rows, key, id) = h[n]
<1> DEFINE V == Seq(1..n)
           Op(ids, i) == IF rows[i][key] = id THEN Append(ids, i) ELSE ids
           places == [i \in DOMAIN rows |-> i]
           F == [x \in (1..n) \X V |-> Op(x[2], x[1])]
           Step(d, s) == IF s = {} THEN << >> ELSE Op(d[s \ {Max(s)}], places[Max(s)])
           c == CHOOSE d : d = [s \in SUBSET DOMAIN places |-> Step(d, s)]
<1>1. ChildrenOf(rows, key, id) = c[DOMAIN places]
  BY Zenon DEF ChildrenOf, FoldLeftDomain, FoldLeft, MapThenFoldSet
<1>2. DOMAIN places = 1..n /\ \A i \in 1..n : places[i] = i
  OBVIOUS
<1>3. ASSUME NEW i \in 1..n, NEW v \in V PROVE F[<<i, v>>] = Op(v, i) /\ Op(v, i) \in V
  <2>1. Append(v, i) \in V
    <3> DEFINE D == 1..n
    <3>1. i \in D /\ v \in Seq(D)
      OBVIOUS
    <3> HIDE DEF D
    <3>2. Append(v, i) \in Seq(D)
      BY <3>1
    <3> QED BY <3>2 DEF D
  <2>2. Op(v, i) \in V
    BY <2>1
  <2>3. <<i, v>> \in (1..n) \X V
    OBVIOUS
  <2> HIDE DEF V, Op
  <2> QED BY <2>2, <2>3
<1>4. F \in [(1..n) \X V -> V] /\ << >> \in V
  <2>1. << >> \in V
    OBVIOUS
  <2> HIDE DEF V, Op
  <2>2. \A x \in (1..n) \X V : x[1] \in 1..n /\ x[2] \in V /\ x = <<x[1], x[2]>>
    OBVIOUS
  <2> QED BY <1>3, <2>1, <2>2
<1> HIDE DEF V, Op, F, places
<1>5. PICK g \in [SUBSET (1..n) -> V] : FoldsBy(g, n, << >>, F)
  BY <1>4, FoldExists
<1>6. \A s \in SUBSET (1..n) : g[s] = Step(g, s)
  <2> SUFFICES ASSUME NEW s \in SUBSET (1..n), s # {} PROVE g[s] = Step(g, s)
    BY <1>5 DEF FoldsBy
  <2>1. Max(s) \in 1..n /\ s \ {Max(s)} \in SUBSET (1..n)
    BY MaxOfPlaces
  <2>2. g[s \ {Max(s)}] \in V /\ g[s] = F[<<Max(s), g[s \ {Max(s)}]>>]
    BY <1>5, <2>1 DEF FoldsBy
  <2> QED BY <1>2, <1>3, <2>1, <2>2
<1>7. g = [s \in SUBSET DOMAIN places |-> Step(g, s)]
  <2> HIDE DEF Step
  <2> QED BY <1>2, <1>5, <1>6
<1>8. c = [s \in SUBSET DOMAIN places |-> Step(c, s)]
  <2> HIDE DEF Step
  <2> QED BY <1>7
<1> HIDE DEF c
<1>9. \A s \in SUBSET (1..n) : c[s] = Step(c, s)
  <2> HIDE DEF Step
  <2> QED BY <1>2, <1>8
<1>10. c[{}] = << >>
  BY <1>9
<1>11. ASSUME NEW s \in SUBSET (1..n), s # {}, c[s \ {Max(s)}] \in V
       PROVE  c[s] = F[<<Max(s), c[s \ {Max(s)}]>>]
  <2>1. Max(s) \in 1..n
    BY <1>11, MaxOfPlaces
  <2>2. c[s] = Op(c[s \ {Max(s)}], Max(s))
    BY <1>2, <1>9, <1>11, <2>1
  <2>3. F[<<Max(s), c[s \ {Max(s)}]>>] = Op(c[s \ {Max(s)}], Max(s))
    BY <1>3, <1>11, <2>1
  <2> QED BY <2>2, <2>3
<1>12. PICK h : LoopsBy(h, n, V, << >>, F) /\ c[1..n] = h[n]
  <2>1. \A s \in SUBSET (1..n) : s # {} /\ c[s \ {Max(s)}] \in V
          => c[s] = F[<<Max(s), c[s \ {Max(s)}]>>]
    BY <1>11
  <2>2. FoldsOn(V, c, n, << >>, F)
    BY <1>4, <1>10, <2>1 DEF FoldsOn
  <2> QED BY <1>4, <2>2, FoldIsLoop
<1>13. ASSUME NEW i \in 1..n PROVE h[i] = Op(h[i - 1], i)
  <2>1. h[i - 1] \in V /\ h[i] = F[<<i, h[i - 1]>>]
    BY <1>12 DEF LoopsBy
  <2> QED BY <1>3, <2>1
<1>14. ScansBy(h, n, rows, key, id)
  BY <1>12, <1>13 DEF ScansBy, LoopsBy, Op, V
<1> QED BY <1>1, <1>2, <1>12, <1>14

\* A row's children are rows.
LEMMA ChildrenAreRows ==
  ASSUME NEW rows, NEW n \in Nat, DOMAIN rows = 1..n, NEW key, NEW id
  PROVE  ChildrenOf(rows, key, id) \in Seq(1..n)
<1>1. PICK h : ScansBy(h, n, rows, key, id) /\ ChildrenOf(rows, key, id) = h[n]
  BY ChildrenAreScanned
<1> QED BY <1>1 DEF ScansBy

\* Rows that refer to other rows, after those of a table, are nobody's children.
LEMMA ChildrenOfLonger ==
  ASSUME NEW rows, NEW n \in Nat, DOMAIN rows = 1..n,
         NEW all, NEW p \in Nat, DOMAIN all = 1..p, n <= p, NEW key, NEW id,
         \A i \in 1..n : all[i][key] = rows[i][key],
         \A i \in (n + 1)..p : all[i][key] # id
  PROVE  ChildrenOf(all, key, id) = ChildrenOf(rows, key, id)
<1>1. PICK g : ScansBy(g, n, rows, key, id) /\ ChildrenOf(rows, key, id) = g[n]
  BY ChildrenAreScanned
<1>2. PICK h : ScansBy(h, p, all, key, id) /\ ChildrenOf(all, key, id) = h[p]
  BY ChildrenAreScanned
<1> DEFINE At(k) == IF k <= n THEN k ELSE n
           N == {k \in Nat : k <= p => h[k] = g[At(k)]}
<1>3. 0 \in N
  BY <1>1, <1>2 DEF ScansBy
<1>4. ASSUME NEW k \in Nat, k \in N PROVE k + 1 \in N
  <2> SUFFICES ASSUME k + 1 <= p PROVE h[k + 1] = g[At(k + 1)]
    OBVIOUS
  <2>1. h[k] = g[At(k)] /\ k + 1 \in DOMAIN all /\ (k + 1) - 1 = k
    BY <1>4
  <2>2. h[k + 1] = IF all[k + 1][key] = id THEN Append(h[k], k + 1) ELSE h[k]
    BY <1>2, <2>1 DEF ScansBy
  <2>3. CASE k + 1 <= n
    <3>1. k + 1 \in DOMAIN rows /\ At(k) = k /\ At(k + 1) = k + 1 /\ k + 1 \in 1..n
      BY <2>3
    <3>2. g[k + 1] = IF rows[k + 1][key] = id THEN Append(g[k], k + 1) ELSE g[k]
      BY <1>1, <2>1, <3>1 DEF ScansBy
    <3>3. all[k + 1][key] = rows[k + 1][key]
      BY <3>1
    <3> HIDE DEF At
    <3> QED BY <2>1, <2>2, <3>1, <3>2, <3>3
  <2>4. CASE k + 1 > n
    <3>1. k + 1 \in (n + 1)..p /\ At(k) = n /\ At(k + 1) = n
      BY <2>4
    <3>2. all[k + 1][key] # id
      BY <3>1
    <3> HIDE DEF At
    <3> QED BY <2>1, <2>2, <3>1, <3>2
  <2> QED BY <2>3, <2>4
<1>5. p \in N /\ At(p) = n
  <2>1. p \in N
    <3> HIDE DEF N
    <3> QED BY <1>3, <1>4, NatSet
  <2> QED BY <2>1
<1>6. h[p] = g[n]
  <2> HIDE DEF At
  <2> QED BY <1>5
<1> QED BY <1>1, <1>2, <1>6

\* The m numbers from a + 1 on.
After(a, m) == [k \in 1..m |-> a + k]

\* m numbers from a + 1 on, and the next one.
LEMMA AppendNext ==
  ASSUME NEW a \in Nat, NEW m \in Nat
  PROVE  Append([k \in 1..m |-> a + k], a + (m + 1)) = [k \in 1..(m + 1) |-> a + k]
<1> DEFINE s == [k \in 1..m |-> a + k]
           t == [k \in 1..(m + 1) |-> a + k]
           u == Append(s, a + (m + 1))
<1>1. s \in Seq(Nat) /\ Len(s) = m /\ \A k \in 1..m : s[k] = a + k
  OBVIOUS
<1>2. DOMAIN t = 1..(m + 1) /\ \A k \in 1..(m + 1) : t[k] = a + k
  OBVIOUS
<1> HIDE DEF s, t
<1>3. /\ u \in Seq(Nat) /\ DOMAIN u = 1..(m + 1)
      /\ \A k \in 1..m : u[k] = s[k]
      /\ u[m + 1] = a + (m + 1)
  BY <1>1
<1> HIDE DEF u
<1>4. \A k \in 1..(m + 1) : u[k] = t[k]
  <2> TAKE k \in 1..(m + 1)
  <2>1. k \in 1..m \/ k = m + 1
    OBVIOUS
  <2> QED BY <1>1, <1>2, <1>3, <2>1
<1>5. u = t
  <2>1. u = [k \in DOMAIN u |-> u[k]] /\ t = [k \in DOMAIN t |-> t[k]]
    BY <1>3 DEF t
  <2> QED BY <1>2, <1>3, <1>4, <2>1
<1> QED BY <1>5 DEF u, s, t

\* The rows a + 1 to a + m are those that refer to a row.
RefersAt(rows, n, key, id, a, m) ==
  /\ DOMAIN rows = 1..n /\ (m = 0 \/ a + m <= n)
  /\ \A i \in 1..n : rows[i][key] = id <=> a < i /\ i <= a + m

\* If the rows a + 1 to a + m are those that refer to a row, they are its children.
LEMMA ChildrenOfRange ==
  ASSUME NEW rows, NEW n \in Nat, NEW key, NEW id, NEW a \in Nat, NEW m \in Nat,
         RefersAt(rows, n, key, id, a, m)
  PROVE  ChildrenOf(rows, key, id) = After(a, m)
<1> USE DEF RefersAt
<1>1. PICK h : ScansBy(h, n, rows, key, id) /\ ChildrenOf(rows, key, id) = h[n]
  BY ChildrenAreScanned
<1> DEFINE Got(k) == IF k <= a THEN 0 ELSE IF k <= a + m THEN k - a ELSE m
           Up(d) == [k \in 1..d |-> a + k]
           N == {k \in Nat : k <= n => h[k] = Up(Got(k))}
<1>2. 0 \in N
  <2>1. Got(0) = 0 /\ h[0] = << >>
    BY <1>1 DEF ScansBy
  <2>2. Up(0) = << >>
    OBVIOUS
  <2> HIDE DEF Got, Up
  <2> QED BY <2>1, <2>2
<1>3. ASSUME NEW k \in Nat, k \in N PROVE k + 1 \in N
  <2> SUFFICES ASSUME k + 1 <= n PROVE h[k + 1] = Up(Got(k + 1))
    OBVIOUS
  <2>1. h[k] = Up(Got(k)) /\ k + 1 \in DOMAIN rows /\ (k + 1) - 1 = k
    <3> HIDE DEF Got, Up
    <3> QED BY <1>3
  <2>2. h[k + 1] = IF rows[k + 1][key] = id THEN Append(h[k], k + 1) ELSE h[k]
    BY <1>1, <2>1 DEF ScansBy
  <2>3. rows[k + 1][key] = id <=> a < k + 1 /\ k + 1 <= a + m
    <3>1. k + 1 \in 1..n
      OBVIOUS
    <3> QED BY <3>1
  <2>4. CASE a < k + 1 /\ k + 1 <= a + m
    <3>1. Got(k) = k - a /\ Got(k + 1) = (k - a) + 1 /\ k - a \in Nat /\ a + ((k - a) + 1) = k + 1
      BY <2>4
    <3>2. Append(Up(k - a), k + 1) = Up((k - a) + 1)
      BY <3>1, AppendNext
    <3> HIDE DEF Got, Up
    <3> QED BY <2>1, <2>2, <2>3, <2>4, <3>1, <3>2
  <2>5. CASE ~(a < k + 1 /\ k + 1 <= a + m)
    <3>1. Got(k + 1) = Got(k)
      BY <2>5
    <3> HIDE DEF Got, Up
    <3> QED BY <2>1, <2>2, <2>3, <2>5, <3>1
  <2> QED BY <2>4, <2>5
<1>4. n \in N
  <2> HIDE DEF N
  <2> QED BY <1>2, <1>3, NatSet
<1>5. Got(n) = m
  OBVIOUS
<1>6. h[n] = Up(m)
  <2> HIDE DEF Got, Up
  <2> QED BY <1>4, <1>5
<1> QED BY <1>1, <1>6 DEF After

\* Behind a rows that refer to rows up to b, p rows were inserted in n groups; group
\* i has len[i] rows, from off[i] + 1 on, that refer to row b + i.
GroupsAt(rows, a, p, key, b, n, len, off) ==
  /\ DOMAIN rows = 1..(a + p)
  /\ \A i \in 1..n : len[i] \in Nat /\ off[i] \in Nat
  /\ \A x \in 1..a : rows[x][key] \in Nat /\ rows[x][key] <= b
  /\ \A i \in 1..n : \A k \in 1..len[i] :
       off[i] + k \in 1..p /\ rows[a + (off[i] + k)][key] = b + i
  /\ \A x \in 1..p : \E i \in 1..n : \E k \in 1..len[i] : x = off[i] + k

\* Rows that are inserted in groups are the children of the rows they refer to.
LEMMA ChildrenOfGroups ==
  ASSUME NEW rows, NEW a \in Nat, NEW p \in Nat, NEW key, NEW b \in Nat, NEW n \in Nat,
         NEW len, NEW off, GroupsAt(rows, a, p, key, b, n, len, off)
  PROVE  \A i \in 1..n : ChildrenOf(rows, key, b + i) = After(a + off[i], len[i])
<1> TAKE i \in 1..n
<1> DEFINE o == off[i]
           m == len[i]
<1>1. o \in Nat /\ m \in Nat /\ a + o \in Nat /\ a + p \in Nat
  BY DEF GroupsAt
<1>2. \A k \in 1..m : o + k \in 1..p /\ rows[a + (o + k)][key] = b + i
  BY DEF GroupsAt
<1> HIDE DEF o, m
<1>3. m = 0 \/ (a + o) + m <= a + p
  <2> SUFFICES ASSUME m # 0 PROVE (a + o) + m <= a + p
    OBVIOUS
  <2>1. m \in 1..m
    BY <1>1
  <2>2. o + m \in 1..p
    BY <1>2, <2>1
  <2> QED BY <1>1, <2>2
<1>4. ASSUME NEW x \in 1..(a + p)
      PROVE  rows[x][key] = b + i <=> a + o < x /\ x <= (a + o) + m
  <2>1. CASE x <= a
    <3>1. x \in 1..a
      BY <2>1
    <3>2. rows[x][key] \in Nat /\ rows[x][key] <= b
      BY <3>1 DEF GroupsAt
    <3> QED BY <1>1, <2>1, <3>2
  <2>2. CASE x > a
    <3>1. x - a \in 1..p /\ x = a + (x - a)
      BY <2>2
    <3>2. PICK j \in 1..n : \E k \in 1..len[j] : x - a = off[j] + k
      BY <3>1 DEF GroupsAt
    <3>3. PICK k \in 1..len[j] : x - a = off[j] + k
      BY <3>2
    <3>4. rows[a + (off[j] + k)][key] = b + j
      BY DEF GroupsAt
    <3>5. rows[x][key] = b + j
      BY <3>1, <3>3, <3>4
    <3>6. CASE j = i
      <4>1. k \in 1..m /\ x - a = o + k
        BY <3>3, <3>6 DEF o, m
      <4>2. a + o < x /\ x <= (a + o) + m
        BY <1>1, <4>1
      <4> QED BY <3>5, <3>6, <4>2
    <3>7. CASE j # i
      <4>1. rows[x][key] # b + i
        BY <3>5, <3>7
      <4>2. ASSUME a + o < x, x <= (a + o) + m PROVE FALSE
        <5>1. x - (a + o) \in 1..m /\ x = a + (o + (x - (a + o)))
          BY <1>1, <4>2
        <5>2. rows[a + (o + (x - (a + o)))][key] = b + i
          BY <1>2, <5>1
        <5> QED BY <4>1, <5>1, <5>2
      <4> QED BY <4>1, <4>2
    <3> QED BY <3>6, <3>7
  <2> QED BY <2>1, <2>2
<1>5. RefersAt(rows, a + p, key, b + i, a + o, m)
  BY <1>3, <1>4 DEF RefersAt, GroupsAt
<1>6. ChildrenOf(rows, key, b + i) = After(a + o, m)
  <2> DEFINE q == a + p
             d == a + o
             id == b + i
  <2>1. q \in Nat /\ d \in Nat /\ m \in Nat /\ RefersAt(rows, q, key, id, d, m)
    BY <1>1, <1>5
  <2> HIDE DEF q, d, id
  <2>2. ChildrenOf(rows, key, id) = After(d, m)
    BY <2>1, ChildrenOfRange
  <2> QED BY <2>2 DEF d, id
<1> QED BY <1>6 DEF o, m

-----------------------------------------------------------------------------
(***************************************************************************)
(* Saving a run and loading it again.                                       *)
(***************************************************************************)
EvalRows ==
  [test_result_id : Nat, type : STRING, passed : {0, 1}, score : Int \cup {NoScore},
   details : SUBSET {"_skipped"}]
TestRows ==
  [suite_id : Nat, test_name : STRING, status : STRING,
   flake_runs : Seq([status : STRING, evals : Seq(EvalResults)])]
SuiteRows(Ids) == [run_id : Ids, suite_name : STRING]

\* The databases with runs of the given ids, whose foreign keys refer to rows.
Databases(Ids) ==
  {db \in [suite_results : Seq(SuiteRows(Ids)), test_results : Seq(TestRows),
           eval_results : Seq(EvalRows)] :
     /\ \A x \in 1..Len(db.test_results) : db.test_results[x].suite_id <= Len(db.suite_results)
     /\ \A x \in 1..Len(db.eval_results) : db.eval_results[x].test_result_id <= Len(db.test_results)}

\* The suites, tests and evals of a run, in the order in which save inserts them.
TestGroups(b, run) ==
  [i \in DOMAIN run |->
     [k \in DOMAIN run[i].tests |-> [suite_id |-> b + i, test |-> run[i].tests[k]]]]
EvalGroups(b, tests) ==
  [n \in DOMAIN tests |->
     [k \in DOMAIN tests[n].test.evals |-> EvalRow(b + n, tests[n].test.evals[k])]]
SuitesSaved(id, run) == [i \in DOMAIN run |-> [run_id |-> id, suite_name |-> run[i].suite_name]]
TestsSaved(tests) == [n \in DOMAIN tests |-> TestRow(tests[n].suite_id, tests[n].test)]

PlacedTests == [suite_id : Nat, test : TestResults]

\* A run's suites and tests, a test's evals and flake runs.
LEMMA RunFields ==
  ASSUME NEW run \in PipelineResults
  PROVE  /\ DOMAIN run = 1..Len(run) /\ Len(run) \in Nat
         /\ \A i \in 1..Len(run) : /\ run[i] \in [suite_name : STRING, tests : Seq(TestResults)]
                                   /\ run[i].suite_name \in STRING
                                   /\ run[i].tests \in Seq(TestResults)
                                   /\ DOMAIN run[i].tests = 1..Len(run[i].tests)
                                   /\ Len(run[i].tests) \in Nat
<1> DEFINE Suites == [suite_name : STRING, tests : Seq(TestResults)]
<1>1. run \in Seq(Suites)
  BY DEF PipelineResults
<1>2. \A i \in 1..Len(run) : run[i] \in Suites
  <2> HIDE DEF Suites
  <2> QED BY <1>1
<1>3. \A i \in 1..Len(run) : run[i].suite_name \in STRING /\ run[i].tests \in Seq(TestResults)
  BY <1>2
<1>4. DOMAIN run = 1..Len(run) /\ Len(run) \in Nat
  <2> HIDE DEF Suites
  <2> QED BY <1>1
<1> QED BY <1>2, <1>3, <1>4

LEMMA TestFields ==
  ASSUME NEW t \in TestResults
  PROVE  /\ t.test_name \in STRING /\ t.status \in STRING
         /\ t.evals \in Seq(EvalResults)
         /\ t.flake_runs \in Seq([status : STRING, evals : Seq(EvalResults)])
         /\ t = [test_name |-> t.test_name, status |-> t.status, evals |-> t.evals,
                 flake_runs |-> t.flake_runs]
BY DEF TestResults

\* What is written of an eval is read again.
LEMMA EvalRoundTrip ==
  ASSUME NEW ev \in EvalResults, NEW id \in Nat
  PROVE  EvalRow(id, ev) \in EvalRows /\ EvalRow(id, ev).test_result_id = id
         /\ EvalOf(EvalRow(id, ev)) = ev
<1>1. /\ ev = [type |-> ev.type, passed |-> ev.passed, skipped |-> ev.skipped, score |-> ev.score]
      /\ ev.type \in STRING /\ ev.passed \in BOOLEAN /\ ev.skipped \in BOOLEAN
      /\ ev.score \in Int \cup {NoScore}
  BY DEF EvalResults
<1> DEFINE row == EvalRow(id, ev)
<1>2. /\ row.test_result_id = id /\ row.type = ev.type /\ row.score = ev.score
      /\ row.passed = (IF ev.passed THEN 1 ELSE 0)
      /\ row.details = (IF ev.skipped THEN {"_skipped"} ELSE {})
  BY DEF EvalRow
<1>3. row \in EvalRows
  BY <1>1 DEF EvalRow, EvalRows
<1> HIDE DEF row
<1>4. (row.passed = 1) = ev.passed /\ ("_skipped" \in row.details) = ev.skipped
  BY <1>1, <1>2
<1>5. EvalOf(row) = ev
  BY <1>1, <1>2, <1>4 DEF EvalOf
<1> QED BY <1>2, <1>3, <1>5 DEF row

\* Two sequences one after the other.
LEMMA ConcatPlaces ==
  ASSUME NEW S, NEW s \in Seq(S), NEW t \in Seq(S)
  PROVE  /\ s \o t \in Seq(S)
         /\ DOMAIN (s \o t) = 1..(Len(s) + Len(t)) /\ Len(s \o t) = Len(s) + Len(t)
         /\ Len(s) \in Nat /\ Len(t) \in Nat
         /\ \A x \in 1..Len(s) : (s \o t)[x] = s[x]
         /\ \A y \in 1..Len(t) : (s \o t)[Len(s) + y] = t[y]
OBVIOUS

\* Where the tests of a run are among those that are inserted.
TestsAt(tests, b, run, off) ==
  /\ \A i \in 1..Len(run) : off[i] \in Nat
  /\ \A i \in 1..Len(run) : \A k \in 1..Len(run[i].tests) :
       off[i] + k \in 1..Len(tests)
       /\ tests[off[i] + k] = [suite_id |-> b + i, test |-> run[i].tests[k]]
  /\ \A x \in 1..Len(tests) : \E i \in 1..Len(run) : \E k \in 1..Len(run[i].tests) : x = off[i] + k

LEMMA TestsArePlaced ==
  ASSUME NEW b \in Nat, NEW run \in PipelineResults
  PROVE  /\ FlattenSeq(TestGroups(b, run)) \in Seq(PlacedTests)
         /\ \E off : TestsAt(FlattenSeq(TestGroups(b, run)), b, run, off)
<1> DEFINE ss == TestGroups(b, run)
           n == Len(run)
<1>1. /\ DOMAIN run = 1..n /\ n \in Nat
      /\ \A i \in 1..n : /\ run[i].tests \in Seq(TestResults)
                         /\ DOMAIN run[i].tests = 1..Len(run[i].tests)
                         /\ Len(run[i].tests) \in Nat
  BY RunFields
<1> HIDE DEF n
<1>2. ASSUME NEW i \in 1..n
      PROVE  /\ ss[i] \in Seq(PlacedTests) /\ Len(ss[i]) = Len(run[i].tests)
             /\ \A k \in 1..Len(run[i].tests) : ss[i][k] = [suite_id |-> b + i, test |-> run[i].tests[k]]
  <2> DEFINE g == [k \in 1..Len(run[i].tests) |-> [suite_id |-> b + i, test |-> run[i].tests[k]]]
  <2>1. ss[i] = g
    BY <1>1 DEF TestGroups
  <2>2. ASSUME NEW k \in 1..Len(run[i].tests)
        PROVE  [suite_id |-> b + i, test |-> run[i].tests[k]] \in PlacedTests
    <3>1. run[i].tests[k] \in TestResults /\ b + i \in Nat
      BY <1>1
    <3> QED BY <3>1 DEF PlacedTests
  <2>3. g \in Seq(PlacedTests) /\ Len(g) = Len(run[i].tests)
    BY <1>1, <2>2
  <2> QED BY <2>1, <2>3
<1>3. DOMAIN ss = 1..n /\ ss = [i \in 1..n |-> ss[i]]
  BY <1>1 DEF TestGroups
<1> HIDE DEF ss
<1>4. ss \in Seq(Seq(PlacedTests)) /\ Len(ss) = n
  BY <1>1, <1>2, <1>3
<1>5. FlattenSeq(ss) \in Seq(PlacedTests)
  BY <1>4, FlattenPlaces
<1>6. PICK off \in [1..(Len(ss) + 1) -> Nat] : Holds(FlattenSeq(ss), off, ss, Len(ss))
  BY <1>4, FlattenPlaces
<1>7. TestsAt(FlattenSeq(ss), b, run, off)
  <2>1. \A i \in 1..n : off[i] \in Nat
    BY <1>1, <1>4, <1>6
  <2>2. ASSUME NEW i \in 1..n, NEW k \in 1..Len(run[i].tests)
        PROVE  /\ off[i] + k \in 1..Len(FlattenSeq(ss))
               /\ FlattenSeq(ss)[off[i] + k] = [suite_id |-> b + i, test |-> run[i].tests[k]]
    <3>1. k \in 1..Len(ss[i])
      BY <1>2
    <3> QED BY <1>2, <1>4, <1>6, <3>1 DEF Holds
  <2>3. ASSUME NEW x \in 1..Len(FlattenSeq(ss))
        PROVE  \E i \in 1..n : \E k \in 1..Len(run[i].tests) : x = off[i] + k
    <3>1. PICK i \in 1..n : \E k \in 1..Len(ss[i]) : x = off[i] + k
      BY <1>4, <1>6 DEF Holds
    <3> QED BY <1>2, <3>1
  <2> QED BY <2>1, <2>2, <2>3 DEF TestsAt, n
<1> QED BY <1>5, <1>7 DEF ss

\* Where the evals of the tests are among those that are inserted.
EvalsAt(evals, b, tests, off) ==
  /\ \A x \in 1..Len(tests) : off[x] \in Nat
  /\ \A x \in 1..Len(tests) : \A k \in 1..Len(tests[x].test.evals) :
       off[x] + k \in 1..Len(evals)
       /\ evals[off[x] + k] = EvalRow(b + x, tests[x].test.evals[k])
  /\ \A y \in 1..Len(evals) : \E x \in 1..Len(tests) : \E k \in 1..Len(tests[x].test.evals) : y = off[x] + k

LEMMA PlacedTestFields ==
  ASSUME NEW tests \in Seq(PlacedTests)
  PROVE  /\ DOMAIN tests = 1..Len(tests) /\ Len(tests) \in Nat
         /\ \A x \in 1..Len(tests) : /\ tests[x].suite_id \in Nat /\ tests[x].test \in TestResults
                                     /\ tests[x].test.evals \in Seq(EvalResults)
                                     /\ Len(tests[x].test.evals) \in Nat
                                     /\ DOMAIN tests[x].test.evals = 1..Len(tests[x].test.evals)
<1>1. \A x \in 1..Len(tests) : tests[x] \in PlacedTests
  OBVIOUS
<1>2. \A x \in 1..Len(tests) : tests[x].suite_id \in Nat /\ tests[x].test \in TestResults
  BY <1>1 DEF PlacedTests
<1>3. \A x \in 1..Len(tests) : tests[x].test.evals \in Seq(EvalResults)
  BY <1>2, TestFields
<1> QED BY <1>2, <1>3

LEMMA EvalsArePlaced ==
  ASSUME NEW b \in Nat, NEW tests \in Seq(PlacedTests)
  PROVE  /\ FlattenSeq(EvalGroups(b, tests)) \in Seq(EvalRows)
         /\ \E off : EvalsAt(FlattenSeq(EvalGroups(b, tests)), b, tests, off)
<1> DEFINE ss == EvalGroups(b, tests)
           n == Len(tests)
           len(x) == Len(tests[x].test.evals)
<1>1. /\ DOMAIN tests = 1..n /\ n \in Nat
      /\ \A x \in 1..n : /\ tests[x].test.evals \in Seq(EvalResults)
                         /\ DOMAIN tests[x].test.evals = 1..len(x)
                         /\ len(x) \in Nat
  BY PlacedTestFields
<1> HIDE DEF n
<1>2. ASSUME NEW x \in 1..n
      PROVE  /\ ss[x] \in Seq(EvalRows) /\ Len(ss[x]) = len(x)
             /\ \A k \in 1..len(x) : ss[x][k] = EvalRow(b + x, tests[x].test.evals[k])
  <2> DEFINE g == [k \in 1..len(x) |-> EvalRow(b + x, tests[x].test.evals[k])]
  <2>1. ss[x] = g
    BY <1>1 DEF EvalGroups
  <2>2. ASSUME NEW k \in 1..len(x)
        PROVE  EvalRow(b + x, tests[x].test.evals[k]) \in EvalRows
    <3>1. tests[x].test.evals[k] \in EvalResults /\ b + x \in Nat
      BY <1>1
    <3> QED BY <3>1, EvalRoundTrip
  <2> HIDE DEF len
  <2>3. g \in Seq(EvalRows) /\ Len(g) = len(x)
    BY <1>1, <2>2
  <2> QED BY <2>1, <2>3
<1>3. DOMAIN ss = 1..n /\ ss = [x \in 1..n |-> ss[x]]
  BY <1>1 DEF EvalGroups
<1> HIDE DEF ss, len
<1>4. ss \in Seq(Seq(EvalRows)) /\ Len(ss) = n
  BY <1>1, <1>2, <1>3
<1>5. FlattenSeq(ss) \in Seq(EvalRows)
  BY <1>4, FlattenPlaces
<1>6. PICK off \in [1..(Len(ss) + 1) -> Nat] : Holds(FlattenSeq(ss), off, ss, Len(ss))
  BY <1>4, FlattenPlaces
<1>7. EvalsAt(FlattenSeq(ss), b, tests, off)
  <2>1. \A x \in 1..n : off[x] \in Nat
    BY <1>1, <1>4, <1>6
  <2>2. ASSUME NEW x \in 1..n, NEW k \in 1..len(x)
        PROVE  /\ off[x] + k \in 1..Len(FlattenSeq(ss))
               /\ FlattenSeq(ss)[off[x] + k] = EvalRow(b + x, tests[x].test.evals[k])
    <3>1. k \in 1..Len(ss[x])
      BY <1>2
    <3> QED BY <1>2, <1>4, <1>6, <3>1 DEF Holds
  <2>3. ASSUME NEW y \in 1..Len(FlattenSeq(ss))
        PROVE  \E x \in 1..n : \E k \in 1..len(x) : y = off[x] + k
    <3>1. PICK x \in 1..n : \E k \in 1..Len(ss[x]) : y = off[x] + k
      BY <1>4, <1>6 DEF Holds
    <3> QED BY <1>2, <3>1
  <2> QED BY <2>1, <2>2, <2>3 DEF EvalsAt, n, len
<1> QED BY <1>5, <1>7 DEF ss

\* What a database has.
LEMMA DatabaseFields ==
  ASSUME NEW Ids, NEW db \in Databases(Ids)
  PROVE  /\ db.suite_results \in Seq(SuiteRows(Ids)) /\ Len(db.suite_results) \in Nat
         /\ db.test_results \in Seq(TestRows) /\ Len(db.test_results) \in Nat
         /\ db.eval_results \in Seq(EvalRows) /\ Len(db.eval_results) \in Nat
         /\ DOMAIN db.suite_results = 1..Len(db.suite_results)
         /\ DOMAIN db.test_results = 1..Len(db.test_results)
         /\ DOMAIN db.eval_results = 1..Len(db.eval_results)
         /\ \A x \in 1..Len(db.test_results) :
              db.test_results[x].suite_id \in Nat /\ db.test_results[x].suite_id <= Len(db.suite_results)
         /\ \A x \in 1..Len(db.eval_results) :
              db.eval_results[x].test_result_id \in Nat
                /\ db.eval_results[x].test_result_id <= Len(db.test_results)
<1>1. /\ db.suite_results \in Seq(SuiteRows(Ids)) /\ db.test_results \in Seq(TestRows)
      /\ db.eval_results \in Seq(EvalRows)
      /\ \A x \in 1..Len(db.test_results) : db.test_results[x].suite_id <= Len(db.suite_results)
      /\ \A x \in 1..Len(db.eval_results) : db.eval_results[x].test_result_id <= Len(db.test_results)
  BY DEF Databases
<1>2. /\ \A x \in 1..Len(db.test_results) : db.test_results[x] \in TestRows
      /\ \A x \in 1..Len(db.eval_results) : db.eval_results[x] \in EvalRows
  BY <1>1
<1>3. /\ \A x \in 1..Len(db.test_results) : db.test_results[x].suite_id \in Nat
      /\ \A x \in 1..Len(db.eval_results) : db.eval_results[x].test_result_id \in Nat
  BY <1>2 DEF TestRows, EvalRows
<1>4. /\ Len(db.suite_results) \in Nat /\ Len(db.test_results) \in Nat /\ Len(db.eval_results) \in Nat
      /\ DOMAIN db.suite_results = 1..Len(db.suite_results)
      /\ DOMAIN db.test_results = 1..Len(db.test_results)
      /\ DOMAIN db.eval_results = 1..Len(db.eval_results)
  BY <1>1
<1> QED BY <1>1, <1>3, <1>4

\* The rows of new are those of db and, behind them, the rows of run: its tests in
\* the order of tests, that are from toff[i] + 1 on for suite i, its evals from
\* eoff[x] + 1 on for test x of them.
SavedAs(new, db, id, run, tests, toff, eoff) ==
  LET S == Len(db.suite_results)
      T == Len(db.test_results)
      E == Len(db.eval_results)
      evals == FlattenSeq(EvalGroups(T, tests))
  IN  /\ tests \in Seq(PlacedTests) /\ evals \in Seq(EvalRows)
      /\ TestsAt(tests, S, run, toff)
      /\ EvalsAt(evals, T, tests, eoff)
      /\ DOMAIN new.suite_results = 1..(S + Len(run))
      /\ DOMAIN new.test_results = 1..(T + Len(tests))
      /\ DOMAIN new.eval_results = 1..(E + Len(evals))
      /\ \A x \in 1..S : new.suite_results[x] = db.suite_results[x]
      /\ \A x \in 1..T : new.test_results[x] = db.test_results[x]
      /\ \A x \in 1..E : new.eval_results[x] = db.eval_results[x]
      /\ \A i \in 1..Len(run) :
           new.suite_results[S + i] = [run_id |-> id, suite_name |-> run[i].suite_name]
      /\ \A x \in 1..Len(tests) :
           new.test_results[T + x] = TestRow(tests[x].suite_id, tests[x].test)
      /\ \A y \in 1..Len(evals) : new.eval_results[E + y] = evals[y]

\* save inserts such rows, and the foreign keys go on referring to rows.
LEMMA SaveInserts ==
  ASSUME NEW Ids, NEW db \in Databases(Ids), NEW id \in Ids, NEW run \in PipelineResults
  PROVE  /\ SaveRows(db, id, run) \in Databases(Ids)
         /\ \E tests, toff, eoff : SavedAs(SaveRows(db, id, run), db, id, run, tests, toff, eoff)
<1> DEFINE S == Len(db.suite_results)
           T == Len(db.test_results)
           E == Len(db.eval_results)
           tests == FlattenSeq(TestGroups(S, run))
           evals == FlattenSeq(EvalGroups(T, tests))
           suites == SuitesSaved(id, run)
           rows == TestsSaved(tests)
           new == SaveRows(db, id, run)
<1>1. /\ new.suite_results = db.suite_results \o suites
      /\ new.test_results = db.test_results \o rows
      /\ new.eval_results = db.eval_results \o evals
      /\ new = [suite_results |-> db.suite_results \o suites,
                test_results |-> db.test_results \o rows,
                eval_results |-> db.eval_results \o evals]
  BY Zenon DEF SaveRows, SuitesSaved, TestsSaved, TestGroups, EvalGroups
<1> HIDE DEF new
<1>2. S \in Nat /\ T \in Nat /\ E \in Nat
  BY DatabaseFields
<1>3. tests \in Seq(PlacedTests) /\ \E off : TestsAt(tests, S, run, off)
  BY <1>2, TestsArePlaced
<1> HIDE DEF tests
<1>4. evals \in Seq(EvalRows) /\ \E off : EvalsAt(evals, T, tests, off)
  BY <1>2, <1>3, EvalsArePlaced
<1> HIDE DEF evals
<1>5. PICK toff : TestsAt(tests, S, run, toff)
  BY <1>3
<1>6. PICK eoff : EvalsAt(evals, T, tests, eoff)
  BY <1>4
<1>7. /\ suites \in Seq(SuiteRows(Ids)) /\ Len(suites) = Len(run) /\ Len(run) \in Nat
      /\ \A i \in 1..Len(run) : suites[i] = [run_id |-> id, suite_name |-> run[i].suite_name]
  <2>1. /\ DOMAIN run = 1..Len(run) /\ Len(run) \in Nat
        /\ \A i \in 1..Len(run) : run[i].suite_name \in STRING
    BY RunFields
  <2>2. \A i \in 1..Len(run) : [run_id |-> id, suite_name |-> run[i].suite_name] \in SuiteRows(Ids)
    BY <2>1 DEF SuiteRows
  <2> QED BY <2>1, <2>2 DEF SuitesSaved
<1>8. /\ rows \in Seq(TestRows) /\ Len(rows) = Len(tests) /\ Len(tests) \in Nat
      /\ \A x \in 1..Len(tests) : rows[x] = TestRow(tests[x].suite_id, tests[x].test)
  <2>1. /\ DOMAIN tests = 1..Len(tests) /\ Len(tests) \in Nat
        /\ \A x \in 1..Len(tests) : tests[x].suite_id \in Nat /\ tests[x].test \in TestResults
    BY <1>3, PlacedTestFields
  <2>2. \A x \in 1..Len(tests) : TestRow(tests[x].suite_id, tests[x].test) \in TestRows
    <3> TAKE x \in 1..Len(tests)
    <3>1. /\ tests[x].suite_id \in Nat /\ tests[x].test.test_name \in STRING
          /\ tests[x].test.status \in STRING
          /\ tests[x].test.flake_runs \in Seq([status : STRING, evals : Seq(EvalResults)])
      BY <2>1, TestFields
    <3> QED BY <3>1 DEF TestRow, TestRows
  <2> QED BY <2>1, <2>2 DEF TestsSaved
<1> HIDE DEF suites, rows
<1>9. /\ db.suite_results \in Seq(SuiteRows(Ids)) /\ db.test_results \in Seq(TestRows)
      /\ db.eval_results \in Seq(EvalRows)
  BY DatabaseFields
<1>10. /\ new.suite_results \in Seq(SuiteRows(Ids))
       /\ DOMAIN new.suite_results = 1..(S + Len(run)) /\ Len(new.suite_results) = S + Len(run)
       /\ \A x \in 1..S : new.suite_results[x] = db.suite_results[x]
       /\ \A i \in 1..Len(run) :
            new.suite_results[S + i] = [run_id |-> id, suite_name |-> run[i].suite_name]
  <2>1. /\ new.suite_results \in Seq(SuiteRows(Ids))
        /\ DOMAIN new.suite_results = 1..(S + Len(suites)) /\ Len(new.suite_results) = S + Len(suites)
        /\ \A x \in 1..S : new.suite_results[x] = db.suite_results[x]
        /\ \A i \in 1..Len(suites) : new.suite_results[S + i] = suites[i]
    <3> DEFINE R == SuiteRows(Ids)
               old == db.suite_results
    <3>1. old \in Seq(R) /\ suites \in Seq(R) /\ new.suite_results = old \o suites
      BY <1>1, <1>7, <1>9
    <3> HIDE DEF R, old
    <3>2. /\ old \o suites \in Seq(R)
          /\ DOMAIN (old \o suites) = 1..(Len(old) + Len(suites))
          /\ Len(old \o suites) = Len(old) + Len(suites)
          /\ \A x \in 1..Len(old) : (old \o suites)[x] = old[x]
          /\ \A y \in 1..Len(suites) : (old \o suites)[Len(old) + y] = suites[y]
      BY <3>1, ConcatPlaces
    <3> QED BY <3>1, <3>2 DEF R, old
  <2> QED BY <1>7, <2>1
<1>11. /\ new.test_results \in Seq(TestRows)
       /\ DOMAIN new.test_results = 1..(T + Len(tests)) /\ Len(new.test_results) = T + Len(tests)
       /\ \A x \in 1..T : new.test_results[x] = db.test_results[x]
       /\ \A x \in 1..Len(tests) :
            new.test_results[T + x] = TestRow(tests[x].suite_id, tests[x].test)
  <2>1. /\ new.test_results \in Seq(TestRows)
        /\ DOMAIN new.test_results = 1..(T + Len(rows)) /\ Len(new.test_results) = T + Len(rows)
        /\ \A x \in 1..T : new.test_results[x] = db.test_results[x]
        /\ \A x \in 1..Len(rows) : new.test_results[T + x] = rows[x]
    <3> DEFINE R == TestRows
               old == db.test_results
    <3>1. old \in Seq(R) /\ rows \in Seq(R) /\ new.test_results = old \o rows
      BY <1>1, <1>8, <1>9
    <3> HIDE DEF R, old
    <3>2. /\ old \o rows \in Seq(R)
          /\ DOMAIN (old \o rows) = 1..(Len(old) + Len(rows))
          /\ Len(old \o rows) = Len(old) + Len(rows)
          /\ \A x \in 1..Len(old) : (old \o rows)[x] = old[x]
          /\ \A y \in 1..Len(rows) : (old \o rows)[Len(old) + y] = rows[y]
      BY <3>1, ConcatPlaces
    <3> QED BY <3>1, <3>2 DEF R, old
  <2> QED BY <1>8, <2>1
<1>12. /\ new.eval_results \in Seq(EvalRows)
       /\ DOMAIN new.eval_results = 1..(E + Len(evals)) /\ Len(new.eval_results) = E + Len(evals)
       /\ \A x \in 1..E : new.eval_results[x] = db.eval_results[x]
       /\ \A y \in 1..Len(evals) : new.eval_results[E + y] = evals[y]
  <2> DEFINE R == EvalRows
             old == db.eval_results
  <2>1. old \in Seq(R) /\ evals \in Seq(R) /\ new.eval_results = old \o evals
    BY <1>1, <1>4, <1>9
  <2> HIDE DEF R, old
  <2>2. /\ old \o evals \in Seq(R)
        /\ DOMAIN (old \o evals) = 1..(Len(old) + Len(evals))
        /\ Len(old \o evals) = Len(old) + Len(evals)
        /\ \A x \in 1..Len(old) : (old \o evals)[x] = old[x]
        /\ \A y \in 1..Len(evals) : (old \o evals)[Len(old) + y] = evals[y]
    BY <2>1, ConcatPlaces
  <2> QED BY <2>1, <2>2 DEF R, old
<1>13. SavedAs(new, db, id, run, tests, toff, eoff)
  BY <1>3, <1>4, <1>5, <1>6, <1>10, <1>11, <1>12 DEF SavedAs, evals
<1>14. ASSUME NEW x \in 1..(T + Len(tests)) PROVE new.test_results[x].suite_id <= S + Len(run)
  <2>1. CASE x <= T
    <3>1. x \in 1..T
      BY <1>2, <2>1
    <3>2. new.test_results[x].suite_id \in Nat /\ new.test_results[x].suite_id <= S
      BY <1>11, <3>1, DatabaseFields
    <3> QED BY <1>2, <1>7, <3>2
  <2>2. CASE x > T
    <3>1. x - T \in 1..Len(tests) /\ x = T + (x - T)
      BY <1>2, <1>8, <2>2
    <3>2. PICK i \in 1..Len(run) : \E k \in 1..Len(run[i].tests) : x - T = toff[i] + k
      BY <1>5, <3>1 DEF TestsAt
    <3>3. PICK k \in 1..Len(run[i].tests) : x - T = toff[i] + k
      BY <3>2
    <3>4. tests[x - T] = [suite_id |-> S + i, test |-> run[i].tests[k]]
      BY <1>5, <3>3 DEF TestsAt
    <3>5. tests[x - T].suite_id = S + i
      BY <3>4
    <3>6. new.test_results[x] = TestRow(tests[x - T].suite_id, tests[x - T].test)
      BY <1>11, <3>1
    <3>7. new.test_results[x].suite_id = S + i
      BY <3>5, <3>6 DEF TestRow
    <3> HIDE DEF S, T
    <3> QED BY <1>2, <1>7, <3>7
  <2>3. x <= T \/ x > T
    BY <1>2
  <2> QED BY <2>1, <2>2, <2>3
<1>15. ASSUME NEW y \in 1..(E + Len(evals)) PROVE new.eval_results[y].test_result_id <= T + Len(tests)
  <2>1. CASE y <= E
    <3>1. y \in 1..E
      BY <1>2, <2>1
    <3>2. new.eval_results[y].test_result_id \in Nat /\ new.eval_results[y].test_result_id <= T
      BY <1>12, <3>1, DatabaseFields
    <3> QED BY <1>2, <1>8, <3>2
  <2>2. CASE y > E
    <3>1. y - E \in 1..Len(evals) /\ y = E + (y - E)
      BY <1>2, <1>4, <2>2
    <3>2. PICK x \in 1..Len(tests) : \E k \in 1..Len(tests[x].test.evals) : y - E = eoff[x] + k
      BY <1>6, <3>1 DEF EvalsAt
    <3>3. PICK k \in 1..Len(tests[x].test.evals) : y - E = eoff[x] + k
      BY <3>2
    <3>4. evals[y - E] = EvalRow(T + x, tests[x].test.evals[k])
      BY <1>6, <3>3 DEF EvalsAt
    <3>5. new.eval_results[y] = EvalRow(T + x, tests[x].test.evals[k])
      BY <1>12, <3>1, <3>4
    <3>6. new.eval_results[y].test_result_id = T + x
      BY <3>5 DEF EvalRow
    <3> HIDE DEF E, T
    <3> QED BY <1>2, <1>8, <3>6
  <2>3. y <= E \/ y > E
    BY <1>2
  <2> QED BY <2>1, <2>2, <2>3
<1>16. new \in Databases(Ids)
  <2>1. new = [suite_results |-> new.suite_results, test_results |-> new.test_results,
               eval_results |-> new.eval_results]
    BY <1>1
  <2>2. new \in [suite_results : Seq(SuiteRows(Ids)), test_results : Seq(TestRows),
                 eval_results : Seq(EvalRows)]
    BY <1>10, <1>11, <1>12, <2>1
  <2>3. /\ \A x \in 1..Len(new.test_results) : new.test_results[x].suite_id <= Len(new.suite_results)
        /\ \A x \in 1..Len(new.eval_results) : new.eval_results[x].test_result_id <= Len(new.test_results)
    BY <1>10, <1>11, <1>12, <1>14, <1>15
  <2> QED BY <2>2, <2>3 DEF Databases
<1> QED BY <1>13, <1>16 DEF new

\* What was saved of a run is loaded as it was.
LEMMA LoadsWhatWasSaved ==
  ASSUME NEW Ids, NEW db \in Databases(Ids), NEW id \in Ids, NEW run \in PipelineResults,
         \A x \in 1..Len(db.suite_results) : db.suite_results[x].run_id # id
  PROVE  LoadRun(SaveRows(db, id, run), id) = run
<1> DEFINE S == Len(db.suite_results)
           T == Len(db.test_results)
           E == Len(db.eval_results)
           n == Len(run)
           new == SaveRows(db, id, run)
<1>1. PICK tests, toff, eoff : SavedAs(new, db, id, run, tests, toff, eoff)
  BY SaveInserts
<1> DEFINE evals == FlattenSeq(EvalGroups(T, tests))
           count(x) == Len(tests[x].test.evals)
<1> HIDE DEF new
<1>2. S \in Nat /\ T \in Nat /\ E \in Nat /\ n \in Nat
  BY DatabaseFields, RunFields
<1>3. /\ tests \in Seq(PlacedTests) /\ evals \in Seq(EvalRows)
      /\ TestsAt(tests, S, run, toff) /\ EvalsAt(evals, T, tests, eoff)
  BY <1>1 DEF SavedAs
<1>4. /\ DOMAIN new.suite_results = 1..(S + n)
      /\ DOMAIN new.test_results = 1..(T + Len(tests))
      /\ DOMAIN new.eval_results = 1..(E + Len(evals))
  BY <1>1 DEF SavedAs
<1>5. /\ \A x \in 1..S : new.suite_results[x] = db.suite_results[x]
      /\ \A x \in 1..T : new.test_results[x] = db.test_results[x]
      /\ \A x \in 1..E : new.eval_results[x] = db.eval_results[x]
  BY <1>1 DEF SavedAs
<1>6. /\ \A i \in 1..n : new.suite_results[S + i] = [run_id |-> id, suite_name |-> run[i].suite_name]
      /\ \A x \in 1..Len(tests) :
           new.test_results[T + x] = TestRow(tests[x].suite_id, tests[x].test)
      /\ \A y \in 1..Len(evals) : new.eval_results[E + y] = evals[y]
  BY <1>1 DEF SavedAs
<1>7. Len(tests) \in Nat /\ Len(evals) \in Nat
  BY <1>3
<1>8. \A x \in 1..Len(tests) : /\ tests[x].test \in TestResults /\ count(x) \in Nat
                               /\ tests[x].test.evals \in Seq(EvalResults)
                               /\ DOMAIN tests[x].test.evals = 1..count(x)
  BY <1>3, PlacedTestFields
<1> HIDE DEF evals, n, count
\* The suites of the run.
<1>9. ChildrenOf(new.suite_results, "run_id", id) = [i \in 1..n |-> S + i]
  <2>1. ASSUME NEW x \in 1..(S + n)
        PROVE  new.suite_results[x]["run_id"] = id <=> S < x /\ x <= S + n
    <3>1. CASE x <= S
      <4>1. x \in 1..S
        BY <1>2, <3>1
      <4>2. new.suite_results[x] = db.suite_results[x] /\ db.suite_results[x].run_id # id
        BY <1>5, <4>1
      <4> HIDE DEF S
      <4> QED BY <1>2, <3>1, <4>2
    <3>2. CASE x > S
      <4>1. x - S \in 1..n /\ x = S + (x - S)
        BY <1>2, <3>2
      <4>2. new.suite_results[x] = [run_id |-> id, suite_name |-> run[x - S].suite_name]
        BY <1>6, <4>1
      <4> HIDE DEF S
      <4> QED BY <1>2, <3>2, <4>2
    <3>3. x <= S \/ x > S
      BY <1>2
    <3> QED BY <3>1, <3>2, <3>3
  <2> DEFINE p == S + n
             rows == new.suite_results
             key == "run_id"
  <2>2. p \in Nat /\ S \in Nat /\ n \in Nat /\ RefersAt(rows, p, key, id, S, n)
    BY <1>2, <1>4, <2>1 DEF RefersAt
  <2> HIDE DEF p, S, rows, key
  <2>3. ChildrenOf(rows, key, id) = After(S, n)
    BY <2>2, ChildrenOfRange
  <2> QED BY <2>3 DEF rows, key, After
\* The tests of a suite.
<1>10. ASSUME NEW i \in 1..n
       PROVE  ChildrenOf(new.test_results, "suite_id", S + i)
                = [k \in 1..Len(run[i].tests) |-> (T + toff[i]) + k]
  <2> DEFINE len == [j \in 1..n |-> Len(run[j].tests)]
  <2>1. \A j \in 1..n : len[j] \in Nat /\ toff[j] \in Nat /\ len[j] = Len(run[j].tests)
    BY <1>3, RunFields DEF TestsAt, n
  <2>2. \A x \in 1..T : new.test_results[x]["suite_id"] \in Nat /\ new.test_results[x]["suite_id"] <= S
    BY <1>5, DatabaseFields
  <2>3. ASSUME NEW j \in 1..n, NEW k \in 1..len[j]
        PROVE  toff[j] + k \in 1..Len(tests) /\ new.test_results[T + (toff[j] + k)]["suite_id"] = S + j
    <3>1. /\ toff[j] + k \in 1..Len(tests)
          /\ tests[toff[j] + k] = [suite_id |-> S + j, test |-> run[j].tests[k]]
      BY <1>3, <2>1 DEF TestsAt, n
    <3>2. new.test_results[T + (toff[j] + k)]
            = TestRow(tests[toff[j] + k].suite_id, tests[toff[j] + k].test)
      BY <1>6, <3>1
    <3>3. tests[toff[j] + k].suite_id = S + j
      BY <3>1
    <3> QED BY <3>1, <3>2, <3>3 DEF TestRow
  <2>4. \A x \in 1..Len(tests) : \E j \in 1..n : \E k \in 1..len[j] : x = toff[j] + k
    BY <1>3, <2>1 DEF TestsAt, n
  <2> HIDE DEF len
  <2> DEFINE p == Len(tests)
             rows == new.test_results
             key == "suite_id"
  <2>5. p \in Nat /\ T \in Nat /\ S \in Nat /\ n \in Nat
        /\ GroupsAt(rows, T, p, key, S, n, len, toff)
    BY <1>2, <1>4, <1>7, <2>1, <2>2, <2>3, <2>4 DEF GroupsAt
  <2> HIDE DEF p, S, T, rows, key
  <2>6. \A j \in 1..n : ChildrenOf(rows, key, S + j) = After(T + toff[j], len[j])
    BY <2>5, ChildrenOfGroups
  <2> QED BY <2>1, <2>6 DEF rows, key, After
\* The evals of a test.
<1>11. ASSUME NEW x \in 1..Len(tests)
       PROVE  ChildrenOf(new.eval_results, "test_result_id", T + x)
                = [k \in 1..count(x) |-> (E + eoff[x]) + k]
  <2> DEFINE len == [z \in 1..Len(tests) |-> count(z)]
  <2>1. \A z \in 1..Len(tests) : len[z] \in Nat /\ eoff[z] \in Nat /\ len[z] = count(z)
    BY <1>3, <1>8 DEF EvalsAt
  <2>2. \A y \in 1..E : /\ new.eval_results[y]["test_result_id"] \in Nat
                        /\ new.eval_results[y]["test_result_id"] <= T
    BY <1>5, DatabaseFields
  <2>3. ASSUME NEW z \in 1..Len(tests), NEW k \in 1..len[z]
        PROVE  /\ eoff[z] + k \in 1..Len(evals)
               /\ new.eval_results[E + (eoff[z] + k)]["test_result_id"] = T + z
    <3>1. /\ eoff[z] + k \in 1..Len(evals)
          /\ evals[eoff[z] + k] = EvalRow(T + z, tests[z].test.evals[k])
      BY <1>3, <2>1 DEF EvalsAt, count
    <3>2. new.eval_results[E + (eoff[z] + k)] = EvalRow(T + z, tests[z].test.evals[k])
      BY <1>6, <3>1
    <3> QED BY <3>1, <3>2 DEF EvalRow
  <2>4. \A y \in 1..Len(evals) : \E z \in 1..Len(tests) : \E k \in 1..len[z] : y = eoff[z] + k
    BY <1>3, <2>1 DEF EvalsAt, count
  <2> HIDE DEF len
  <2> DEFINE p == Len(evals)
             q == Len(tests)
             rows == new.eval_results
             key == "test_result_id"
  <2>5. p \in Nat /\ q \in Nat /\ E \in Nat /\ T \in Nat
        /\ GroupsAt(rows, E, p, key, T, q, len, eoff)
    BY <1>2, <1>4, <1>7, <2>1, <2>2, <2>3, <2>4 DEF GroupsAt
  <2> HIDE DEF p, q, E, T, rows, key
  <2>6. \A z \in 1..q : ChildrenOf(rows, key, T + z) = After(E + eoff[z], len[z])
    BY <2>5, ChildrenOfGroups
  <2> QED BY <2>1, <2>6 DEF rows, key, After, q
\* A test is loaded as it was.
<1>12. ASSUME NEW x \in 1..Len(tests) PROVE TestOf(new, T + x) = tests[x].test
  <2> DEFINE t == tests[x].test
             ids == ChildrenOf(new.eval_results, "test_result_id", T + x)
             read == [k \in DOMAIN ids |-> EvalOf(new.eval_results[ids[k]])]
  <2>1. t \in TestResults /\ t.evals \in Seq(EvalResults) /\ DOMAIN t.evals = 1..count(x) /\ count(x) \in Nat
    BY <1>8
  <2>2. ids = [k \in 1..count(x) |-> (E + eoff[x]) + k]
    BY <1>11
  <2>3. ASSUME NEW k \in 1..count(x) PROVE EvalOf(new.eval_results[ids[k]]) = t.evals[k]
    <3>1. ids[k] = (E + eoff[x]) + k
      BY <2>2
    <3>2. eoff[x] \in Nat /\ (E + eoff[x]) + k = E + (eoff[x] + k)
      BY <1>2, <1>3 DEF EvalsAt
    <3>3. /\ eoff[x] + k \in 1..Len(evals)
          /\ evals[eoff[x] + k] = EvalRow(T + x, t.evals[k])
      BY <1>3 DEF EvalsAt, count
    <3>4. new.eval_results[ids[k]] = EvalRow(T + x, t.evals[k])
      BY <1>6, <3>1, <3>2, <3>3, SMTT(60)
    <3>5. t.evals[k] \in EvalResults /\ T + x \in Nat
      BY <1>2, <2>1
    <3> QED BY <3>4, <3>5, EvalRoundTrip
  <2>4. DOMAIN ids = 1..count(x)
    BY <2>2
  <2> HIDE DEF t, ids
  <2>5. read = t.evals
    <3>1. t.evals = [k \in 1..count(x) |-> t.evals[k]]
      BY <2>1
    <3> QED BY <2>3, <2>4, <3>1
  <2>6. new.test_results[T + x] = TestRow(tests[x].suite_id, t)
    BY <1>6 DEF t
  <2>7. TestOf(new, T + x) = [test_name |-> new.test_results[T + x].test_name,
                              status |-> new.test_results[T + x].status,
                              flake_runs |-> new.test_results[T + x].flake_runs,
                              evals |-> read]
    BY DEF TestOf, ids
  <2> HIDE DEF read
  <2>8. /\ new.test_results[T + x].test_name = t.test_name
        /\ new.test_results[T + x].status = t.status
        /\ new.test_results[T + x].flake_runs = t.flake_runs
    BY <2>6 DEF TestRow
  <2>9. TestOf(new, T + x) = [test_name |-> t.test_name, status |-> t.status,
                              flake_runs |-> t.flake_runs, evals |-> t.evals]
    BY <2>5, <2>7, <2>8
  <2>10. t = [test_name |-> t.test_name, status |-> t.status, evals |-> t.evals,
              flake_runs |-> t.flake_runs]
    BY <2>1, TestFields
  <2> QED BY <2>9, <2>10 DEF t
\* A suite is loaded as it was.
<1>13. ASSUME NEW i \in 1..n PROVE SuiteOf(new, S + i) = run[i]
  <2> DEFINE ids == ChildrenOf(new.test_results, "suite_id", S + i)
             m == Len(run[i].tests)
             read == [k \in DOMAIN ids |-> TestOf(new, ids[k])]
  <2>1. /\ run[i] \in [suite_name : STRING, tests : Seq(TestResults)]
        /\ run[i].tests \in Seq(TestResults) /\ DOMAIN run[i].tests = 1..m /\ m \in Nat
    BY RunFields DEF n
  <2>2. ids = [k \in 1..m |-> (T + toff[i]) + k]
    BY <1>10
  <2>3. ASSUME NEW k \in 1..m PROVE TestOf(new, ids[k]) = run[i].tests[k]
    <3>1. ids[k] = (T + toff[i]) + k
      BY <2>2
    <3>2. toff[i] \in Nat /\ (T + toff[i]) + k = T + (toff[i] + k)
      BY <1>2, <1>3 DEF TestsAt, n
    <3>3. /\ toff[i] + k \in 1..Len(tests)
          /\ tests[toff[i] + k] = [suite_id |-> S + i, test |-> run[i].tests[k]]
      BY <1>3 DEF TestsAt, n
    <3>4. TestOf(new, T + (toff[i] + k)) = tests[toff[i] + k].test
      BY <1>12, <3>3
    <3>5. tests[toff[i] + k].test = run[i].tests[k]
      BY <3>3
    <3> QED BY <3>1, <3>2, <3>4, <3>5
  <2>4. DOMAIN ids = 1..m
    BY <2>2
  <2> HIDE DEF ids
  <2>5. read = run[i].tests
    <3>1. run[i].tests = [k \in 1..m |-> run[i].tests[k]]
      BY <2>1
    <3> HIDE DEF m
    <3> QED BY <2>3, <2>4, <3>1
  <2>6. SuiteOf(new, S + i) = [suite_name |-> new.suite_results[S + i].suite_name, tests |-> read]
    BY DEF SuiteOf, ids
  <2> HIDE DEF read
  <2>7. new.suite_results[S + i].suite_name = run[i].suite_name
    <3>1. new.suite_results[S + i] = [run_id |-> id, suite_name |-> run[i].suite_name]
      BY <1>6
    <3> HIDE DEF S
    <3> QED BY <3>1
  <2>8. run[i] = [suite_name |-> run[i].suite_name, tests |-> run[i].tests]
    BY <2>1
  <2> QED BY <2>5, <2>6, <2>7, <2>8
<1> DEFINE ids == ChildrenOf(new.suite_results, "run_id", id)
<1>14. DOMAIN ids = 1..n /\ \A i \in 1..n : ids[i] = S + i
  BY <1>9
<1>15. LoadRun(new, id) = [i \in DOMAIN ids |-> SuiteOf(new, ids[i])]
  BY DEF LoadRun
<1> HIDE DEF ids
<1>16. run = [i \in 1..n |-> run[i]]
  BY RunFields DEF n, PipelineResults
<1>17. LoadRun(new, id) = run
  <2> HIDE DEF S
  <2> QED BY <1>13, <1>14, <1>15, <1>16
<1> QED BY <1>17 DEF new

\* The rows behind those of the database belong to the run that was saved.
LEMMA OldRowsAreKept ==
  ASSUME NEW Ids, NEW db \in Databases(Ids), NEW id \in Ids, NEW run \in PipelineResults
  PROVE  \E s, t, e \in Nat :
           LET new == SaveRows(db, id, run)
               S == Len(db.suite_results)
               T == Len(db.test_results)
               E == Len(db.eval_results)
           IN  /\ DOMAIN new.suite_results = 1..s /\ S <= s
               /\ DOMAIN new.test_results = 1..t /\ T <= t
               /\ DOMAIN new.eval_results = 1..e /\ E <= e
               /\ \A x \in 1..S : new.suite_results[x] = db.suite_results[x]
               /\ \A x \in 1..T : new.test_results[x] = db.test_results[x]
               /\ \A x \in 1..E : new.eval_results[x] = db.eval_results[x]
               /\ \A x \in (S + 1)..s : new.suite_results[x].run_id = id
               /\ \A x \in (T + 1)..t : new.test_results[x].suite_id \notin 1..S
               /\ \A x \in (E + 1)..e : new.eval_results[x].test_result_id \notin 1..T
<1> DEFINE S == Len(db.suite_results)
           T == Len(db.test_results)
           E == Len(db.eval_results)
           new == SaveRows(db, id, run)
           n == Len(run)
<1>1. PICK tests, toff, eoff : SavedAs(new, db, id, run, tests, toff, eoff)
  BY SaveInserts
<1> DEFINE evals == FlattenSeq(EvalGroups(T, tests))
<1> HIDE DEF new
<1>2. S \in Nat /\ T \in Nat /\ E \in Nat /\ n \in Nat
  BY DatabaseFields, RunFields
<1>3. /\ tests \in Seq(PlacedTests) /\ evals \in Seq(EvalRows)
      /\ TestsAt(tests, S, run, toff) /\ EvalsAt(evals, T, tests, eoff)
  BY <1>1 DEF SavedAs
<1>4. /\ DOMAIN new.suite_results = 1..(S + n)
      /\ DOMAIN new.test_results = 1..(T + Len(tests))
      /\ DOMAIN new.eval_results = 1..(E + Len(evals))
  BY <1>1 DEF SavedAs
<1>5. /\ \A x \in 1..S : new.suite_results[x] = db.suite_results[x]
      /\ \A x \in 1..T : new.test_results[x] = db.test_results[x]
      /\ \A x \in 1..E : new.eval_results[x] = db.eval_results[x]
  BY <1>1 DEF SavedAs
<1>6. /\ \A i \in 1..n : new.suite_results[S + i] = [run_id |-> id, suite_name |-> run[i].suite_name]
      /\ \A x \in 1..Len(tests) :
           new.test_results[T + x] = TestRow(tests[x].suite_id, tests[x].test)
      /\ \A y \in 1..Len(evals) : new.eval_results[E + y] = evals[y]
  BY <1>1 DEF SavedAs
<1>7. Len(tests) \in Nat /\ Len(evals) \in Nat
  BY <1>3
<1> HIDE DEF evals
<1>8. ASSUME NEW x \in (S + 1)..(S + n) PROVE new.suite_results[x].run_id = id
  <2>1. x - S \in 1..n /\ x = S + (x - S)
    BY <1>2
  <2>2. new.suite_results[x] = [run_id |-> id, suite_name |-> run[x - S].suite_name]
    BY <1>6, <2>1
  <2> QED BY <2>2
<1>9. ASSUME NEW x \in (T + 1)..(T + Len(tests)) PROVE new.test_results[x].suite_id \notin 1..S
  <2>1. x - T \in 1..Len(tests) /\ x = T + (x - T)
    BY <1>2, <1>7
  <2>2. PICK i \in 1..n : \E k \in 1..Len(run[i].tests) : x - T = toff[i] + k
    BY <1>3, <2>1 DEF TestsAt
  <2>3. PICK k \in 1..Len(run[i].tests) : x - T = toff[i] + k
    BY <2>2
  <2>4. tests[x - T] = [suite_id |-> S + i, test |-> run[i].tests[k]]
    BY <1>3, <2>3 DEF TestsAt
  <2>5. tests[x - T].suite_id = S + i
    BY <2>4
  <2>6. new.test_results[x] = TestRow(tests[x - T].suite_id, tests[x - T].test)
    BY <1>6, <2>1
  <2>7. new.test_results[x].suite_id = S + i
    BY <2>5, <2>6 DEF TestRow
  <2> HIDE DEF S, T, n
  <2> QED BY <1>2, <2>7
<1>10. ASSUME NEW y \in (E + 1)..(E + Len(evals)) PROVE new.eval_results[y].test_result_id \notin 1..T
  <2>1. y - E \in 1..Len(evals) /\ y = E + (y - E)
    <3> HIDE DEF S, T, E, n
    <3> QED BY <1>2, <1>7
  <2>2. PICK x \in 1..Len(tests) : \E k \in 1..Len(tests[x].test.evals) : y - E = eoff[x] + k
    BY <1>3, <2>1 DEF EvalsAt, evals
  <2>3. PICK k \in 1..Len(tests[x].test.evals) : y - E = eoff[x] + k
    BY <2>2
  <2>4. evals[y - E] = EvalRow(T + x, tests[x].test.evals[k])
    BY <1>3, <2>3 DEF EvalsAt, evals
  <2>5. new.eval_results[y] = EvalRow(T + x, tests[x].test.evals[k])
    BY <1>6, <2>1, <2>4
  <2>6. new.eval_results[y].test_result_id = T + x
    BY <2>5 DEF EvalRow
  <2> HIDE DEF E, T
  <2> QED BY <1>2, <1>7, <2>6
<1> DEFINE s == S + n
           t == T + Len(tests)
           e == E + Len(evals)
<1>11. /\ s \in Nat /\ t \in Nat /\ e \in Nat /\ S <= s /\ T <= t /\ E <= e
       /\ DOMAIN new.suite_results = 1..s /\ DOMAIN new.test_results = 1..t
       /\ DOMAIN new.eval_results = 1..e
       /\ \A x \in (S + 1)..s : new.suite_results[x].run_id = id
       /\ \A x \in (T + 1)..t : new.test_results[x].suite_id \notin 1..S
       /\ \A x \in (E + 1)..e : new.eval_results[x].test_result_id \notin 1..T
  <2> HIDE DEF S, T, E, n
  <2>1. s \in Nat /\ t \in Nat /\ e \in Nat /\ S <= s /\ T <= t /\ E <= e
    BY <1>2, <1>7
  <2> QED BY <1>4, <1>8, <1>9, <1>10, <2>1
<1> HIDE DEF s, t, e
<1> QED BY <1>5, <1>11 DEF new

\* Saving a run changes nothing of the other runs.
LEMMA LoadsOthers ==
  ASSUME NEW Ids, NEW db \in Databases(Ids), NEW id \in Ids, NEW run \in PipelineResults,
         NEW other, other # id
  PROVE  LoadRun(SaveRows(db, id, run), other) = LoadRun(db, other)
<1> DEFINE new == SaveRows(db, id, run)
           S == Len(db.suite_results)
           T == Len(db.test_results)
           E == Len(db.eval_results)
<1>1. PICK s, t, e \in Nat :
        /\ DOMAIN new.suite_results = 1..s /\ S <= s
        /\ DOMAIN new.test_results = 1..t /\ T <= t
        /\ DOMAIN new.eval_results = 1..e /\ E <= e
        /\ \A x \in 1..S : new.suite_results[x] = db.suite_results[x]
        /\ \A x \in 1..T : new.test_results[x] = db.test_results[x]
        /\ \A x \in 1..E : new.eval_results[x] = db.eval_results[x]
        /\ \A x \in (S + 1)..s : new.suite_results[x].run_id = id
        /\ \A x \in (T + 1)..t : new.test_results[x].suite_id \notin 1..S
        /\ \A x \in (E + 1)..e : new.eval_results[x].test_result_id \notin 1..T
  BY OldRowsAreKept
<1> HIDE DEF new
<1>2. /\ S \in Nat /\ T \in Nat /\ E \in Nat
      /\ DOMAIN db.suite_results = 1..S /\ DOMAIN db.test_results = 1..T
      /\ DOMAIN db.eval_results = 1..E
  BY DatabaseFields
<1> HIDE DEF S, T, E
<1>3. /\ ChildrenOf(new.suite_results, "run_id", other) = ChildrenOf(db.suite_results, "run_id", other)
      /\ ChildrenOf(db.suite_results, "run_id", other) \in Seq(1..S)
  <2> DEFINE all == new.suite_results
             rows == db.suite_results
             key == "run_id"
  <2>1. /\ DOMAIN rows = 1..S /\ DOMAIN all = 1..s /\ S <= s
        /\ \A x \in 1..S : all[x][key] = rows[x][key]
        /\ \A x \in (S + 1)..s : all[x][key] # other
    BY <1>1, <1>2
  <2> HIDE DEF all, rows, key
  <2>2. ChildrenOf(all, key, other) = ChildrenOf(rows, key, other)
    BY <1>2, <2>1, ChildrenOfLonger
  <2>3. ChildrenOf(rows, key, other) \in Seq(1..S)
    BY <1>2, <2>1, ChildrenAreRows
  <2> QED BY <2>2, <2>3 DEF all, rows, key
<1>4. ASSUME NEW x \in 1..S
      PROVE  /\ ChildrenOf(new.test_results, "suite_id", x) = ChildrenOf(db.test_results, "suite_id", x)
             /\ ChildrenOf(db.test_results, "suite_id", x) \in Seq(1..T)
  <2> DEFINE all == new.test_results
             rows == db.test_results
             key == "suite_id"
  <2>1. /\ DOMAIN rows = 1..T /\ DOMAIN all = 1..t /\ T <= t
        /\ \A y \in 1..T : all[y][key] = rows[y][key]
        /\ \A y \in (T + 1)..t : all[y][key] # x
    BY <1>1, <1>2
  <2> HIDE DEF all, rows, key
  <2>2. ChildrenOf(all, key, x) = ChildrenOf(rows, key, x)
    BY <1>2, <2>1, ChildrenOfLonger
  <2>3. ChildrenOf(rows, key, x) \in Seq(1..T)
    BY <1>2, <2>1, ChildrenAreRows
  <2> QED BY <2>2, <2>3 DEF all, rows, key
<1>5. ASSUME NEW x \in 1..T
      PROVE  /\ ChildrenOf(new.eval_results, "test_result_id", x)
                  = ChildrenOf(db.eval_results, "test_result_id", x)
             /\ ChildrenOf(db.eval_results, "test_result_id", x) \in Seq(1..E)
  <2> DEFINE all == new.eval_results
             rows == db.eval_results
             key == "test_result_id"
  <2>1. /\ DOMAIN rows = 1..E /\ DOMAIN all = 1..e /\ E <= e
        /\ \A y \in 1..E : all[y][key] = rows[y][key]
        /\ \A y \in (E + 1)..e : all[y][key] # x
    BY <1>1, <1>2
  <2> HIDE DEF all, rows, key
  <2>2. ChildrenOf(all, key, x) = ChildrenOf(rows, key, x)
    BY <1>2, <2>1, ChildrenOfLonger
  <2>3. ChildrenOf(rows, key, x) \in Seq(1..E)
    BY <1>2, <2>1, ChildrenAreRows
  <2> QED BY <2>2, <2>3 DEF all, rows, key
\* A sequence of rows has rows.
<1>6. ASSUME NEW m, NEW ids \in Seq(1..m) PROVE \A k \in DOMAIN ids : ids[k] \in 1..m
  <2> DEFINE V == 1..m
  <2>1. ids \in Seq(V)
    OBVIOUS
  <2> HIDE DEF V
  <2>2. \A k \in DOMAIN ids : ids[k] \in V
    BY <2>1
  <2> QED BY <2>2 DEF V
<1>7. ASSUME NEW x \in 1..T PROVE TestOf(new, x) = TestOf(db, x)
  <2> DEFINE ids == ChildrenOf(db.eval_results, "test_result_id", x)
  <2>1. ids = ChildrenOf(new.eval_results, "test_result_id", x) /\ ids \in Seq(1..E)
    BY <1>5
  <2>2. \A k \in DOMAIN ids : new.eval_results[ids[k]] = db.eval_results[ids[k]]
    <3>1. \A k \in DOMAIN ids : ids[k] \in 1..E
      BY <1>6, <2>1
    <3> HIDE DEF ids
    <3> QED BY <1>1, <3>1
  <2>3. new.test_results[x] = db.test_results[x]
    BY <1>1
  <2>4. TestOf(new, x) = [test_name |-> new.test_results[x].test_name,
                          status |-> new.test_results[x].status,
                          flake_runs |-> new.test_results[x].flake_runs,
                          evals |-> [k \in DOMAIN ids |-> EvalOf(new.eval_results[ids[k]])]]
    BY <2>1 DEF TestOf
  <2>5. TestOf(db, x) = [test_name |-> db.test_results[x].test_name,
                         status |-> db.test_results[x].status,
                         flake_runs |-> db.test_results[x].flake_runs,
                         evals |-> [k \in DOMAIN ids |-> EvalOf(db.eval_results[ids[k]])]]
    BY DEF TestOf
  <2> HIDE DEF ids
  <2> QED BY <2>2, <2>3, <2>4, <2>5
<1>8. ASSUME NEW x \in 1..S PROVE SuiteOf(new, x) = SuiteOf(db, x)
  <2> DEFINE ids == ChildrenOf(db.test_results, "suite_id", x)
  <2>1. ids = ChildrenOf(new.test_results, "suite_id", x) /\ ids \in Seq(1..T)
    BY <1>4
  <2>2. \A k \in DOMAIN ids : TestOf(new, ids[k]) = TestOf(db, ids[k])
    <3>1. \A k \in DOMAIN ids : ids[k] \in 1..T
      BY <1>6, <2>1
    <3> HIDE DEF ids
    <3> QED BY <1>7, <3>1
  <2>3. new.suite_results[x] = db.suite_results[x]
    BY <1>1
  <2>4. SuiteOf(new, x) = [suite_name |-> new.suite_results[x].suite_name,
                           tests |-> [k \in DOMAIN ids |-> TestOf(new, ids[k])]]
    BY <2>1 DEF SuiteOf
  <2>5. SuiteOf(db, x) = [suite_name |-> db.suite_results[x].suite_name,
                          tests |-> [k \in DOMAIN ids |-> TestOf(db, ids[k])]]
    BY DEF SuiteOf
  <2> HIDE DEF ids
  <2> QED BY <2>2, <2>3, <2>4, <2>5
<1> DEFINE ids == ChildrenOf(db.suite_results, "run_id", other)
<1>9. \A k \in DOMAIN ids : ids[k] \in 1..S
  BY <1>3, <1>6
<1>10. LoadRun(new, other) = [k \in DOMAIN ids |-> SuiteOf(new, ids[k])]
  BY <1>3 DEF LoadRun
<1>11. LoadRun(db, other) = [k \in DOMAIN ids |-> SuiteOf(db, ids[k])]
  BY DEF LoadRun
<1> HIDE DEF ids
<1>12. LoadRun(new, other) = LoadRun(db, other)
  BY <1>8, <1>9, <1>10, <1>11
<1> QED BY <1>12 DEF new

\* The runs on record after a run is saved: those before it, and it.
LEMMA RunsOnRecord ==
  ASSUME NEW Ids, NEW db \in Databases(Ids), NEW id \in Ids, NEW run \in PipelineResults
  PROVE  LET new == SaveRows(db, id, run) IN
         \A x \in 1..Len(new.suite_results) :
            \/ new.suite_results[x].run_id = id
            \/ \E y \in 1..Len(db.suite_results) :
                 new.suite_results[x].run_id = db.suite_results[y].run_id
<1> DEFINE new == SaveRows(db, id, run)
           S == Len(db.suite_results)
<1>1. PICK s \in Nat :
        /\ DOMAIN new.suite_results = 1..s /\ S <= s
        /\ \A x \in 1..S : new.suite_results[x] = db.suite_results[x]
        /\ \A x \in (S + 1)..s : new.suite_results[x].run_id = id
  BY OldRowsAreKept
<1>2. new \in Databases(Ids)
  BY SaveInserts
<1> HIDE DEF new
<1>3. S \in Nat /\ DOMAIN new.suite_results = 1..Len(new.suite_results)
  BY <1>2, DatabaseFields
<1> HIDE DEF S
<1>4. ASSUME NEW x \in 1..Len(new.suite_results)
      PROVE  \/ new.suite_results[x].run_id = id
             \/ \E y \in 1..S : new.suite_results[x].run_id = db.suite_results[y].run_id
  <2>1. x \in 1..s
    BY <1>1, <1>3
  <2>2. x \in 1..S \/ x \in (S + 1)..s
    BY <1>3, <2>1
  <2> QED BY <1>1, <2>2
<1> QED BY <1>4 DEF new, S

\* A database with any runs gives a run that was saved under an id of its own back
\* as it was, and the others as before (repository.py:13-44, 86-131).
THEOREM RecordsKeepRuns ==
  ASSUME NEW Ids, NEW db \in Databases(Ids), NEW id \in Ids, NEW run \in PipelineResults,
         \A x \in 1..Len(db.suite_results) : db.suite_results[x].run_id # id
  PROVE  /\ SaveRows(db, id, run) \in Databases(Ids)
         /\ LoadRun(SaveRows(db, id, run), id) = run
         /\ \A other : other # id => LoadRun(SaveRows(db, id, run), other) = LoadRun(db, other)
BY SaveInserts, LoadsWhatWasSaved, LoadsOthers
==============================================================================
