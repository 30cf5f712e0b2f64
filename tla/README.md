# Moss CI in TLA+

Moss CI (`moss_ci/`) runs suites of tests against the Moss coding agent: it parses YAML
suites, plans them, executes the tests concurrently with fail-fast and flake detection,
judges what Moss did, keeps every run in a SQLite file, and offers the history through a
command line, an HTTP API and a regression diff. This directory holds a model of the parts
of it in which steps of several actors meet, TLC runs on small instances, and proofs checked
by TLAPS for every instance.

Paths below are relative to `src/moss_ci/` unless they start with `docs/`, `tests/` or
`.github/`. `tlc -config X.cfg M` and `tlapm M.tla` are run in this directory.

## 1. Inventory of the system

| Component | State it keeps | Operations | What is hard |
|---|---|---|---|
| Execution engine (`engine/executor.py`, `engine/pipeline.py`) | per suite: a semaphore, the pending tasks, the results; one optional global semaphore | `execute`, `_execute_suite`, `run_with_limit` | hundreds of tasks under two nested semaphores, fail-fast cancellation at any await, one suite's exception beside the results of others |
| Single test and flake detection (`_run_test_once`, `engine/flake.py`) | the runs of one test so far | Moss call(s), evaluators, consensus | mixtures of passed, failed, errored and skipped runs; exceptions and cancellation in between |
| CLI backend (`runner/cli_backend.py`), conversation loop (`runner/base.py`) | session files that Moss processes write in `.moss/sessions` | `run`, `run_conversation` | finding out which of the files that concurrent, late or timed-out processes write is this call's |
| SDK and API backends (`runner/sdk_backend.py`, `api_backend.py`) | none between calls | `run`, `run_task` | timeouts |
| Evaluators (`evaluator/`) | none | `evaluate` of five kinds, one after the other | a judge that is missing, refuses, answers nonsense or cannot be reached; a list that is consumed while it is compared; what a conversation leaves of its turns |
| Scheduler and YAML models (`engine/scheduler.py`, `models/`) | none | `plan` | tests that are dropped at plan time must still be counted; limits nobody validates |
| Database and repository (`storage/db.py`, `repository.py`) | one `Database` object per process, one SQLite file for all | `init`, `save`, `get`, `list` | initialisation on demand from concurrent requests, colliding ids, several processes on one file |
| HTTP API (`api/server.py`, `api/routes/runs.py`) | none but the `Database` | run, get, cancel, diff, listings | handlers that read, await and write; restarts with requests in flight |
| Command line (`cli/main.py`) | none but the `Database` | `run`, `status`, `history`, `diff`, `export`, `diff-files` | best-effort persistence, then an export of "the latest" |
| Regression diff (`engine/diff.py`) | none | `compare` | names as keys, changes that no list reports |
| CI workflow (`.github/workflows/moss-ci.yml`) | `last.json` and `current.json` on each job's machine, baselines in the CI cache | run, restore, export, diff, keep, save | jobs that overlap, steps that fail with later ones still to run, immutable cache keys, restore by prefix, eviction |
| Cache, object store (`storage/cache.py`, `object_store.py`) | files | get, put | not used by the program |
| Parser, rendering, web dashboard | none | conversion and layout | - |

**Interaction.** A request or a command parses suites, builds a plan with the Scheduler and
gives it to one `PipelineEngine`, whose `Executor` gathers one coroutine per suite and one
asyncio task per test. A test's task calls the `MossRunner`, whose backend starts Moss, then
the evaluators in turn. The `PipelineResult` comes back to the request or command, which
alone stores it; everybody else reads the history through the repository. All coroutines of
a process share one event loop and interleave only at awaits; CLI commands, the server and
Moss are processes of their own and meet in files.

**What makes each component correct.** The engine: limits hold, permits are never lost,
fail-fast stops its own suite only and with a cause, nothing runs on behind a finished
suite, the verdict accounts for every test, the run ends. A single test: a pass hides no
failure, skips and failures are not confused, better runs never make a worse test, it ends.
The CLI backend: a call is judged by its own session. The history: what a client was told
stays true, every row is a verdict of the engine, rows are only added, requests find their
tables, and a run comes back from its rows as it was. The evaluators: a green test is green
on evidence, whatever the judge does. The diff, of tests with a name of their own: what it
reports happened, no regression is missing, and the two implementations agree on statuses (not
on scores, and of tests that share a name much less can be said: section 5). The CI jobs: a
run is compared with an earlier complete run of its own branch, or says why not.
`PROJECT.json` lists the hazards line by line.

## 2. The modules

| Module | Models | Rests on |
|---|---|---|
| `RunContract` | what one run promises: abstract specification, tests settle once, verdict last | - |
| `Scheduler` | how a suite as written becomes the plan of the engine | operators |
| `Executor` | the execution engine | implements `RunContract` |
| `PlannedRun` | a run of the engine from the suites as written | composes `Scheduler` and `Executor` |
| `TestExecution` | one test between its permits and its outcome | is `Executor!Finish` in detail |
| `Evaluation` | the same test with every evaluator as it is | implements `TestExecution` |
| `MossSessions` | the CLI backend's calls, Moss processes and session files | the order of calls of `TestExecution` |
| `RunLedger` | what the run history promises: abstract specification, append-only, one row per id | - |
| `RunService` | API server, CLI commands, `Database`, repository, one file | implements `RunLedger`; the engine is one step |
| `RunRecords` | a run as rows of three tables, and back | operators |
| `RegressionDiff` | both diffs of two runs, and what they promise | operators |
| `CIBaseline` | the jobs of the CI workflow, their files, the cache | composes `RunRecords` and `RegressionDiff` |
| `MC*` | small constants for TLC | |
| `*Proofs` | theorems about the module of that name; `RunResultsProofs` about `RegressionDiff` and `RunRecords` | |
| `SequenceLemmas` | what folds and flattening give on sequences of any length | used by the proofs |

### Executor (`engine/executor.py`)

One action is what one coroutine does between two awaits. `suite[s]` is where
`_execute_suite` is: `created`, `waiting` (in `asyncio.wait(FIRST_COMPLETED)`), `draining`
(in the second `asyncio.wait`), or ended: `returned`, `cancelled` (a CancelledError left it),
`raised`. `task[t]` is where a test's task is: `scheduled`, `queued` (it holds the suite's
permit and waits for a global one), `running`, or its outcome. `pending` and `cancelling`
are the local set and the tasks that were told to stop; `suiteFree` and `globalFree` the
semaphores' values.

| Action | Code |
|---|---|
| `RefuseSuite`, `StartSuite` | 55-75; a negative `max_concurrency` makes `asyncio.Semaphore` raise |
| `Collect` | one turn of the loop 78-98: what arrived, whether to stop, whom to cancel |
| `Drain` | 99-113; `exception()` of a cancelled task *raises* CancelledError |
| `ReturnSuite` (part of the three above) | 115-141, the counts |
| `EnterSuite`, `EnterGlobal`, `Release` | 59-64, `async with` both semaphores |
| `Finish`, `Unwind` | the test ends with any outcome, or CancelledError is raised at its await |
| `Aggregate` | the rest of `execute`, 29-53 |

`asyncio` is external. A waiter may take a permit whenever one is free: this contains the
first-come-first-served order of `asyncio.Semaphore`, and a superset of behaviours is the
safe side for the safety properties; for liveness it makes the model weaker than the code.
A task told to stop may still finish: `asyncio.wait_for` of the Python version the project
requires (3.11) returns a result that was there when the cancel arrived.

### TestExecution (`engine/executor.py:143-222`, `engine/flake.py`, `runner/base.py:14-25`)

`plan` is chosen among `Plans` and stays. A run is a sequence of `MossReturns` steps (one,
or one per user turn), then `Evaluate` with the set of answers the evaluators gave; `Raise`
is the `except Exception` branch and `Cancelled` the `except CancelledError` one.
`RunStatus` is the verdict of one run (197-205), `FlakeStatus` the consensus of several
(flake.py:22-33). Evaluators other than `exit_code` are reduced to their answer; `exit_code`
is computed, because a conversation loses its exit codes (base.py:25 builds a `MossResult`
with the default 0): a conversation whose every turn timed out passes an `exit_code` check.
`runs = 1` stands for a test without flake detection; with it the YAML admits 2 and more.

### Scheduler (`engine/scheduler.py`, `models/pipeline.py`)

`PlanSuite` is `_plan_suite` with the defaults of the suite's config: tests with `skip: true`
are dropped and counted. `PlannedRun` adds the written suites to `Executor` and assumes that
its constants are their plans and that each entry of a file is a test of its own;
`MCExecutor` writes the suites of its runs as an author would. `EveryWrittenTestIsAccounted`
relates a SuiteResult to the file: passed, failed, error and skipped add up to the tests
written, but for the flaky ones, which no count has.

### Evaluation (`evaluator/`, `engine/executor.py:143-222`)

`TestExecution` lets the evaluators answer at once and anything. `Evaluation` has them answer
one after the other, each as its code does, on what Moss returned; `Verdict` ends the run.
`KeepsTestExecution` maps it back: `EvaluatorAnswers` and `JudgeAnswers` are stutters there,
`Verdict` is `Evaluate` with the set of the answers, `exit_code` left out because
`TestExecution` computes it.

| Action or operator | Code |
|---|---|
| `MossReturns`, `MossRaises`, `AwaitsMoss` | executor.py:155-187, the copy of the workdir 224-247 |
| `EvaluatorAnswers`, `EvaluatorRaises` | executor.py:189-195; a bad pattern of `contains` raises, and so does `tool_args` at a call whose arguments are no object, unless a call before it matched |
| `JudgeAnswers`, `JudgeAnswer` | llm_judge.py:17-101; unreachable skips, every other way to have no score fails |
| `ParseScore` | llm_judge.py:140-181, the first of four ways that finds a score |
| `InAnyOrder`, `SequencePasses`, `ArgsPass`, `ArgsRaise` | tool_sequence.py, tool_args.py; the loop over the calls stops at the first that matches |
| `SideEffectPasses` | side_effect.py; the words "pass", "fail", "error" in the output |
| `Output`, `ToolCalls`, `FilesModified`, `ExitCodeIsZero` | base.py:14-25; a conversation loses exit codes and files |

An output is the set of the texts it contains, so `contains` is membership, whatever the
mode; a judge's answer is what each of the four ways would find in it. A `conversation`
passes every `exit_code` check and fails every `file_modified` one, as the code has it; no
document says otherwise.

### MossSessions (`runner/cli_backend.py`)

A run makes `Turns[r]` calls in one directory `cwd[r]`: a staged copy of its workdir, which
is its own, or the directory of moss-ci itself, which runs without a workdir share. `Start`
lists the files and starts Moss, `Return` extracts the newest file that was not listed,
`Timeout` and `Cancel` leave the process running. Moss is external: `Write` and `Exit` happen
at any time or never, and a name is any that is not taken, so the model does not depend on how
Moss names its files. Of a session only its writer is kept: whose tool calls the evaluators
see is the question. `overlap` is a history variable, which no guard reads: the pairs of runs
that have been in progress at the same time (`phase` "ready" or "calling", so between the first
call of a run and the end of its last). A call adds its run's pairs with all other runs in
progress. It lets `OnlyOverlapMisattributes` and `TakenOnce` speak of the two runs concerned,
however many others run beside them and whatever the limit.

### RunService (`api/`, `cli/main.py`, `storage/`)

A job is an HTTP request or a CLI command. Its phase says which await it is at: the engine,
the creation of the tables, its first or second repository call, the closing of the session
after a commit. `opened` is the set of `Database` objects whose `session_factory` is set,
which is what `init()` looks at (db.py:19); the server has one, each command its own.
`StopServer` and `KillCommand` lose what jobs hold in memory, the file stays. Ids come from a
small set, so that collisions of the eight hex digits happen. A run of `moss-ci run` gets its
id after the engine (main.py:76); it is drawn on arrival here, and nobody sees it before.

SQLite is external: one writer at a time, a transaction takes effect at one moment between
its await and its return, or fails. `created_at`, which an INSERT is given as it is made, is
taken to follow the order of the commits. The `get` request stands for every read of one run
(`/logs`, `/tests`, `status`, `logs`, `diff` by two ids), which differ in layout only.

### RunRecords and RegressionDiff (`storage/repository.py`, `engine/diff.py`, `api/routes/runs.py`)

`SaveRows` is what the flush of `save` inserts, ids by autoincrement; `LoadRun` is
`_to_domain` over rows found by their parents' ids. Columns that are copied unchanged are left
out; the Booleans, and `skipped`, which has no column of its own and travels in `details`, are
there. `Compare` is `DiffEngine.compare`, with the index that keeps the last test of each
name; `ApiCompare` the loops of `diff_run`, which take the first test of that name in the
first suite of that name and leave `improved` and `degraded` empty. `ChangesAreReal` says of
a name that no two tests of a run share that what is reported under it happened to that test;
of shared names only that both runs have them and that they are not in opposite lists.
`AgreesOnStatuses` relates the two diffs. Scores are counted in tenths; scores exactly the threshold apart
are excluded (`CIAssumption`), since what the code says of them depends on floating point.

### CIBaseline (`.github/workflows/moss-ci.yml`)

A job is its `phase`, the step it is at, and two files: `last` and `current` hold the job
whose run is in them. `finished` is a history variable: the order in which runs became
`last.json`.

| Action | Code |
|---|---|
| `Trigger`, `Setup`, `SetupFails` | the events and the steps up to "Determine test layer", 20-110; a failure leaves the steps marked `always()` |
| `RunSuite` | `moss-ci run`, 178-190, red or green, its run on record or not |
| `Restore` | `actions/cache/restore`, 192-200: the job's key, else the newest entry of its branch |
| `Export` | `moss-ci export`, 203-208 |
| `DiffFiles` | 226-252: a diff, "first run", or "no export" |
| `Keep` | `cp current.json last.json`, 285-299 |
| `Save`, `SaveNothing` | `actions/cache/save`, 303-308: a key that is cached is never replaced |
| `LoseRunner`, `Evict` | the machine or an entry of the cache is lost at any time |

The cache is external and as documented for the service: keys are immutable, a restore by
prefix takes the newest entry, entries are evicted, a call may fail. A branch whose name is a
prefix of another's key is not modelled. In the invariants the diff is computed on
`LoadRun(SaveRows(...))`, what `moss-ci export` reads back, so record and diff are checked
together.

## 3. The runs

| Run | Instance | States | Asks |
|---|---|---|---|
| `executor_run` | written suites of 4 (one skipped), 1 and 0 tests with limits 2, 1 and -1, the first fail-fast, 2 global permits | 155,362 | `EveryWrittenTestIsAccounted`, `PermitConservation`, `NoTestOutlivesItsSuite`, `CancellationHasCause`, `NoStartAfterStop`, `SuccessMeansNoFailure`, `KeepsContract`, `RunEnds` |
| `executor_stuck` | a suite with limit 0 beside one that can run and one whose tests are all to be skipped, 1 global permit | 1,080 | `SuiteEnds`: the others end |
| `test_execution` | 288 plans: up to 3 runs, thresholds 1 to 4, both consensus rules, prompt or 2 turns, 0 to 2 evaluators, with and without `exit_code` | 111,328 | `PassHidesNothing`, `SkippedMeansNoVerdict`, `BetterRunsNeverHurt`, `TestEnds` |
| `evaluation` | 10 tests with every evaluator: alone, together, in flake detection, in conversations of 0, 2 and 3 turns; 4 Moss replies, one with null for arguments, 8 judge replies | 55,712 | `AnyOrderCounts`, `JudgeNeverFakesAPass`, `LaterTurnsNeverHurt`, `KeepsTestExecution` |
| `sessions_all` | 2 runs, 3 calls, one or two directories, limit 1 or 2 | 114,891 | `OnlyOverlapMisattributes`, `TakenOnce`, `NoSessionLost`, `RunEnds` |
| `service_history` | 4 jobs (a run by API, one by command, a get or cancel, a diff or export), 2 ids, kills and failures anywhere | 786,886 | `AnswersStayTrue`, `RecordedVerdictsAreTheEngines`, `LifespanCreatesTables`, `KeepsLedger`, `JobEnds` |
| `ci_jobs` | 3 jobs, 2 branches, 2 layers with 2 and 3 possible runs | 531,750 | `BaselinesAreRunsOfTheRef`, `BaselinesAreEarlier`, `EveryResultIsSummarised`, `HistoryKeepsRuns`, `ReportedChangesAreReal`, `RegressionsAreInTheSummary`, `ReportReverses`, `DiffsAgreeOnStatuses` |

**Why the bounds are enough.** The engine needs a fail-fast suite with more tests than its
limit, so that tests are scheduled, queued and running when the failure is seen; a second
suite to compete for the global permits; and a suite of each degenerate kind. Three runs of a
flaky test reach every mixture of two statuses with a third one, thresholds one below, at and
above what can be met. Sessions need two turns (a late session of the first) and a second run, which overlaps with
the first or does not; that other runs may overlap meanwhile is left to the theorems. The history needs two writers with one id, a reader that writes back, and a reader
that picks among rows. A flaky test with a judge needs three runs, an expected sequence a tool that
occurs twice and tools in three turns. Three CI jobs are two that overlap on a key and one
that compares with what they left; the runs they may have include one test name in two
suites, one suite name twice, a test that moved, suites in another order, and a skipped judge.
The theorems cover all other sizes.

**Violations.** Five runs show where a comment or document of the repository and the code
disagree. Each checks one statement:

| Run | Statement | What happens |
|---|---|---|
| `executor_drain` | executor.py:100 "Drain the cancelled tasks so their results are recorded." | reading a cancelled task's exception raises, the suite has no result, `execute` crashes on it |
| `test_flake_host` | flake.py:20-21 "a reachable-then-not host can't flunk it" | one pass and two skips miss a threshold of two |
| `sessions_staged` | docs/USAGE.md:175, only this call's session is parsed | the next turn finds the session of the one that timed out |
| `ci_last_run` | moss-ci.yml:285 "Save current as next run's baseline", 235 "vs last ... run" | the key is cached already, so the second run is not saved and the third is compared with the first |
| `service_init` | db.py:17-18 "safe to call from lifespan AND from request paths" | a second request uses the database while the first creates its tables |

**Deadlock** is checked in every run but `executor_stuck`, where a suite with limit 0 really
waits for ever (nothing in models/pipeline.py:20 forbids it). `Over` lets a finished model
stutter.

**Fairness.** `Executor`: the event loop runs every ready coroutine, so each suite's step and
each task's steps are weakly fair; a test ends because every call has a timeout
(cli_backend.py:120, sdk_backend.py:29, api_backend.py:25, llm_judge.py:96). There is no
strong fairness: with one permit and several waiters a particular one may wait, but the
waiting tests are finitely many and each runs once. `TestExecution`: the same timeouts.
`MossSessions`: a timeout that is due fires, Moss itself owes nothing. `RunService`: a job
goes on by itself (the engine ends by `RunEnds`, a database call returns or fails); arrivals,
kills and failures are never required. `Evaluation`: Moss and judge calls have timeouts
(llm_judge.py:96), so a run's steps go on; it is what `TestExecution`'s fairness is shown to
follow from. `CIBaseline` states that a job's steps go on within its 20 minutes
(moss-ci.yml:43); `ci_last_run` uses it, the invariants need none.

## 4. What is proved

All theorems hold for every value of the constants under the named assumption of their
module: finitely many tests and typed plans for `Executor`, and for `PlannedRun`, which only
`WrittenTestsAreAccounted` uses, that the engine is given what the Scheduler plans; for
`RunService` that kinds are typed; for `Evaluation` typed checks and replies, names of tools
being strings; for `CIBaseline` that the runs are `PipelineResults` and that no two scores are
exactly the threshold apart. Every invariant a passing run checks is a theorem, and so is
every action property and the safety part of every refinement.

- `ExecutorProofs`. `IInv` is `TypeOK`, `Lifecycle`, `CancellationHasCause`,
  `PermitConservation`. `Lifecycle` is what makes the rest inductive: it ties a suite's phase
  to its pending set and to the phases of its tests (all that is not pending has an outcome;
  all that is pending while draining was told to stop; a suite that returned has the report
  its tests call for). Permits need cardinalities of the sets of holders, one lemma per
  action. From `IInv`: `NoTestOutlivesItsSuite`, the action property `NoStartAfterStop`,
  `SuccessMeansNoFailure`, and the refinement of `RunContract` (`EngineKeepsContract`).
  `WrittenTestsAreAccounted` counts: the outcomes of a suite that returned partition its
  tests (`CountsCoverSuite`), its tests are one to one the kept places of the file
  (`TestsAreKept`), kept and dropped places make up the file. `SuitesAreNeverStuck` is what of
  deadlock freedom is a state predicate: with nothing running every global permit is free,
  with nothing queued besides every permit of the suite, so some guard holds; it needs
  `WaitsHaveCause` (who waits, waits for a test; only a global cap makes tests queue).
- `TestExecutionProofs`. `IInv` adds that the result is the consensus of all runs (`Settled`)
  and that the last run's status is `RunStatus` of what was seen (`LastRun`). What pass,
  flake, skipped and fail mean follows by counting: the passed, the failed or errored and the
  skipped runs add up to all runs, for any number of runs and any threshold. Replacing a
  failed run by a passed one adds one to the passed runs and leaves the skipped ones
  (`BetterRunCounts`), from which `BetterIsNeverWorse` follows by cases on the status.
- `EvaluationProofs`. `IInv` is `TypeOK`, `Settled` (the result is the consensus of all runs),
  `AnswersInOrder` (evaluators are asked when Moss is done; a judge that passed has a good
  score; `exit_code` is what `TestExecution` computes) and `RunsJudged` (a run that is not red
  has no answer against it). `GreenOnEvidence` follows with `StatusFacts`: a test passes only
  if its runs passed or were skipped. `ImplementsTestExecution`: `KeptFacts` bounds the set of
  answers by the count of evaluators, `StatusMaps` shows that the verdict over the list of
  answers is the one over their set, `EndRunMaps` the same of the consensus.
  `AnyOrderIsCounted`: after each turn of the loop the list of tools holds what was called
  less what was taken (`TakesInOrder`), and taking the first of its kind lowers the count of
  that tool by one and of no other (`TimesRemoveFirst`). `TurnsNeverHurt` follows from it for
  "any order" and from places that only move back for the other checks (`MoreCallsPass`).
- `MossSessionsProofs`. `IInv` says what a waiting call could find: a process that runs is
  the current one of its run or was left behind; runs that are in progress together are a pair
  of `overlap` (`OverlapIsKnown`); a session that is new to a call is its own, or one left
  behind, or of a run that is such a pair with the call's (`NewIsKnown`); what was taken is
  listed by the calls that follow, but for those of such a pair (`TakenIsListed`). No argument
  needs the limit, or how many runs there are. `NoSessionIsLost`: a finite set of names that is
  not empty has a newest one (`GreatestNumber`).
- `RunServiceProofs`. `IInv` adds what each job may hold in each phase: a job that was
  answered is on record, a job past its engine holds a verdict, a row is the verdict of a
  run past its engine, and with a lifespan a server that is up has its tables. From it: the
  answers, the record, the lifespan, and the refinement of `RunLedger`.
- `SequenceLemmas`. Induction over numbers is needed for everything that loops, and the
  library states it with an operator as a parameter; `NatSet` states it of a *set* of numbers
  (a set with 0 and with each successor has every number, from the well-foundedness of `<`),
  and each induction defines the set of numbers it is about. `FoldIsLoop` turns the library's
  folds, recursive functions on sets of places, into the loop over the places in turn;
  `FlattenIsLoop`, `FlattenPlaces` and `FlattenAppend` say where the elements of a flattened
  sequence are.
- `RunResultsProofs`. On any two runs: the index has one test per name
  (`IndexIsByName`), so no name is on opposite lists; an unshared name is in the index, and
  the pair compared under it is that of its two tests (`UniqueIsShared`), so what is reported
  of it happened to it (`ComparisonIsReal`); swapping the runs swaps the lists, since each
  branch mirrors another; where names are keys the API pairs only tests that compare pairs, and
  all of them if tests keep their suites, so their failures and fixes agree
  (`ComparisonsAgree`). On any database: `RecordsKeepRuns`, the round trip of a run through
  its rows. New rows come after the old ones and their parents' ids are new too
  (`SaveInserts`), so the children found by a parent's id are, in order, the ones made of that
  parent (`ChildrenOf` as a loop), level by level from suites to evals; other runs find
  what they found before.
- `CIBaselineProofs`. `IInv` adds `Stages` (what a job has at each step) and
  `BaselinesAreKept` (every baseline in a file or the cache was kept by the job whose run it
  is, so it has a result and a branch that no longer change). Each action moves baselines in
  one of few ways (`Origins`): from the cache to a file, from the job to its file, from a file
  to the cache, from a file to a summary; the invariants follow from these and not from the
  actions. `ReportsReverse` follows from `ComparisonReverses`. `KeptOnce` (a run became a
  baseline once and has a result) was not needed until the history came in: it makes the ids
  on record different, so that `HistoryIsKept` follows from `RecordsKeepRuns`, run by run in
  the order of saving (`RecordedRunsAreLoaded`). With it what a summary compares are the
  runs themselves (`ReportIsOfTheRuns`), and `ReportsAreReal`, `RegressionsAreSummarised` and
  `BothDiffsAgreeOnStatuses` follow from the theorems on two runs.

Only model-checked: the liveness properties (`RunEnds` of the engine and of the sessions,
`SuiteEnds`, `TestEnds`, `JobEnds`, and the fairness that `KeepsTestExecution` asks for), which
are beyond the prover together with ENABLED. The statements of the five violation runs have no
theorem: they are false.

## 5. What is not modelled, and known gaps

- The per-test `timeout` and `retry` are resolved by the Scheduler and read by nobody, and
  `PipelineConfig.fail_fast` (the CLI's `--fail-fast`) is never read: absent features have no
  steps.
- Negative `--concurrency` values: `Executor.__init__` raises before anything runs.
- Temporary workdirs, which are never removed; durations, and outputs beyond what they
  contain. The judge's prompt and the wording of its verdicts; a read timeout of the judge is
  a skip like an unreachable one.
- The evals of a flaky test are those of its first run (flake.py:36) and may belong to another
  verdict than its status; the diff takes its score from there.
- Suite files that cannot be parsed are reported and left out (main.py:42): suites are modelled
  from where they are loaded.
- A cancel never succeeds: `save` only INSERTs, and the primary key refuses (runs.py:75-76).
  A flaky test is in no count of a SuiteResult. The API compares with the newest *other* run,
  which may be a later one; `ReportReverses` says what such a diff shows. These are in the
  model; no run reports them as divergences.
- Tests that share a name. `DiffEngine` indexes by name alone and keeps the last test of a
  name (diff.py:30), so that a change between two such tests is reported though neither
  changed: with `Red` and then `Doubled` of `MCCIBaseline` "ask" is reported fixed, and
  tools/ask fails in both. No document says what a diff of such runs should hold; the
  properties of the diff leave them out but for contradictory lists.
- `GET /runs/{id}/diff` reports no rise or fall of a score: its lists `improved` and `degraded`
  are there and always empty (runs.py:96), though the regression analysis of the design
  (design document:251-252) and docs/USAGE.md:77 have both, and `DiffEngine` fills them.
  `DiffsAgreeOnStatuses` states the agreement that there is.
- Lists of runs (`history`, `/runs`, `/suites`), which change nothing; their limit of 1000.
- The migration of an older file (db.py:30-40) is part of `CreateTables`: one transaction.
- Client disconnects cancel no handler in the server the project uses.
- Cache, object store, web dashboard: see `PROJECT.json`.

## 6. Plan

Done, in this order: `RunContract`, `Executor` and its theorems; `TestExecution`;
`RunLedger`, `RunService`; `MossSessions`; `Scheduler`; `RegressionDiff`, `RunRecords`,
`CIBaseline`; `Evaluation`; `SequenceLemmas` and the theorems on folds and rows; `PlannedRun`.

Next:

1. `MossSessions` inside `Executor`'s limits: the overlap that `limit` allows derived from
   the permits rather than assumed.
2. That `TestExecution` implements the step `Finish` of `Executor`.
3. Proofs about those two, and that `Plan` meets what `Executor` assumes of it.
4. Loading of suites: which files and filters make up the run of a command.
