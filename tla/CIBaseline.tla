----------------------------- MODULE CIBaseline -----------------------------
(***************************************************************************)
(* The CI jobs that run the capability suite and compare each run with the  *)
(* last one (.github/workflows/moss-ci.yml, with moss-ci run, export and    *)
(* diff-files of moss_ci/cli/main.py).                                      *)
(*                                                                          *)
(* Every job has a machine of its own, with the files last.json and         *)
(* current.json; what a job leaves to later ones is an entry of the CI       *)
(* service's cache.  Jobs are not serialised: the workflow names no          *)
(* concurrency group.  The service's own doings (a key that is cached is     *)
(* never replaced, a restore by prefix takes the newest entry, entries are   *)
(* evicted, machines are lost) are modelled from how the workflow uses it.   *)
(***************************************************************************)
EXTENDS RegressionDiff, RunRecords

CONSTANTS
  Jobs,      \* the workflow's jobs
  Refs,      \* github.ref: branches and pull requests
  Labels,    \* the layers: quick, full, all
  ResultsOf, \* the results a run of a layer may have
  NoRun,     \* no file
  NoResult   \* no result on record

Results == UNION {ResultsOf[l] : l \in Labels}
ScoresOf(run) == {JudgeScore(TestAt(run, p)) : p \in Positions(run)} \ {NoScore}

\* The output layer_label of a job whose step "layer" never ran is empty.  Scores
\* that are exactly Threshold apart are left out: there floating point decides.
ASSUME CIAssumption ==
  /\ NoRun \notin Jobs
  /\ "" \notin Labels
  /\ ResultsOf \in [Labels -> SUBSET Results]
  /\ Results \subseteq PipelineResults
  /\ NoResult \notin Results
  /\ \A r, s \in Results : \A a \in ScoresOf(r), b \in ScoresOf(s) : a # b + Threshold

VARIABLES
  phase,    \* the step each job is at
  ref,      \* its branch
  label,    \* its layer, once that is known
  result,   \* the run its database has on record
  last,     \* the job whose run is in last.json
  current,  \* the job whose run is in current.json
  summary,  \* what the job's summary says
  against,  \* the job whose run the summary compares with
  cache,    \* the cached copies of last.json, oldest first
  finished  \* the jobs whose own run became last.json, in that order

local == <<phase, ref, label, result, last, current, summary, against>>
vars == <<local, cache, finished>>

-----------------------------------------------------------------------------
Phases == {"idle", "setup", "run", "restore", "export", "diff", "keep", "save", "ended", "lost"}
Entries == [ref : Refs, label : Labels \cup {""}, run : Jobs]

Init ==
  /\ phase = [j \in Jobs |-> "idle"]
  /\ ref \in [Jobs -> Refs]
  /\ label = [j \in Jobs |-> ""]
  /\ result = [j \in Jobs |-> NoResult]
  /\ last = [j \in Jobs |-> NoRun]
  /\ current = [j \in Jobs |-> NoRun]
  /\ summary = [j \in Jobs |-> "none"]
  /\ against = [j \in Jobs |-> NoRun]
  /\ cache = << >>
  /\ finished = << >>

\* One step of job j: from is its phase before it, to the one after it.
Step(j, from, to) ==
  /\ phase[j] = from
  /\ phase' = [phase EXCEPT ![j] = to]

\* A push, a pull request, a schedule or a hand starts a job on some branch.
Trigger(j) ==
  /\ Step(j, "idle", "setup")
  /\ UNCHANGED <<ref, label, result, last, current, summary, against, cache, finished>>

\* Checkout, build, installation and the step "layer" succeed ...
Setup(j, l) ==
  /\ Step(j, "setup", "run")
  /\ label' = [label EXCEPT ![j] = l]
  /\ UNCHANGED <<ref, result, last, current, summary, against, cache, finished>>

\* ... or one of them fails, or the job is cancelled: only the steps that run
\* always() follow.
SetupFails(j) ==
  /\ Step(j, "setup", "restore")
  /\ UNCHANGED <<ref, label, result, last, current, summary, against, cache, finished>>

\* moss-ci run ends, red or green; the database has the run on record, or not (a
\* crash, a cancellation, a run that could not be persisted).
RunSuite(j) ==
  /\ Step(j, "run", "restore")
  /\ \E r \in ResultsOf[label[j]] \cup {NoResult} : result' = [result EXCEPT ![j] = r]
  /\ UNCHANGED <<ref, label, last, current, summary, against, cache, finished>>

\* The entries of the cache that have j's key.
SameKey(j) == {i \in DOMAIN cache : cache[i].ref = ref[j] /\ cache[i].label = label[j]}

\* The entries whose key begins with the restore-key.
SameRef(j) == {i \in DOMAIN cache : cache[i].ref = ref[j]}

Newest(entries) == {i \in entries : \A k \in entries : k <= i}

\* Mutated Restore: the key of the restore leaves the branch out.
RestoreAnyRef(j) ==
  /\ Step(j, "restore", "export")
  /\ LET hit == IF SameKey(j) # {} THEN Newest(SameKey(j)) ELSE Newest(DOMAIN cache)
     IN  \/ \E i \in hit : last' = [last EXCEPT ![j] = cache[i].run]
         \/ UNCHANGED last
  /\ UNCHANGED <<ref, label, result, current, summary, against, cache, finished>>

\* actions/cache/restore: the entry under the job's own key, without one the
\* newest of its branch, whatever its layer.  It finds nothing on a new branch,
\* and when the service cannot be reached.
Restore(j) ==
  /\ Step(j, "restore", "export")
  /\ LET hit == IF SameKey(j) # {} THEN SameKey(j) ELSE Newest(SameRef(j))
     IN  \/ \E i \in hit : last' = [last EXCEPT ![j] = cache[i].run]
         \/ UNCHANGED last
  /\ UNCHANGED <<ref, label, result, current, summary, against, cache, finished>>

\* Mutated Export: a run with a failure is not exported (the step without always()).
ExportGreen(j) ==
  /\ Step(j, "export", "diff")
  /\ current' = [current EXCEPT ![j] =
       IF result[j] # NoResult /\ \A p \in Positions(result[j]) : TestAt(result[j], p).status = "pass"
       THEN j ELSE NoRun]
  /\ UNCHANGED <<ref, label, result, last, summary, against, cache, finished>>

\* Mutated Export: the export is copied to last.json at once.
ExportOverLast(j) ==
  /\ Step(j, "export", "diff")
  /\ current' = [current EXCEPT ![j] = IF result[j] # NoResult THEN j ELSE NoRun]
  /\ last' = [last EXCEPT ![j] = IF result[j] # NoResult THEN j ELSE last[j]]
  /\ UNCHANGED <<ref, label, result, summary, against, cache, finished>>

\* moss-ci export: the newest run on record, if there is one.
Export(j) ==
  /\ Step(j, "export", "diff")
  /\ current' = [current EXCEPT ![j] = IF result[j] # NoResult THEN j ELSE NoRun]
  /\ UNCHANGED <<ref, label, result, last, summary, against, cache, finished>>

\* The summary: moss-ci diff-files on both files, or why there is no diff.
DiffFiles(j) ==
  /\ Step(j, "diff", "keep")
  /\ summary' = [summary EXCEPT ![j] = CASE current[j] = NoRun -> "failed"
                                         [] current[j] # NoRun /\ last[j] = NoRun -> "first"
                                         [] OTHER -> "diff"]
  /\ against' = [against EXCEPT ![j] = IF current[j] = NoRun THEN NoRun ELSE last[j]]
  /\ UNCHANGED <<ref, label, result, last, current, cache, finished>>

\* cp current.json last.json || true: without current.json the baseline that was
\* restored stays.
Keep(j) ==
  /\ Step(j, "keep", "save")
  /\ IF current[j] # NoRun
       THEN /\ last' = [last EXCEPT ![j] = current[j]]
            /\ finished' = Append(finished, j)
       ELSE UNCHANGED <<last, finished>>
  /\ UNCHANGED <<ref, label, result, current, summary, against, cache>>

\* The job is over: its machine and its files are gone.
Leave(j, end) ==
  /\ phase' = [phase EXCEPT ![j] = end]
  /\ last' = [last EXCEPT ![j] = NoRun]
  /\ current' = [current EXCEPT ![j] = NoRun]
  /\ UNCHANGED <<ref, label, result, summary, against, finished>>

\* Mutated Save: saves without asking for has_baseline.
SaveMissing(j) ==
  /\ phase[j] = "save"
  /\ SameKey(j) = {}
  /\ cache' = Append(cache, [ref |-> ref[j], label |-> label[j], run |-> last[j]])
  /\ Leave(j, "ended")

\* actions/cache/save, if last.json exists: a new entry, unless the key is
\* cached already ...
Save(j) ==
  /\ phase[j] = "save"
  /\ last[j] # NoRun /\ SameKey(j) = {}
  /\ cache' = Append(cache, [ref |-> ref[j], label |-> label[j], run |-> last[j]])
  /\ Leave(j, "ended")

\* ... or nothing is saved: there is no file, the key is cached, or the service
\* cannot be reached.
SaveNothing(j) ==
  /\ phase[j] = "save"
  /\ Leave(j, "ended")
  /\ UNCHANGED cache

\* The machine is lost, or the job is killed after its 20 minutes.
LoseRunner(j) ==
  /\ phase[j] \notin {"idle", "ended", "lost"}
  /\ Leave(j, "lost")
  /\ UNCHANGED cache

\* The service drops an entry that nobody has asked for in a while.
Evict ==
  /\ \E i \in DOMAIN cache : cache' = RemoveAt(cache, i)
  /\ UNCHANGED <<local, finished>>

\* No job is left to start or to run.
Over ==
  /\ \A j \in Jobs : phase[j] \in {"ended", "lost"}
  /\ UNCHANGED vars

JobStep(j) ==
  \/ \E l \in Labels : Setup(j, l)
  \/ SetupFails(j)
  \/ RunSuite(j)
  \/ Restore(j)
  \/ Export(j)
  \/ DiffFiles(j)
  \/ Keep(j)
  \/ Save(j)
  \/ SaveNothing(j)

Next ==
  \/ \E j \in Jobs : Trigger(j) \/ JobStep(j) \/ LoseRunner(j)
  \/ Evict
  \/ Over

Spec == Init /\ [][Next]_vars

\* Every step of a job ends: a job has 20 minutes.
FairSpec == Spec /\ \A j \in Jobs : WF_vars(JobStep(j))
-----------------------------------------------------------------------------
\* Type invariant of the jobs and the cache.
TypeOK ==
  /\ phase \in [Jobs -> Phases]
  /\ ref \in [Jobs -> Refs]
  /\ label \in [Jobs -> Labels \cup {""}]
  /\ result \in [Jobs -> Results \cup {NoResult}]
  /\ last \in [Jobs -> Jobs \cup {NoRun}]
  /\ current \in [Jobs -> Jobs \cup {NoRun}]
  /\ summary \in [Jobs -> {"none", "first", "failed", "diff"}]
  /\ against \in [Jobs -> Jobs \cup {NoRun}]
  /\ cache \in Seq(Entries)
  /\ finished \in Seq(Jobs)

\* A run that may serve as a baseline on branch r: it has a result and was one
\* of that branch.
IsRunOf(run, r) == result[run] # NoResult /\ ref[run] = r

\* Whatever fails, overlaps or is evicted, a branch is only ever compared with
\* a complete run of its own: never with another branch's, never with the missing
\* result of a run that crashed (moss-ci.yml:197-200, 286-308).
BaselinesAreRunsOfTheRef ==
  /\ \A i \in DOMAIN cache : IsRunOf(cache[i].run, cache[i].ref)
  /\ \A j \in Jobs : last[j] # NoRun => IsRunOf(last[j], ref[j])
  /\ \A j \in Jobs : against[j] # NoRun => IsRunOf(against[j], ref[j])

\* A diff looks back: the run a summary compares with became a baseline before
\* this job's own run did, however the jobs overlap (moss-ci.yml:192-252, 285-308).
BaselinesAreEarlier ==
  \A j \in Jobs : against[j] # NoRun =>
    \E i \in DOMAIN finished : /\ finished[i] = against[j]
                              /\ \A k \in 1..i : finished[k] # j

\* A red run is compared as a green one is: once a job is past its diff, its
\* summary has one exactly if the run is on record, and a baseline was found
\* (moss-ci.yml:203-208, 226-252).
EveryResultIsSummarised ==
  \A j \in Jobs : phase[j] \in {"keep", "save", "ended"} =>
    /\ result[j] # NoResult <=> summary[j] \in {"first", "diff"}
    /\ against[j] # NoRun <=> summary[j] = "diff"

\* The run that a job's database has on record, as moss-ci export reads it back.
Exported(j) == LoadRun(SaveRows(EmptyDb, j, result[j]), j)

\* The diff in a job's summary.
Report(j) == Compare(Exported(j), Exported(against[j]))
HasReport(j) == against[j] # NoRun /\ result[j] # NoResult /\ result[against[j]] # NoResult

\* A history that recorded the jobs' runs one after the other gives each of them
\* back as it was: suites, tests and evals in their order, what was skipped still
\* skipped, whatever the runs have in common (repository.py:13-44, 86-131).
HistoryKeepsRuns ==
  LET db == FoldLeft(LAMBDA rows, j : SaveRows(rows, j, result[j]), EmptyDb, finished)
  IN  \A i \in DOMAIN finished : LoadRun(db, finished[i]) = result[finished[i]]

\* What the summary reports of a test with a name of its own happened to that test
\* in the runs themselves, its statuses and its scores, whatever suite it is in; no
\* name is reported that a run has not, or as a failure and a fix at once, or as
\* better and worse.  A change between two tests that share a name may be reported
\* though neither changed: of those it says no more (diff.py:6-41).
ReportedChangesAreReal ==
  \A j \in Jobs : HasReport(j) =>
    ChangesAreReal(Report(j), result[j], result[against[j]])

\* No regression of a test whose name nobody shares is missing in the summary,
\* whatever suite the test has moved to since (diff.py:6-16, 28-33).
RegressionsAreInTheSummary ==
  \A j \in Jobs : HasReport(j) =>
    RegressionsAreReported(Report(j), result[j], result[against[j]])

\* Had the two runs come in the other order, the diff would have said the
\* opposite: each failure a fix, each rise of a score a fall (diff.py:15-26).
ReportReverses ==
  \A j \in Jobs : HasReport(j) =>
    Reverses(Report(j), Compare(Exported(against[j]), Exported(j)))

\* The history's own diff and the CI's agree on new failures and fixes of two runs
\* whose names are keys: it has no others, and all of them if the tests kept their
\* suites.  It reports no score, though the regression analysis of the design has
\* rises and falls of scores (design document:247-252; runs.py:87-108, diff.py:6-33).
DiffsAgreeOnStatuses ==
  \A j \in Jobs : HasReport(j) =>
    LET b == Exported(against[j])
        c == Exported(j)
    IN  AgreesOnStatuses(ApiCompare(c, b), Report(j), c, b)

\* The jobs of a branch and layer that ended with their run as last.json, by
\* their place in finished.
Predecessors(r, l) ==
  {i \in DOMAIN finished : /\ ref[finished[i]] = r /\ label[finished[i]] = l
                           /\ phase[finished[i]] = "ended"}

\* moss-ci.yml:285: "Save current as next run's baseline" (the summary's header
\* says "vs last ... run").  A baseline of the job's own layer is the last
\* such run.
ComparesWithLastRun ==
  [][\A j \in Jobs :
        /\ phase[j] = "restore" /\ last'[j] # NoRun
        /\ label[last'[j]] = label[j] /\ phase[last'[j]] = "ended"
        => \E i \in Newest(Predecessors(ref[j], label[j])) : finished[i] = last'[j]]_vars
==============================================================================
