-------------------------- MODULE CIBaselineProofs --------------------------
(***************************************************************************)
(* Theorems about CIBaseline for any number of jobs, branches, layers and   *)
(* results: what a branch may be compared with, and what a diff may say.     *)
(* IInv adds to the invariants of CIBaseline what holds at each step of a    *)
(* job, and that every baseline is a run some job has kept.                  *)
(***************************************************************************)
EXTENDS CIBaseline, RunResultsProofs, SequenceTheorems, TLAPS

KeptIn(seq, run) == \E i \in DOMAIN seq : seq[i] = run

\* What a job has at each of its steps.
Stages ==
  \A j \in Jobs :
    /\ phase[j] = "run" => label[j] \in Labels
    /\ phase[j] \in {"idle", "setup", "run"} => result[j] = NoResult
    /\ phase[j] \in {"idle", "setup", "run", "restore", "export"} => current[j] = NoRun
    /\ phase[j] \in {"diff", "keep", "save"} => (current[j] = j <=> result[j] # NoResult)
    /\ current[j] \in {NoRun, j}
    /\ phase[j] \in {"idle", "setup", "run", "restore", "export", "diff"} => against[j] = NoRun
    /\ phase[j] \in {"idle", "setup", "run", "restore", "export", "diff", "keep"} => ~KeptIn(finished, j)

\* Every baseline was kept by the job whose run it is.
BaselinesAreKept ==
  /\ \A i \in DOMAIN cache : KeptIn(finished, cache[i].run)
  /\ \A j \in Jobs : last[j] # NoRun => KeptIn(finished, last[j])

\* Every run is kept once, with its result.
KeptOnce ==
  /\ \A i, k \in DOMAIN finished : finished[i] = finished[k] => i = k
  /\ \A i \in DOMAIN finished : result[finished[i]] # NoResult

IInv ==
  /\ TypeOK
  /\ KeptOnce
  /\ Stages
  /\ BaselinesAreKept
  /\ BaselinesAreRunsOfTheRef
  /\ BaselinesAreEarlier
  /\ EveryResultIsSummarised

-----------------------------------------------------------------------------
(***************************************************************************)
(* Where what is there after a step comes from.                             *)
(***************************************************************************)

\* A run on record stays as it is.
ResultsStay ==
  /\ ref' = ref
  /\ \A j \in Jobs : result[j] # NoResult => result'[j] = result[j]

\* An entry was cached already, or is some job's last.json.
CacheFrom ==
  \A i \in DOMAIN cache' :
    \/ \E m \in DOMAIN cache : cache'[i] = cache[m]
    \/ \E j \in Jobs : /\ last[j] # NoRun
                       /\ cache'[i] = [ref |-> ref[j], label |-> label[j], run |-> last[j]]

\* last.json was there, is an entry of the branch, or the job's own run.
LastFrom ==
  \A j \in Jobs : last'[j] # NoRun =>
    \/ last'[j] = last[j]
    \/ \E i \in DOMAIN cache : cache[i].ref = ref[j] /\ last'[j] = cache[i].run
    \/ phase[j] = "keep" /\ current[j] # NoRun /\ last'[j] = current[j]
         /\ finished' = Append(finished, j)

AgainstFrom ==
  \A j \in Jobs : against'[j] # against[j] /\ against'[j] # NoRun =>
    phase[j] = "diff" /\ against'[j] = last[j]

FinishedFrom ==
  \/ finished' = finished
  \/ \E j \in Jobs : /\ phase[j] = "keep" /\ phase' = [phase EXCEPT ![j] = "save"]
                     /\ current[j] # NoRun /\ finished' = Append(finished, j)

Origins == ResultsStay /\ CacheFrom /\ LastFrom /\ AgainstFrom /\ FinishedFrom

-----------------------------------------------------------------------------
\* What CIAssumption says, but for the scores.
LEMMA Apart == /\ NoRun \notin Jobs /\ NoResult \notin Results
               /\ ResultsOf \in [Labels -> SUBSET Results]
BY CIAssumption

\* RemoveAt gives a sequence of elements of the one it is given.
LEMMA RemoveAtElements ==
  ASSUME NEW S, NEW s \in Seq(S), NEW i \in DOMAIN s
  PROVE  /\ RemoveAt(s, i) \in Seq(S)
         /\ \A k \in DOMAIN RemoveAt(s, i) : \E m \in DOMAIN s : RemoveAt(s, i)[k] = s[m]
<1>1. i \in 1..Len(s) /\ Len(s) \in Nat /\ DOMAIN s = 1..Len(s)
  OBVIOUS
<1>2. /\ RemoveAt(s, i) \in Seq(S) /\ DOMAIN RemoveAt(s, i) = 1..(Len(s) - 1)
      /\ \A k \in 1..(Len(s) - 1) : RemoveAt(s, i)[k] = IF k < i THEN s[k] ELSE s[k + 1]
  BY <1>1, RemoveAtPlaces
<1>3. \A k \in 1..(Len(s) - 1) : k \in DOMAIN s /\ k + 1 \in DOMAIN s
  BY <1>1
<1> QED BY <1>2, <1>3

\* What Append adds is its last element, and all else stays in its place.
LEMMA AppendElements ==
  ASSUME NEW S, NEW s \in Seq(S), NEW x \in S
  PROVE  /\ Append(s, x) \in Seq(S)
         /\ Len(s) \in Nat /\ DOMAIN s = 1..Len(s)
         /\ DOMAIN Append(s, x) = 1..(Len(s) + 1)
         /\ \A i \in 1..Len(s) : Append(s, x)[i] = s[i]
         /\ Append(s, x)[Len(s) + 1] = x
OBVIOUS

\* What a job finds in the cache is an entry of its branch.
LEMMA RestoreTakes ==
  ASSUME NEW j \in Jobs, Restore(j)
  PROVE  \/ UNCHANGED last
         \/ \E i \in DOMAIN cache : cache[i].ref = ref[j] /\ last' = [last EXCEPT ![j] = cache[i].run]
BY DEF Restore, SameKey, SameRef, Newest

\* The entries of the cache have the fields and the types of entries.
LEMMA CacheEntries ==
  ASSUME TypeOK, NEW i \in DOMAIN cache
  PROVE  cache[i].ref \in Refs /\ cache[i].run \in Jobs
<1>1. cache \in Seq(Entries)
  BY DEF TypeOK
<1>2. cache[i] \in Entries
  BY <1>1
<1> QED BY <1>2 DEF Entries

\* An eviction leaves entries that were there.
LEMMA EvictKeeps ==
  ASSUME TypeOK, Evict
  PROVE  /\ cache' \in Seq(Entries)
         /\ \A k \in DOMAIN cache' : \E m \in DOMAIN cache : cache'[k] = cache[m]
<1>1. PICK i \in DOMAIN cache : cache' = RemoveAt(cache, i)
  BY DEF Evict
<1>2. cache \in Seq(Entries)
  BY DEF TypeOK
<1> QED BY <1>1, <1>2, RemoveAtElements

-----------------------------------------------------------------------------
\* Each step of a job, of the service and of nobody keeps the types.
LEMMA TypeStep == TypeOK /\ Stages /\ [Next]_vars => TypeOK'
<1> SUFFICES ASSUME TypeOK, Stages, [Next]_vars PROVE TypeOK'
  OBVIOUS
<1> USE Apart
<1>1. ASSUME NEW j \in Jobs, Trigger(j) PROVE TypeOK'
  BY <1>1 DEF TypeOK, Trigger, Step, Phases
<1>2. ASSUME NEW j \in Jobs, NEW l \in Labels, Setup(j, l) PROVE TypeOK'
  BY <1>2 DEF TypeOK, Setup, Step, Phases
<1>3. ASSUME NEW j \in Jobs, SetupFails(j) PROVE TypeOK'
  BY <1>3 DEF TypeOK, SetupFails, Step, Phases
<1>4. ASSUME NEW j \in Jobs, RunSuite(j) PROVE TypeOK'
  <2>1. label[j] \in Labels /\ phase' \in [Jobs -> Phases]
    BY <1>4 DEF Stages, RunSuite, Step, TypeOK, Phases
  <2>2. PICK r \in ResultsOf[label[j]] \cup {NoResult} : result' = [result EXCEPT ![j] = r]
    BY <1>4 DEF RunSuite
  <2>3. r \in Results \cup {NoResult}
    BY <2>1, <2>2
  <2> QED BY <1>4, <2>1, <2>2, <2>3 DEF TypeOK, RunSuite
<1>5. ASSUME NEW j \in Jobs, Restore(j) PROVE TypeOK'
  <2>1. last' \in [Jobs -> Jobs \cup {NoRun}]
    BY <1>5, RestoreTakes, CacheEntries DEF TypeOK
  <2> QED BY <1>5, <2>1 DEF TypeOK, Restore, Step, Phases
<1>6. ASSUME NEW j \in Jobs, Export(j) PROVE TypeOK'
  BY <1>6 DEF TypeOK, Export, Step, Phases
<1>7. ASSUME NEW j \in Jobs, DiffFiles(j) PROVE TypeOK'
  BY <1>7 DEF TypeOK, DiffFiles, Step, Phases
<1>8. ASSUME NEW j \in Jobs, Keep(j) PROVE TypeOK'
  <2>1. finished \in Seq(Jobs)
    BY DEF TypeOK
  <2>2. finished' \in Seq(Jobs)
    <3>1. Append(finished, j) \in Seq(Jobs)
      BY <2>1, AppendElements
    <3>2. finished' = Append(finished, j) \/ finished' = finished
      BY <1>8 DEF Keep
    <3> QED BY <2>1, <3>1, <3>2
  <2>3. last' = [last EXCEPT ![j] = current[j]] \/ last' = last
    BY <1>8 DEF Keep
  <2>4. last' \in [Jobs -> Jobs \cup {NoRun}]
    <3>1. last \in [Jobs -> Jobs \cup {NoRun}] /\ current[j] \in Jobs \cup {NoRun}
      BY DEF TypeOK
    <3> QED BY <2>3, <3>1
  <2>5. phase' \in [Jobs -> Phases]
    BY <1>8 DEF TypeOK, Keep, Step, Phases
  <2> QED BY <1>8, <2>2, <2>4, <2>5 DEF TypeOK, Keep
<1>9. ASSUME NEW j \in Jobs, Save(j) PROVE TypeOK'
  <2>1. [ref |-> ref[j], label |-> label[j], run |-> last[j]] \in Entries
    BY <1>9 DEF TypeOK, Save, Entries
  <2>2. cache' \in Seq(Entries)
    BY <1>9, <2>1, AppendElements DEF TypeOK, Save
  <2> QED BY <1>9, <2>2 DEF TypeOK, Save, Leave, Phases
<1>10. ASSUME NEW j \in Jobs, SaveNothing(j) PROVE TypeOK'
  BY <1>10 DEF TypeOK, SaveNothing, Leave, Phases
<1>11. ASSUME NEW j \in Jobs, LoseRunner(j) PROVE TypeOK'
  BY <1>11 DEF TypeOK, LoseRunner, Leave, Phases
<1>12. CASE Evict
  BY <1>12, EvictKeeps DEF TypeOK, Evict, local
<1>13. CASE UNCHANGED vars
  BY <1>13 DEF TypeOK, vars, local
<1> QED BY <1>1, <1>2, <1>3, <1>4, <1>5, <1>6, <1>7, <1>8, <1>9, <1>10, <1>11, <1>12, <1>13
        DEF Next, JobStep, Over

\* What is there after a step comes from where Origins says.
LEMMA StepOrigins == TypeOK /\ Stages /\ [Next]_vars => Origins
<1> SUFFICES ASSUME TypeOK, Stages, [Next]_vars PROVE Origins
  OBVIOUS
<1> USE DEF Origins, ResultsStay, CacheFrom, LastFrom, AgainstFrom, FinishedFrom
<1>1. ASSUME NEW j \in Jobs, Trigger(j) PROVE Origins
  BY <1>1 DEF TypeOK, Trigger
<1>2. ASSUME NEW j \in Jobs, NEW l \in Labels, Setup(j, l) PROVE Origins
  BY <1>2 DEF TypeOK, Setup
<1>3. ASSUME NEW j \in Jobs, SetupFails(j) PROVE Origins
  BY <1>3 DEF TypeOK, SetupFails
<1>4. ASSUME NEW j \in Jobs, RunSuite(j) PROVE Origins
  <2>1. ResultsStay
    BY <1>4 DEF TypeOK, RunSuite, Stages, Step
  <2> QED BY <1>4, <2>1 DEF TypeOK, RunSuite
<1>5. ASSUME NEW j \in Jobs, Restore(j) PROVE Origins
  <2>1. LastFrom
    BY <1>5, RestoreTakes DEF TypeOK
  <2> QED BY <1>5, <2>1 DEF TypeOK, Restore
<1>6. ASSUME NEW j \in Jobs, Export(j) PROVE Origins
  BY <1>6 DEF TypeOK, Export
<1>7. ASSUME NEW j \in Jobs, DiffFiles(j) PROVE Origins
  <2>1. AgainstFrom
    BY <1>7 DEF TypeOK, DiffFiles, Step
  <2> QED BY <1>7, <2>1 DEF TypeOK, DiffFiles
<1>8. ASSUME NEW j \in Jobs, Keep(j) PROVE Origins
  <2>1. LastFrom
    <3>1. CASE current[j] = NoRun
      BY <1>8, <3>1 DEF Keep
    <3>2. CASE current[j] # NoRun
      <4>1. /\ last' = [last EXCEPT ![j] = current[j]]
            /\ finished' = Append(finished, j)
            /\ phase[j] = "keep"
        BY <1>8, <3>2 DEF Keep, Step
      <4> QED BY <3>2, <4>1 DEF TypeOK
    <3> QED BY <3>1, <3>2
  <2>2. FinishedFrom
    BY <1>8 DEF Keep, Step
  <2> QED BY <1>8, <2>1, <2>2 DEF TypeOK, Keep
<1>9. ASSUME NEW j \in Jobs, Save(j) PROVE Origins
  <2> DEFINE x == [ref |-> ref[j], label |-> label[j], run |-> last[j]]
  <2>1. x \in Entries
    BY <1>9 DEF TypeOK, Save, Entries
  <2>2. cache' = Append(cache, x) /\ last[j] # NoRun
    BY <1>9 DEF Save
  <2>3. cache \in Seq(Entries)
    BY DEF TypeOK
  <2>4. /\ Len(cache) \in Nat /\ DOMAIN cache = 1..Len(cache)
        /\ DOMAIN cache' = 1..(Len(cache) + 1)
        /\ \A i \in 1..Len(cache) : cache'[i] = cache[i]
        /\ cache'[Len(cache) + 1] = x
    BY <2>1, <2>2, <2>3, AppendElements
  <2>5. CacheFrom
    <3> SUFFICES ASSUME NEW i \in DOMAIN cache'
                 PROVE  (\E m \in DOMAIN cache : cache'[i] = cache[m]) \/ cache'[i] = x
      BY <2>2 DEF CacheFrom
    <3>1. i \in 1..Len(cache) \/ i = Len(cache) + 1
      BY <2>4
    <3> QED BY <3>1, <2>4
  <2> QED BY <1>9, <2>5 DEF TypeOK, Save, Leave
<1>10. ASSUME NEW j \in Jobs, SaveNothing(j) PROVE Origins
  BY <1>10 DEF TypeOK, SaveNothing, Leave
<1>11. ASSUME NEW j \in Jobs, LoseRunner(j) PROVE Origins
  BY <1>11 DEF TypeOK, LoseRunner, Leave
<1>12. CASE Evict
  BY <1>12, EvictKeeps DEF TypeOK, Evict, local
<1>13. CASE UNCHANGED vars
  BY <1>13 DEF TypeOK, vars, local
<1> QED BY <1>1, <1>2, <1>3, <1>4, <1>5, <1>6, <1>7, <1>8, <1>9, <1>10, <1>11, <1>12, <1>13
        DEF Next, JobStep, Over

-----------------------------------------------------------------------------
\* What has been kept stays kept.
LEMMA KeptGrows ==
  ASSUME TypeOK, FinishedFrom, NEW run, KeptIn(finished, run)
  PROVE  KeptIn(finished', run)
<1>1. finished \in Seq(Jobs)
  BY DEF TypeOK
<1>2. PICK i \in DOMAIN finished : finished[i] = run
  BY DEF KeptIn
<1>3. CASE finished' = finished
  BY <1>2, <1>3 DEF KeptIn
<1>4. ASSUME NEW j \in Jobs, finished' = Append(finished, j) PROVE KeptIn(finished', run)
  <2>1. i \in DOMAIN finished' /\ finished'[i] = finished[i]
    BY <1>1, <1>2, <1>4
  <2> QED BY <1>2, <2>1 DEF KeptIn
<1> QED BY <1>3, <1>4 DEF FinishedFrom

\* Only the step that leaves "keep" keeps a job's run.
LEMMA KeptByKeep ==
  ASSUME TypeOK, FinishedFrom, NEW run, KeptIn(finished', run), ~KeptIn(finished, run)
  PROVE  /\ run \in Jobs /\ phase[run] = "keep" /\ phase' = [phase EXCEPT ![run] = "save"]
         /\ finished' = Append(finished, run)
<1>1. finished \in Seq(Jobs)
  BY DEF TypeOK
<1>2. PICK i \in DOMAIN finished' : finished'[i] = run
  BY DEF KeptIn
<1>3. finished' # finished
  BY <1>2 DEF KeptIn
<1>4. PICK j \in Jobs : /\ phase[j] = "keep" /\ phase' = [phase EXCEPT ![j] = "save"]
                        /\ finished' = Append(finished, j)
  BY <1>3 DEF FinishedFrom
<1>5. /\ Len(finished) \in Nat /\ DOMAIN finished = 1..Len(finished)
      /\ DOMAIN finished' = 1..(Len(finished) + 1)
      /\ \A k \in 1..Len(finished) : finished'[k] = finished[k]
      /\ finished'[Len(finished) + 1] = j
  BY <1>1, <1>4, AppendElements
<1>6. CASE i \in 1..Len(finished)
  BY <1>2, <1>5, <1>6 DEF KeptIn
<1>7. CASE i = Len(finished) + 1
  BY <1>2, <1>4, <1>5, <1>7
<1> QED BY <1>2, <1>5, <1>6, <1>7

\* Every baseline is one some job has kept.
LEMMA KeptStep ==
  TypeOK /\ Stages /\ BaselinesAreKept /\ [Next]_vars => BaselinesAreKept'
<1> SUFFICES ASSUME TypeOK, Stages, BaselinesAreKept, [Next]_vars PROVE BaselinesAreKept'
  OBVIOUS
<1>1. /\ CacheFrom /\ LastFrom /\ FinishedFrom
  BY StepOrigins DEF Origins
<1>2. ASSUME NEW i \in DOMAIN cache' PROVE KeptIn(finished', cache'[i].run)
  <2>1. CASE \E m \in DOMAIN cache : cache'[i] = cache[m]
    BY <1>1, <2>1, KeptGrows DEF BaselinesAreKept
  <2>2. CASE \E j \in Jobs : /\ last[j] # NoRun
                             /\ cache'[i] = [ref |-> ref[j], label |-> label[j], run |-> last[j]]
    BY <1>1, <2>2, KeptGrows DEF BaselinesAreKept
  <2> QED BY <1>1, <2>1, <2>2 DEF CacheFrom
<1>3. ASSUME NEW j \in Jobs, last'[j] # NoRun PROVE KeptIn(finished', last'[j])
  <2>1. CASE last'[j] = last[j]
    BY <1>1, <1>3, <2>1, KeptGrows DEF BaselinesAreKept
  <2>2. CASE \E i \in DOMAIN cache : last'[j] = cache[i].run
    BY <1>1, <2>2, KeptGrows DEF BaselinesAreKept
  <2>3. CASE /\ current[j] # NoRun /\ last'[j] = current[j]
             /\ finished' = Append(finished, j)
    <3>1. last'[j] = j
      BY <2>3 DEF Stages
    <3>2. finished \in Seq(Jobs)
      BY DEF TypeOK
    <3>3. Len(finished) + 1 \in DOMAIN finished' /\ finished'[Len(finished) + 1] = j
      BY <2>3, <3>2, AppendElements
    <3> QED BY <3>1, <3>3 DEF KeptIn
  <2> QED BY <1>1, <1>3, <2>1, <2>2, <2>3 DEF LastFrom
<1> QED BY <1>2, <1>3 DEF BaselinesAreKept

\* Every baseline is a run of its branch.
LEMMA RefStep ==
  TypeOK /\ Stages /\ BaselinesAreRunsOfTheRef /\ [Next]_vars => BaselinesAreRunsOfTheRef'
<1> SUFFICES ASSUME TypeOK, Stages, BaselinesAreRunsOfTheRef, [Next]_vars
             PROVE  BaselinesAreRunsOfTheRef'
  OBVIOUS
<1>1. ResultsStay /\ CacheFrom /\ LastFrom /\ AgainstFrom
  BY StepOrigins DEF Origins
<1>2. ASSUME NEW run \in Jobs, result[run] # NoResult PROVE result'[run] # NoResult /\ ref'[run] = ref[run]
  BY <1>1, <1>2 DEF ResultsStay
<1>3. ASSUME NEW i \in DOMAIN cache' PROVE result'[cache'[i].run] # NoResult /\ ref'[cache'[i].run] = cache'[i].ref
  <2>1. CASE \E m \in DOMAIN cache : cache'[i] = cache[m]
    BY <1>2, <2>1, CacheEntries DEF BaselinesAreRunsOfTheRef, IsRunOf
  <2>2. ASSUME NEW j \in Jobs, last[j] # NoRun,
               cache'[i] = [ref |-> ref[j], label |-> label[j], run |-> last[j]]
        PROVE  result'[cache'[i].run] # NoResult /\ ref'[cache'[i].run] = cache'[i].ref
    <3>1. last[j] \in Jobs /\ result[last[j]] # NoResult /\ ref[last[j]] = ref[j]
      BY <2>2 DEF TypeOK, BaselinesAreRunsOfTheRef, IsRunOf
    <3> QED BY <1>2, <2>2, <3>1
  <2> QED BY <1>1, <2>1, <2>2 DEF CacheFrom
<1>4. ASSUME NEW j \in Jobs, last'[j] # NoRun PROVE result'[last'[j]] # NoResult /\ ref'[last'[j]] = ref'[j]
  <2>1. CASE last'[j] = last[j]
    <3>1. last[j] \in Jobs /\ result[last[j]] # NoResult /\ ref[last[j]] = ref[j]
      BY <1>4, <2>1 DEF TypeOK, BaselinesAreRunsOfTheRef, IsRunOf
    <3> QED BY <1>1, <1>2, <2>1, <3>1 DEF ResultsStay
  <2>2. ASSUME NEW i \in DOMAIN cache, cache[i].ref = ref[j], last'[j] = cache[i].run
        PROVE  result'[last'[j]] # NoResult /\ ref'[last'[j]] = ref'[j]
    <3>1. last'[j] \in Jobs /\ result[last'[j]] # NoResult /\ ref[last'[j]] = ref[j]
      BY <2>2, CacheEntries DEF BaselinesAreRunsOfTheRef, IsRunOf
    <3> QED BY <1>1, <1>2, <3>1 DEF ResultsStay
  <2>3. CASE phase[j] = "keep" /\ current[j] # NoRun /\ last'[j] = current[j]
    <3>1. last'[j] = j /\ result[j] # NoResult
      BY <2>3 DEF Stages
    <3> QED BY <1>1, <3>1 DEF ResultsStay, IsRunOf
  <2> QED BY <1>1, <1>4, <2>1, <2>2, <2>3 DEF LastFrom
<1>5. ASSUME NEW j \in Jobs, against'[j] # NoRun PROVE result'[against'[j]] # NoResult /\ ref'[against'[j]] = ref'[j]
  <2>1. against'[j] = against[j] \/ against'[j] = last[j]
    BY <1>1, <1>5 DEF AgainstFrom
  <2>2. against'[j] \in Jobs /\ result[against'[j]] # NoResult /\ ref[against'[j]] = ref[j]
    BY <1>5, <2>1 DEF TypeOK, BaselinesAreRunsOfTheRef, IsRunOf
  <2> QED BY <1>1, <1>2, <2>2 DEF ResultsStay
<1> QED BY <1>3, <1>4, <1>5 DEF BaselinesAreRunsOfTheRef, IsRunOf

\* No job is compared with a run that was kept after its own.
LEMMA EarlierStep ==
  TypeOK /\ Stages /\ BaselinesAreKept /\ BaselinesAreEarlier /\ [Next]_vars => BaselinesAreEarlier'
<1> SUFFICES ASSUME TypeOK, Stages, BaselinesAreKept, BaselinesAreEarlier, [Next]_vars,
                    NEW j \in Jobs, against'[j] # NoRun
             PROVE  \E i \in DOMAIN finished' : /\ finished'[i] = against'[j]
                                               /\ \A k \in 1..i : finished'[k] # j
  BY DEF BaselinesAreEarlier
<1>1. AgainstFrom /\ FinishedFrom
  BY StepOrigins DEF Origins
<1>2. finished \in Seq(Jobs)
  BY DEF TypeOK
<1>3. PICK i \in DOMAIN finished : /\ finished[i] = against'[j]
                                   /\ \A k \in 1..i : finished[k] # j
  <2>1. CASE against'[j] = against[j]
    BY <2>1 DEF BaselinesAreEarlier
  <2>2. CASE phase[j] = "diff" /\ against'[j] = last[j]
    <3>1. ~KeptIn(finished, j) /\ KeptIn(finished, last[j])
      BY <2>2 DEF Stages, BaselinesAreKept
    <3>2. PICK n \in DOMAIN finished : finished[n] = last[j]
      BY <3>1 DEF KeptIn
    <3>3. \A k \in 1..n : k \in DOMAIN finished
      BY <1>2, <3>2
    <3> QED BY <2>2, <3>1, <3>2, <3>3 DEF KeptIn
  <2> QED BY <1>1, <2>1, <2>2 DEF AgainstFrom
<1>4. CASE finished' = finished
  BY <1>3, <1>4
<1>5. ASSUME NEW m \in Jobs, finished' = Append(finished, m)
      PROVE  i \in DOMAIN finished' /\ \A k \in 1..i : finished'[k] = finished[k]
  BY <1>2, <1>3, <1>5
<1>6. i \in 1..i
  BY <1>2, <1>3
<1> QED BY <1>1, <1>3, <1>4, <1>5, <1>6 DEF FinishedFrom

-----------------------------------------------------------------------------
\* What a job has at each step is what its steps before it left.
LEMMA StagesStep ==
  TypeOK /\ Stages /\ [Next]_vars => Stages'
<1> SUFFICES ASSUME TypeOK, Stages, [Next]_vars PROVE Stages'
  OBVIOUS
<1> USE Apart
<1>1. FinishedFrom
  BY StepOrigins DEF Origins
<1>2. TypeOK'
  BY TypeStep
<1> DEFINE Early == {"idle", "setup", "run", "restore", "export", "diff", "keep"}
           Fields(k) ==
      /\ phase'[k] = "run" => label'[k] \in Labels
      /\ phase'[k] \in {"idle", "setup", "run"} => result'[k] = NoResult
      /\ phase'[k] \in {"idle", "setup", "run", "restore", "export"} => current'[k] = NoRun
      /\ phase'[k] \in {"diff", "keep", "save"} => (current'[k] = k <=> result'[k] # NoResult)
      /\ current'[k] \in {NoRun, k}
      /\ phase'[k] \in {"idle", "setup", "run", "restore", "export", "diff"} => against'[k] = NoRun
      /\ phase'[k] \in Early => phase[k] \in Early
<1>3. ASSUME NEW k \in Jobs PROVE Fields(k)
  <2>1. ASSUME NEW j \in Jobs, Trigger(j) PROVE Fields(k)
    BY <2>1 DEF TypeOK, Stages, Trigger, Step
  <2>2. ASSUME NEW j \in Jobs, NEW l \in Labels, Setup(j, l) PROVE Fields(k)
    BY <2>2 DEF TypeOK, Stages, Setup, Step
  <2>3. ASSUME NEW j \in Jobs, SetupFails(j) PROVE Fields(k)
    BY <2>3 DEF TypeOK, Stages, SetupFails, Step
  <2>4. ASSUME NEW j \in Jobs, RunSuite(j) PROVE Fields(k)
    BY <2>4 DEF TypeOK, Stages, RunSuite, Step
  <2>5. ASSUME NEW j \in Jobs, Restore(j) PROVE Fields(k)
    BY <2>5 DEF TypeOK, Stages, Restore, Step
  <2>6. ASSUME NEW j \in Jobs, Export(j) PROVE Fields(k)
    BY <2>6 DEF TypeOK, Stages, Export, Step
  <2>7. ASSUME NEW j \in Jobs, DiffFiles(j) PROVE Fields(k)
    BY <2>7 DEF TypeOK, Stages, DiffFiles, Step
  <2>8. ASSUME NEW j \in Jobs, Keep(j) PROVE Fields(k)
    BY <2>8 DEF TypeOK, Stages, Keep, Step
  <2>9. ASSUME NEW j \in Jobs, Save(j) \/ SaveNothing(j) PROVE Fields(k)
    BY <2>9 DEF TypeOK, Stages, Save, SaveNothing, Leave
  <2>10. ASSUME NEW j \in Jobs, LoseRunner(j) PROVE Fields(k)
    BY <2>10 DEF TypeOK, Stages, LoseRunner, Leave
  <2>11. CASE Evict
    BY <2>11 DEF Stages, Evict, local
  <2>12. CASE UNCHANGED vars
    BY <2>12 DEF Stages, vars, local
  <2> HIDE DEF Fields
  <2> QED BY <2>1, <2>2, <2>3, <2>4, <2>5, <2>6, <2>7, <2>8, <2>9, <2>10, <2>11, <2>12
          DEF Next, JobStep, Over
<1>4. ASSUME NEW k \in Jobs,
             phase'[k] \in {"idle", "setup", "run", "restore", "export", "diff", "keep"}
      PROVE  ~KeptIn(finished', k)
  <2>1. phase[k] \in Early
    BY <1>3, <1>4
  <2>2. ~KeptIn(finished, k)
    BY <2>1 DEF Stages
  <2> SUFFICES ASSUME KeptIn(finished', k) PROVE FALSE
    OBVIOUS
  <2>3. phase' = [phase EXCEPT ![k] = "save"]
    BY <1>1, <2>2, KeptByKeep
  <2> QED BY <1>4, <2>3 DEF TypeOK
<1> QED BY <1>3, <1>4 DEF Stages

\* A summary has a diff exactly if both runs were there when it was made.
LEMMA SummaryStep ==
  TypeOK /\ Stages /\ EveryResultIsSummarised /\ [Next]_vars => EveryResultIsSummarised'
<1> SUFFICES ASSUME TypeOK, Stages, EveryResultIsSummarised, [Next]_vars,
                    NEW k \in Jobs, phase'[k] \in {"keep", "save", "ended"}
             PROVE  /\ result'[k] # NoResult <=> summary'[k] \in {"first", "diff"}
                    /\ against'[k] # NoRun <=> summary'[k] = "diff"
  BY DEF EveryResultIsSummarised
<1> USE Apart
<1>1. CASE DiffFiles(k)
  BY <1>1 DEF TypeOK, Stages, DiffFiles, Step
<1>2. CASE ~DiffFiles(k)
  <2> DEFINE Same == /\ phase[k] \in {"keep", "save", "ended"}
                     /\ result'[k] = result[k] /\ summary'[k] = summary[k] /\ against'[k] = against[k]
  <2>1. ASSUME NEW j \in Jobs, Trigger(j) PROVE Same
    BY <2>1 DEF TypeOK, Trigger, Step
  <2>2. ASSUME NEW j \in Jobs, NEW l \in Labels, Setup(j, l) PROVE Same
    BY <2>2 DEF TypeOK, Setup, Step
  <2>3. ASSUME NEW j \in Jobs, SetupFails(j) PROVE Same
    BY <2>3 DEF TypeOK, SetupFails, Step
  <2>4. ASSUME NEW j \in Jobs, RunSuite(j) PROVE Same
    BY <2>4 DEF TypeOK, RunSuite, Step
  <2>5. ASSUME NEW j \in Jobs, Restore(j) PROVE Same
    BY <2>5 DEF TypeOK, Restore, Step
  <2>6. ASSUME NEW j \in Jobs, Export(j) PROVE Same
    BY <2>6 DEF TypeOK, Export, Step
  <2>7. ASSUME NEW j \in Jobs, DiffFiles(j) PROVE Same
    <3>1. j # k
      BY <1>2, <2>7
    <3> QED BY <2>7, <3>1 DEF TypeOK, DiffFiles, Step
  <2>8. ASSUME NEW j \in Jobs, Keep(j) PROVE Same
    BY <2>8 DEF TypeOK, Keep, Step
  <2>9. ASSUME NEW j \in Jobs, Save(j) \/ SaveNothing(j) PROVE Same
    BY <2>9 DEF TypeOK, Save, SaveNothing, Leave
  <2>10. ASSUME NEW j \in Jobs, LoseRunner(j) PROVE Same
    BY <2>10 DEF TypeOK, LoseRunner, Leave
  <2>11. ASSUME Evict PROVE Same
    BY <2>11 DEF Evict, local
  <2>12. ASSUME UNCHANGED vars PROVE Same
    BY <2>12 DEF vars, local
  <2> HIDE DEF Same
  <2>13. Same
    BY <2>1, <2>2, <2>3, <2>4, <2>5, <2>6, <2>7, <2>8, <2>9, <2>10, <2>11, <2>12
       DEF Next, JobStep, Over
  <2> QED BY <2>13 DEF Same, EveryResultIsSummarised
<1> QED BY <1>1, <1>2

-----------------------------------------------------------------------------
(***************************************************************************)
(* The database of a history.                                               *)
(***************************************************************************)
\* A new database has no runs.
LEMMA EmptyDatabase ==
  /\ EmptyDb \in Databases(Jobs)
  /\ \A x \in 1..Len(EmptyDb.suite_results) : FALSE
<1>1. EmptyDb \in [suite_results : Seq(SuiteRows(Jobs)), test_results : Seq(TestRows),
                   eval_results : Seq(EvalRows)]
  BY EmptySeq DEF EmptyDb
<1>2. /\ Len(EmptyDb.suite_results) = 0 /\ Len(EmptyDb.test_results) = 0
      /\ Len(EmptyDb.eval_results) = 0
  BY EmptySeq DEF EmptyDb
<1> QED BY <1>1, <1>2 DEF Databases

\* The database after the runs of seq, and after the first i of them.
Recorded(res, seq) == FoldLeft(LAMBDA rows, j : SaveRows(rows, j, res[j]), EmptyDb, seq)

RecordsBy(h, n, seq, res) ==
  /\ h \in [0..n -> Databases(Jobs)]
  /\ h[0] = EmptyDb
  /\ \A i \in 1..n : h[i] = SaveRows(h[i - 1], seq[i], res[seq[i]])

\* The runs are recorded one after the other.
LEMMA RecordedInOrder ==
  ASSUME NEW n \in Nat, NEW seq \in [1..n -> Jobs], NEW res,
         \A i \in 1..n : res[seq[i]] \in PipelineResults
  PROVE  \E h : RecordsBy(h, n, seq, res) /\ Recorded(res, seq) = h[n]
<1> DEFINE V == Databases(Jobs)
           Op(db, j) == SaveRows(db, j, res[j])
           F == [x \in (1..n) \X V |-> Op(x[2], seq[x[1]])]
           Loop(d, s) == IF s = {} THEN EmptyDb ELSE Op(d[s \ {Max(s)}], seq[Max(s)])
           c == CHOOSE d : d = [s \in SUBSET DOMAIN seq |-> Loop(d, s)]
<1>1. Recorded(res, seq) = c[DOMAIN seq]
  BY Zenon DEF Recorded, FoldLeft, MapThenFoldSet
<1>2. DOMAIN seq = 1..n
  OBVIOUS
<1>3. ASSUME NEW i \in 1..n, NEW v \in V PROVE F[<<i, v>>] = Op(v, seq[i]) /\ Op(v, seq[i]) \in V
  <2>1. Op(v, seq[i]) \in V
    <3> DEFINE id == seq[i]
               run == res[id]
    <3>1. id \in Jobs /\ run \in PipelineResults
      OBVIOUS
    <3> HIDE DEF id, run
    <3>2. SaveRows(v, id, run) \in Databases(Jobs)
      BY <3>1, SaveInserts
    <3> QED BY <3>2 DEF id, run
  <2>2. <<i, v>> \in (1..n) \X V
    OBVIOUS
  <2> HIDE DEF V, Op
  <2> QED BY <2>1, <2>2
<1>4. F \in [(1..n) \X V -> V] /\ EmptyDb \in V
  <2>1. EmptyDb \in V
    BY EmptyDatabase
  <2> HIDE DEF V, Op
  <2>2. \A x \in (1..n) \X V : x[1] \in 1..n /\ x[2] \in V /\ x = <<x[1], x[2]>>
    OBVIOUS
  <2> QED BY <1>3, <2>1, <2>2
<1> HIDE DEF V, Op, F
<1>5. PICK g \in [SUBSET (1..n) -> V] : FoldsBy(g, n, EmptyDb, F)
  BY <1>4, FoldExists
<1>6. \A s \in SUBSET (1..n) : g[s] = Loop(g, s)
  <2> SUFFICES ASSUME NEW s \in SUBSET (1..n), s # {} PROVE g[s] = Loop(g, s)
    BY <1>5 DEF FoldsBy
  <2>1. Max(s) \in 1..n /\ s \ {Max(s)} \in SUBSET (1..n)
    BY MaxOfPlaces
  <2>2. g[s \ {Max(s)}] \in V /\ g[s] = F[<<Max(s), g[s \ {Max(s)}]>>]
    BY <1>5, <2>1 DEF FoldsBy
  <2> QED BY <1>3, <2>1, <2>2
<1>7. g = [s \in SUBSET DOMAIN seq |-> Loop(g, s)]
  <2> HIDE DEF Loop
  <2> QED BY <1>2, <1>5, <1>6
<1>8. c = [s \in SUBSET DOMAIN seq |-> Loop(c, s)]
  <2> HIDE DEF Loop
  <2> QED BY <1>7
<1> HIDE DEF c
<1>9. \A s \in SUBSET (1..n) : c[s] = Loop(c, s)
  <2> HIDE DEF Loop
  <2> QED BY <1>2, <1>8
<1>10. c[{}] = EmptyDb
  BY <1>9
<1>11. ASSUME NEW s \in SUBSET (1..n), s # {}, c[s \ {Max(s)}] \in V
       PROVE  c[s] = F[<<Max(s), c[s \ {Max(s)}]>>]
  <2>1. Max(s) \in 1..n
    BY <1>11, MaxOfPlaces
  <2>2. c[s] = Op(c[s \ {Max(s)}], seq[Max(s)])
    BY <1>9, <1>11
  <2>3. F[<<Max(s), c[s \ {Max(s)}]>>] = Op(c[s \ {Max(s)}], seq[Max(s)])
    BY <1>3, <1>11, <2>1
  <2> QED BY <2>2, <2>3
<1>12. PICK h : LoopsBy(h, n, V, EmptyDb, F) /\ c[1..n] = h[n]
  <2>1. \A s \in SUBSET (1..n) : s # {} /\ c[s \ {Max(s)}] \in V
          => c[s] = F[<<Max(s), c[s \ {Max(s)}]>>]
    BY <1>11
  <2>2. FoldsOn(V, c, n, EmptyDb, F)
    BY <1>4, <1>10, <2>1 DEF FoldsOn
  <2> QED BY <1>4, <2>2, FoldIsLoop
<1>13. ASSUME NEW i \in 1..n PROVE h[i] = Op(h[i - 1], seq[i])
  <2>1. h[i - 1] \in V /\ h[i] = F[<<i, h[i - 1]>>]
    BY <1>12 DEF LoopsBy
  <2> QED BY <1>3, <2>1
<1>14. RecordsBy(h, n, seq, res)
  BY <1>12, <1>13 DEF RecordsBy, LoopsBy, Op, V
<1> QED BY <1>1, <1>2, <1>12, <1>14

\* Recorded under ids that differ, each run is loaded as it was.
LEMMA RecordedRunsAreLoaded ==
  ASSUME NEW n \in Nat, NEW seq \in [1..n -> Jobs], NEW res,
         \A i \in 1..n : res[seq[i]] \in PipelineResults,
         \A i, k \in 1..n : seq[i] = seq[k] => i = k
  PROVE  \A i \in 1..n : LoadRun(Recorded(res, seq), seq[i]) = res[seq[i]]
<1>1. PICK h : RecordsBy(h, n, seq, res) /\ Recorded(res, seq) = h[n]
  BY RecordedInOrder
<1> DEFINE Known(k) == \A x \in 1..Len(h[k].suite_results) :
                         \E i \in 1..k : h[k].suite_results[x].run_id = seq[i]
           Kept(k) == \A i \in 1..k : LoadRun(h[k], seq[i]) = res[seq[i]]
           N == {k \in Nat : k <= n => Known(k) /\ Kept(k)}
<1>2. 0 \in N
  <2>1. h[0] = EmptyDb
    BY <1>1 DEF RecordsBy
  <2>2. Known(0)
    BY <2>1, EmptyDatabase
  <2> QED BY <2>2
<1>3. ASSUME NEW k \in Nat, k \in N PROVE k + 1 \in N
  <2> SUFFICES ASSUME k + 1 <= n PROVE Known(k + 1) /\ Kept(k + 1)
    OBVIOUS
  <2> DEFINE db == h[k]
             new == h[k + 1]
             id == seq[k + 1]
             run == res[id]
  <2>1. Known(k) /\ Kept(k)
    BY <1>3
  <2>2. /\ db \in Databases(Jobs) /\ new = SaveRows(db, id, run)
        /\ id \in Jobs /\ run \in PipelineResults
    <3>1. k + 1 \in 1..n /\ (k + 1) - 1 = k /\ k \in 0..n
      OBVIOUS
    <3>2. h[k + 1] = SaveRows(h[k], seq[k + 1], res[seq[k + 1]]) /\ h[k] \in Databases(Jobs)
      BY <1>1, <3>1 DEF RecordsBy
    <3> QED BY <3>1, <3>2
  <2>3. \A i \in 1..k : seq[i] # id
    <3>1. \A i \in 1..k : i \in 1..n /\ k + 1 \in 1..n /\ i # k + 1
      OBVIOUS
    <3> QED BY <3>1
  <2>4. \A x \in 1..Len(db.suite_results) : db.suite_results[x].run_id # id
    <3> HIDE DEF id
    <3> QED BY <2>1, <2>3
  <2> HIDE DEF db, new, id, run
  <2>5. /\ LoadRun(new, id) = run
        /\ \A other : other # id => LoadRun(new, other) = LoadRun(db, other)
    BY <2>2, <2>4, LoadsWhatWasSaved, LoadsOthers
  <2>6. \A x \in 1..Len(new.suite_results) :
          \/ new.suite_results[x].run_id = id
          \/ \E y \in 1..Len(db.suite_results) :
               new.suite_results[x].run_id = db.suite_results[y].run_id
    BY <2>2, RunsOnRecord
  <2>7. \A i \in 1..(k + 1) : i \in 1..k \/ i = k + 1
    OBVIOUS
  <2>8. k + 1 \in 1..(k + 1) /\ \A i \in 1..k : i \in 1..(k + 1)
    OBVIOUS
  <2>9. Known(k + 1)
    <3> SUFFICES ASSUME NEW x \in 1..Len(new.suite_results)
                 PROVE  \E i \in 1..(k + 1) : new.suite_results[x].run_id = seq[i]
      BY DEF new
    <3>1. CASE new.suite_results[x].run_id = id
      BY <2>8, <3>1 DEF id
    <3>2. ASSUME NEW y \in 1..Len(db.suite_results),
                 new.suite_results[x].run_id = db.suite_results[y].run_id
          PROVE  \E i \in 1..(k + 1) : new.suite_results[x].run_id = seq[i]
      <4>1. PICK i \in 1..k : db.suite_results[y].run_id = seq[i]
        BY <2>1 DEF db
      <4> QED BY <2>8, <3>2, <4>1
    <3> QED BY <2>6, <3>1, <3>2
  <2>10. Kept(k + 1)
    <3> SUFFICES ASSUME NEW i \in 1..(k + 1) PROVE LoadRun(new, seq[i]) = res[seq[i]]
      BY DEF new
    <3>1. CASE i = k + 1
      BY <2>5, <3>1 DEF id, run
    <3>2. CASE i \in 1..k
      <4>1. LoadRun(db, seq[i]) = res[seq[i]]
        BY <2>1, <3>2 DEF db
      <4> QED BY <2>3, <2>5, <3>2, <4>1
    <3> QED BY <2>7, <3>1, <3>2
  <2> QED BY <2>9, <2>10
<1>4. n \in N
  <2> HIDE DEF N
  <2> QED BY <1>2, <1>3, NatSet
<1>5. Kept(n)
  <2> HIDE DEF Known, Kept
  <2> QED BY <1>4
<1> QED BY <1>1, <1>5

-----------------------------------------------------------------------------
\* No run is kept twice.
LEMMA OnceStep ==
  TypeOK /\ Stages /\ KeptOnce /\ [Next]_vars => KeptOnce'
<1> SUFFICES ASSUME TypeOK, Stages, KeptOnce, [Next]_vars PROVE KeptOnce'
  OBVIOUS
<1>1. ResultsStay /\ FinishedFrom
  BY StepOrigins DEF Origins
<1>2. finished \in Seq(Jobs) /\ \A i \in DOMAIN finished : finished[i] \in Jobs
  <2>1. finished \in Seq(Jobs)
    BY DEF TypeOK
  <2> QED BY <2>1
<1>3. \A j \in Jobs : result[j] # NoResult => result'[j] # NoResult
  BY <1>1 DEF ResultsStay
<1>4. CASE finished' = finished
  BY <1>2, <1>3, <1>4 DEF KeptOnce
<1>5. ASSUME NEW j \in Jobs, phase[j] = "keep", current[j] # NoRun, finished' = Append(finished, j)
      PROVE  KeptOnce'
  <2>1. \A i \in DOMAIN finished : finished[i] # j
    BY <1>5 DEF Stages, KeptIn
  <2>2. result'[j] # NoResult
    BY <1>3, <1>5 DEF Stages
  <2> DEFINE n == Len(finished)
  <2>3. /\ n \in Nat /\ DOMAIN finished = 1..n /\ DOMAIN finished' = 1..(n + 1)
        /\ \A i \in 1..n : finished'[i] = finished[i]
        /\ finished'[n + 1] = j
    BY <1>2, <1>5, AppendElements
  <2> HIDE DEF n
  <2>4. \A i \in 1..(n + 1) : i \in 1..n \/ i = n + 1
    BY <2>3
  <2>5. ASSUME NEW i \in DOMAIN finished', NEW k \in DOMAIN finished', finished'[i] = finished'[k]
        PROVE  i = k
    <3>1. CASE i \in 1..n /\ k \in 1..n
      BY <2>3, <2>5, <3>1 DEF KeptOnce
    <3>2. CASE i \in 1..n /\ k = n + 1
      BY <2>1, <2>3, <2>5, <3>2
    <3>3. CASE i = n + 1 /\ k \in 1..n
      BY <2>1, <2>3, <2>5, <3>3
    <3> QED BY <2>3, <2>4, <3>1, <3>2, <3>3
  <2>6. ASSUME NEW i \in DOMAIN finished' PROVE result'[finished'[i]] # NoResult
    <3>1. CASE i \in 1..n
      BY <1>2, <1>3, <2>3, <3>1 DEF KeptOnce
    <3>2. CASE i = n + 1
      BY <2>2, <2>3, <3>2
    <3> QED BY <2>3, <2>4, <3>1, <3>2
  <2> QED BY <2>5, <2>6 DEF KeptOnce
<1> QED BY <1>1, <1>4, <1>5 DEF FinishedFrom

-----------------------------------------------------------------------------
LEMMA InitIInv == Init => IInv
<1> SUFFICES ASSUME Init PROVE IInv
  OBVIOUS
<1> USE Apart
<1>1. TypeOK
  <2>1. cache \in Seq(Entries) /\ finished \in Seq(Jobs)
    <3>1. cache = << >> /\ finished = << >>
      BY DEF Init
    <3> QED BY <3>1, EmptySeq
  <2>2. phase \in [Jobs -> Phases]
    <3>1. "idle" \in Phases /\ phase = [j \in Jobs |-> "idle"]
      BY DEF Init, Phases
    <3> QED BY <3>1
  <2>3. ref \in [Jobs -> Refs]
    BY DEF Init
  <2>4. label \in [Jobs -> Labels \cup {""}]
    BY DEF Init
  <2>5. /\ last \in [Jobs -> Jobs \cup {NoRun}]
        /\ current \in [Jobs -> Jobs \cup {NoRun}]
        /\ against \in [Jobs -> Jobs \cup {NoRun}]
    BY DEF Init
  <2>6. /\ result \in [Jobs -> Results \cup {NoResult}]
        /\ summary \in [Jobs -> {"none", "first", "failed", "diff"}]
    BY DEF Init
  <2> QED BY <2>1, <2>2, <2>3, <2>4, <2>5, <2>6 DEF TypeOK
<1>2. finished = << >> /\ cache = << >>
  BY DEF Init
<1>3. \A run : ~KeptIn(finished, run)
  BY <1>2 DEF KeptIn
<1>4. \A j \in Jobs : /\ phase[j] = "idle" /\ result[j] = NoResult
                      /\ last[j] = NoRun /\ current[j] = NoRun /\ against[j] = NoRun
  BY DEF Init
<1>5. Stages
  BY <1>3, <1>4 DEF Stages
<1>6. DOMAIN cache = {}
  BY <1>2
<1>7. BaselinesAreKept /\ BaselinesAreRunsOfTheRef
  BY <1>4, <1>6 DEF BaselinesAreKept, BaselinesAreRunsOfTheRef
<1>8. BaselinesAreEarlier /\ EveryResultIsSummarised
  BY <1>4 DEF BaselinesAreEarlier, EveryResultIsSummarised
<1>9. KeptOnce
  BY <1>2 DEF KeptOnce
<1> QED BY <1>1, <1>5, <1>7, <1>8, <1>9 DEF IInv

LEMMA NextIInv == IInv /\ [Next]_vars => IInv'
BY TypeStep, StagesStep, OnceStep, KeptStep, RefStep, EarlierStep, SummaryStep DEF IInv

\* The invariant of the jobs, their baselines and the cache.
THEOREM Invariant == Spec => []IInv
BY InitIInv, NextIInv, PTL DEF Spec

\* The jobs, their files and the cache keep their types for any jobs, branches,
\* layers and results (moss-ci.yml:36-308).
THEOREM TypeCorrect == Spec => []TypeOK
BY Invariant, PTL DEF IInv

\* However many jobs run on however many branches, whatever is lost, evicted or
\* saved at once: a branch is only compared with complete runs of its own
\* (moss-ci.yml:197-200, 286-308).
THEOREM BaselinesAreOfTheRef == Spec => []BaselinesAreRunsOfTheRef
BY Invariant, PTL DEF IInv

\* No summary compares a run with itself or with one that became a baseline after
\* it (moss-ci.yml:192-252, 285-308).
THEOREM DiffsLookBack == Spec => []BaselinesAreEarlier
BY Invariant, PTL DEF IInv

\* Red or green, a job's run is in its summary exactly if it is on record, and
\* compared exactly if a baseline was found (moss-ci.yml:203-208, 226-252).
THEOREM ResultsAreSummarised == Spec => []EveryResultIsSummarised
BY Invariant, PTL DEF IInv

\* Had a job's run and its baseline come in the other order, the summary would
\* have said the opposite (diff.py:15-26).
THEOREM ReportsReverse == Spec => []ReportReverses
<1>1. ReportReverses
  BY ComparisonReverses DEF ReportReverses, Report
<1> QED BY <1>1, PTL

-----------------------------------------------------------------------------
(***************************************************************************)
(* What is on record.                                                       *)
(***************************************************************************)
\* A job's own database gives its run back as it was.
LEMMA ExportedIsRun ==
  ASSUME TypeOK, NEW j \in Jobs, result[j] # NoResult
  PROVE  result[j] \in PipelineResults /\ Exported(j) = result[j]
<1> DEFINE run == result[j]
<1>1. run \in PipelineResults
  <2>1. run \in Results
    BY DEF TypeOK
  <2> QED BY <2>1, CIAssumption
<1> HIDE DEF run
<1>2. LoadRun(SaveRows(EmptyDb, j, run), j) = run
  BY <1>1, EmptyDatabase, LoadsWhatWasSaved
<1> QED BY <1>1, <1>2 DEF run, Exported

\* A summary's diff is that of the two runs themselves.
LEMMA ReportIsOfTheRuns ==
  ASSUME TypeOK, NEW j \in Jobs, HasReport(j)
  PROVE  /\ against[j] \in Jobs
         /\ result[j] \in PipelineResults /\ result[against[j]] \in PipelineResults
         /\ Exported(j) = result[j] /\ Exported(against[j]) = result[against[j]]
         /\ Report(j) = Compare(result[j], result[against[j]])
<1>1. against[j] \in Jobs
  BY DEF TypeOK, HasReport
<1>2. /\ result[j] \in PipelineResults /\ Exported(j) = result[j]
      /\ result[against[j]] \in PipelineResults /\ Exported(against[j]) = result[against[j]]
  BY <1>1, ExportedIsRun DEF HasReport
<1> QED BY <1>1, <1>2 DEF Report

\* A history keeps every run as it was, whatever the jobs run (repository.py:13-44,
\* 86-131).
THEOREM HistoryIsKept == Spec => []HistoryKeepsRuns
<1>1. TypeOK /\ KeptOnce => HistoryKeepsRuns
  <2> SUFFICES ASSUME TypeOK, KeptOnce
               PROVE  \A i \in DOMAIN finished :
                        LoadRun(Recorded(result, finished), finished[i]) = result[finished[i]]
    BY Zenon DEF HistoryKeepsRuns, Recorded
  <2> DEFINE n == Len(finished)
  <2>1. n \in Nat /\ DOMAIN finished = 1..n /\ finished \in [1..n -> Jobs]
    <3>1. finished \in Seq(Jobs)
      BY DEF TypeOK
    <3> QED BY <3>1
  <2>2. \A i \in 1..n : result[finished[i]] \in PipelineResults
    <3>1. \A i \in 1..n : finished[i] \in Jobs /\ result[finished[i]] # NoResult
      BY <2>1 DEF KeptOnce
    <3> QED BY <3>1, ExportedIsRun
  <2>3. \A i, k \in 1..n : finished[i] = finished[k] => i = k
    BY <2>1 DEF KeptOnce
  <2> HIDE DEF n
  <2> QED BY <2>1, <2>2, <2>3, RecordedRunsAreLoaded
<1> QED BY <1>1, Invariant, PTL DEF IInv

\* What a summary reports of a test with a name of its own happened to that test in
\* the runs themselves; of shared names the report is not contradictory (diff.py:6-41).
THEOREM ReportsAreReal == Spec => []ReportedChangesAreReal
<1>1. TypeOK => ReportedChangesAreReal
  BY ReportIsOfTheRuns, ComparisonIsReal DEF ReportedChangesAreReal
<1> QED BY <1>1, Invariant, PTL DEF IInv

\* No regression of a test with a name of its own is missing (diff.py:6-16, 28-33).
THEOREM RegressionsAreSummarised == Spec => []RegressionsAreInTheSummary
<1>1. TypeOK => RegressionsAreInTheSummary
  BY ReportIsOfTheRuns, ComparisonMissesNone DEF RegressionsAreInTheSummary
<1> QED BY <1>1, Invariant, PTL DEF IInv

\* Of the runs the jobs compare, the history's diff has no failure and no fix that
\* the summary's has not, where names are keys, and all of them if tests keep their
\* suites; it has no scores (runs.py:87-108, diff.py:6-33).
THEOREM BothDiffsAgreeOnStatuses == Spec => []DiffsAgreeOnStatuses
<1>1. TypeOK => DiffsAgreeOnStatuses
  <2> SUFFICES ASSUME TypeOK, NEW j \in Jobs, HasReport(j)
               PROVE  LET b == Exported(against[j])
                          c == Exported(j)
                      IN  AgreesOnStatuses(ApiCompare(c, b), Report(j), c, b)
    BY DEF DiffsAgreeOnStatuses
  <2> DEFINE c == Exported(j)
             b == Exported(against[j])
  <2>1. c \in PipelineResults /\ b \in PipelineResults
    BY ReportIsOfTheRuns
  <2>2. Report(j) = Compare(c, b)
    BY DEF Report
  <2> HIDE DEF c, b
  <2>3. AgreesOnStatuses(ApiCompare(c, b), Compare(c, b), c, b)
    BY <2>1, ComparisonsAgree
  <2> QED BY <2>2, <2>3 DEF c, b
<1> QED BY <1>1, Invariant, PTL DEF IInv
==============================================================================
