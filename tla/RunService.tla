----------------------------- MODULE RunService -----------------------------
(***************************************************************************)
(* The run history and everybody who uses it: the API server               *)
(* (moss_ci/api/server.py, api/routes/runs.py), the commands of the CLI     *)
(* (moss_ci/cli/main.py), each a process of its own, the Database object    *)
(* each process has (moss_ci/storage/db.py) and the RunRepository           *)
(* (moss_ci/storage/repository.py) on the one SQLite file they share.       *)
(*                                                                          *)
(* A job is one HTTP request or one CLI command.  One action is what it     *)
(* does between two awaits; a database call takes effect somewhere between  *)
(* the await and its return, and SQLite (external) admits one writer at a   *)
(* time: rows is the order of the commits, and created_at, which an INSERT  *)
(* is given as it is made, is taken to follow it.  A process may be killed  *)
(* at any time: what its jobs hold in memory is lost, the file stays.       *)
(* Of a run only its id and its status are kept.                            *)
(***************************************************************************)
EXTENDS Integers, Sequences

CONSTANTS
  Jobs,      \* the requests and the commands
  Kinds,     \* what each of them may turn out to be
  RunIds,    \* the ids a run may be given: eight hex digits of a UUID
  Server,    \* names the API server's Database among those of the commands
  Lifespan   \* whether whoever serves the app runs its lifespan (uvicorn does,
             \* httpx's ASGITransport does not)

\* POST /pipelines/run; GET /runs/{id} and its sub-resources; POST
\* /runs/{id}/cancel; GET /runs/{id}/diff.
RequestKinds == {"run", "get", "cancel", "diff"}

\* moss-ci run; moss-ci export without a run id.
CommandKinds == {"cli run", "cli export"}

ASSUME RunServiceAssumption ==
  /\ Kinds \in [Jobs -> SUBSET (RequestKinds \cup CommandKinds)]
  /\ Server \notin Jobs
  /\ Lifespan \in BOOLEAN

VARIABLES
  tables,  \* whether the file has its tables
  rows,    \* the rows of table runs, oldest first
  opened,  \* the Databases whose session_factory is set
  server,  \* phase of the API server
  kind,    \* what each job is
  phase,   \* phase of each job
  runId,   \* the run each job is about
  status,  \* the status of the PipelineResult each job holds
  base     \* the run a diff compares with

vars == <<tables, rows, opened, server, kind, phase, runId, status, base>>

-----------------------------------------------------------------------------
\* A PipelineResult's status, in the order of its life.
Verdicts == {"success", "failed"}

\* Phases in which a job waits: for the engine, for its Database to be
\* initialised, for its first and for its second repository call, for the
\* session to close after a commit.
Waiting == {"engine", "creating", "using", "loaded", "saved"}

\* How a job ends: well; with 404; with what the database raised; with what
\* the engine raised; with a warning that the run was not persisted; killed.
Ended == {"done", "notFound", "noTables", "duplicate", "dbError", "raised",
          "unsaved", "lost"}

IsCommand(j) == kind[j] \in CommandKinds

\* Whose Database a job uses: get_db() is a singleton of the process.
DatabaseOf(j, k) == IF k \in CommandKinds THEN j ELSE Server

Ids == {rows[i].id : i \in DOMAIN rows}

Init ==
  /\ tables = FALSE
  /\ rows   = << >>
  /\ opened = {}
  /\ server = "down"
  /\ kind   = [j \in Jobs |-> "none"]
  /\ phase  = [j \in Jobs |-> "idle"]
  /\ runId  = [j \in Jobs |-> "none"]
  /\ status = [j \in Jobs |-> "none"]
  /\ base   = [j \in Jobs |-> "none"]

Goto(j, p) == phase' = [phase EXCEPT ![j] = p]

\* Mutated FailWith: a run that could not be saved is answered all the same.
FailWithSuccess(j, how) == Goto(j, IF kind[j] \in {"run", "cli run"} THEN "done" ELSE how)

\* A database error ends a job; only moss-ci run catches it, warns, and goes on
\* to print the results.
FailWith(j, how) == Goto(j, IF kind[j] = "cli run" THEN "unsaved" ELSE how)
-----------------------------------------------------------------------------
\* Mutated StartServer: requests are served while the tables are created.
StartServerEarly ==
  /\ server = "down"
  /\ server' = "up"
  /\ opened' = opened \cup {Server}
  /\ UNCHANGED <<tables, rows, kind, phase, runId, status, base>>

\* The API server's process starts: its lifespan initialises the Database, up to
\* the await of create_all; without a lifespan it serves at once.
StartServer ==
  /\ server = "down"
  /\ \/ /\ Lifespan
        /\ server' = "starting"
        /\ opened' = opened \cup {Server}
     \/ /\ ~Lifespan
        /\ server' = "up"
        /\ UNCHANGED opened
  /\ UNCHANGED <<tables, rows, kind, phase, runId, status, base>>

\* The lifespan has created the tables; from now on requests are served.
Serve ==
  /\ server = "starting"
  /\ tables' = TRUE
  /\ server' = "up"
  /\ UNCHANGED <<rows, opened, kind, phase, runId, status, base>>

\* The process ends: killed, shut down, or its lifespan failed.
StopServer ==
  /\ server # "down"
  /\ server' = "down"
  /\ opened' = opened \ {Server}
  /\ phase' = [j \in Jobs |-> IF ~IsCommand(j) /\ phase[j] \in Waiting
                              THEN "lost" ELSE phase[j]]
  /\ UNCHANGED <<tables, rows, kind, runId, status, base>>

\* A command is interrupted.
KillCommand(j) ==
  /\ IsCommand(j) /\ phase[j] \in Waiting
  /\ Goto(j, "lost")
  /\ UNCHANGED <<tables, rows, opened, server, kind, runId, status, base>>
-----------------------------------------------------------------------------
\* db.init() up to its first await: a Database whose session_factory is set is
\* used as it is, also while another job still creates its tables and after
\* their creation failed.
OpenDatabase(j, k) ==
  \/ /\ DatabaseOf(j, k) \in opened
     /\ Goto(j, "using")
     /\ UNCHANGED opened
  \/ /\ DatabaseOf(j, k) \notin opened
     /\ Goto(j, "creating")
     /\ opened' = opened \cup {DatabaseOf(j, k)}

\* A request or a command is made.  The others name a run; a run gets an id of its
\* own, the start of a UUID, which may have been given before (moss-ci run draws it
\* when the engine has ended, and nobody sees it before).
Arrive(j, k) ==
  /\ phase[j] = "idle"
  /\ k \in Kinds[j]
  /\ k \in RequestKinds => server = "up"
  /\ kind' = [kind EXCEPT ![j] = k]
  /\ \/ /\ k = "cli export"
        /\ UNCHANGED runId
     \/ /\ k # "cli export"
        /\ \E id \in RunIds : runId' = [runId EXCEPT ![j] = id]
  /\ \/ /\ k \in {"run", "cli run"}
        /\ Goto(j, "engine")
        /\ UNCHANGED opened
     \/ /\ k \notin {"run", "cli run"}
        /\ OpenDatabase(j, k)
  /\ UNCHANGED <<tables, rows, server, status, base>>

\* PipelineEngine.run returns.
EngineEnds(j, verdict) ==
  /\ phase[j] = "engine"
  /\ status' = [status EXCEPT ![j] = verdict]
  /\ OpenDatabase(j, kind[j])
  /\ UNCHANGED <<tables, rows, server, kind, runId, base>>

\* PipelineEngine.run raises: there is no result to save.
EngineRaises(j) ==
  /\ phase[j] = "engine"
  /\ Goto(j, "raised")
  /\ UNCHANGED <<tables, rows, opened, server, kind, runId, status, base>>

\* The rest of db.init().
CreateTables(j) ==
  /\ phase[j] = "creating"
  /\ tables' = TRUE
  /\ Goto(j, "using")
  /\ UNCHANGED <<rows, opened, server, kind, runId, status, base>>

\* A call of the database raises: locked for too long, no space, no file.
DatabaseFails(j) ==
  /\ phase[j] \in {"creating", "using", "loaded"}
  /\ FailWith(j, "dbError")
  /\ UNCHANGED <<tables, rows, opened, server, kind, runId, status, base>>

\* Mutated Insert: session.merge() in place of session.add().
InsertOrUpdate(j) ==
  /\ \/ /\ tables /\ runId[j] \notin Ids
        /\ rows' = Append(rows, [id |-> runId[j], verdict |-> status[j]])
        /\ Goto(j, "saved")
     \/ /\ tables /\ runId[j] \in Ids
        /\ rows' = [i \in DOMAIN rows |->
                      IF rows[i].id = runId[j] THEN [rows[i] EXCEPT !.verdict = status[j]]
                      ELSE rows[i]]
        /\ Goto(j, "saved")
     \/ /\ ~tables
        /\ FailWith(j, "noTables")
        /\ UNCHANGED rows
  /\ UNCHANGED <<tables, opened, server, kind, runId, status, base>>

\* RunRepository.save: one transaction with one INSERT into runs, which the
\* primary key refuses if the id is taken.
Insert(j) ==
  /\ \/ /\ tables /\ runId[j] \notin Ids
        /\ rows' = Append(rows, [id |-> runId[j], verdict |-> status[j]])
        /\ Goto(j, "saved")
     \/ /\ tables /\ runId[j] \in Ids
        /\ FailWith(j, "duplicate")
        /\ UNCHANGED rows
     \/ /\ ~tables
        /\ FailWith(j, "noTables")
        /\ UNCHANGED rows
  /\ UNCHANGED <<tables, opened, server, kind, runId, status, base>>

SaveRun(j) ==
  /\ phase[j] = "using"
  /\ kind[j] \in {"run", "cli run"}
  /\ Insert(j)

\* Mutated Load: waits for the run to be there.
LoadWaits(j) ==
  /\ phase[j] = "using"
  /\ kind[j] \in {"get", "cancel", "diff"}
  /\ \E i \in DOMAIN rows :
       /\ rows[i].id = runId[j]
       /\ status' = [status EXCEPT ![j] = IF kind[j] = "cancel" THEN "cancelled"
                                          ELSE rows[i].verdict]
  /\ Goto(j, IF kind[j] = "get" THEN "done" ELSE "loaded")
  /\ UNCHANGED <<tables, rows, opened, server, kind, runId, base>>

\* RunRepository.get, and what the handler does with the result before its next
\* await: cancel_run changes the status of its copy.
Load(j) ==
  /\ phase[j] = "using"
  /\ kind[j] \in {"get", "cancel", "diff"}
  /\ \/ /\ ~tables
        /\ FailWith(j, "noTables")
        /\ UNCHANGED status
     \/ /\ tables /\ runId[j] \notin Ids
        /\ Goto(j, "notFound")
        /\ UNCHANGED status
     \/ /\ tables
        /\ \E i \in DOMAIN rows :
             /\ rows[i].id = runId[j]
             /\ status' = [status EXCEPT ![j] = IF kind[j] = "cancel" THEN "cancelled"
                                                ELSE rows[i].verdict]
        /\ Goto(j, IF kind[j] = "get" THEN "done" ELSE "loaded")
  /\ UNCHANGED <<tables, rows, opened, server, kind, runId, base>>

\* cancel_run saves its copy.
SaveCancelled(j) ==
  /\ phase[j] = "loaded"
  /\ kind[j] = "cancel"
  /\ Insert(j)

\* diff_run lists the runs and compares with the newest one of another id.
PickBaseline(j) ==
  /\ phase[j] = "loaded"
  /\ kind[j] = "diff"
  /\ LET others == {i \in DOMAIN rows : rows[i].id # runId[j]}
     IN  \/ others = {} /\ UNCHANGED base
         \/ \E i \in others : /\ \A k \in others : k <= i
                              /\ base' = [base EXCEPT ![j] = rows[i].id]
  /\ Goto(j, "done")
  /\ UNCHANGED <<tables, rows, opened, server, kind, runId, status>>

\* moss-ci export lists the newest run and writes it to its file.
Export(j) ==
  /\ phase[j] = "using"
  /\ kind[j] = "cli export"
  /\ \/ /\ ~tables
        /\ FailWith(j, "noTables")
        /\ UNCHANGED <<runId, status>>
     \/ /\ tables /\ rows = << >>
        /\ Goto(j, "notFound")
        /\ UNCHANGED <<runId, status>>
     \/ /\ tables
        /\ \E i \in DOMAIN rows :
             /\ i = Len(rows)
             /\ runId' = [runId EXCEPT ![j] = rows[i].id]
             /\ status' = [status EXCEPT ![j] = rows[i].verdict]
        /\ Goto(j, "done")
  /\ UNCHANGED <<tables, rows, opened, server, kind, base>>

\* The session is closed after the commit and the job answers.
Answer(j) ==
  /\ phase[j] = "saved"
  /\ Goto(j, "done")
  /\ UNCHANGED <<tables, rows, opened, server, kind, runId, status, base>>

\* What a job does of its own accord, if nothing fails.
Proceed(j) ==
  \/ \E verdict \in Verdicts : EngineEnds(j, verdict)
  \/ CreateTables(j)
  \/ SaveRun(j) \/ Load(j) \/ SaveCancelled(j) \/ PickBaseline(j) \/ Export(j)
  \/ Answer(j)

Fails(j) == EngineRaises(j) \/ DatabaseFails(j) \/ KillCommand(j)

Next ==
  \/ StartServer \/ Serve \/ StopServer
  \/ \E j \in Jobs :
       (\E k \in RequestKinds \cup CommandKinds : Arrive(j, k)) \/ Proceed(j) \/ Fails(j)

Spec == Init /\ [][Next]_vars

\* The engine ends (Executor!RunEnds) and so does every call of the database.
FairSpec == Spec /\ \A j \in Jobs : WF_vars(Proceed(j))
-----------------------------------------------------------------------------
\* Type invariant of the run history and its users.
TypeOK ==
  /\ tables \in BOOLEAN
  /\ rows \in Seq([id : RunIds, verdict : Verdicts])
  /\ opened \in SUBSET (Jobs \cup {Server})
  /\ server \in {"down", "starting", "up"}
  /\ kind \in [Jobs -> RequestKinds \cup CommandKinds \cup {"none"}]
  /\ phase \in [Jobs -> {"idle"} \cup Waiting \cup Ended]
  /\ runId \in [Jobs -> RunIds \cup {"none"}]
  /\ status \in [Jobs -> Verdicts \cup {"cancelled", "none"}]
  /\ base \in [Jobs -> RunIds \cup {"none"}]

\* The row a job speaks of is on record as the job has it.
OnRecord(j) == \E i \in DOMAIN rows : rows[i] = [id |-> runId[j], verdict |-> status[j]]

\* An answer stays true: the run a client was told of, after POST
\* /pipelines/run or by any read, is on record with the status it was told of,
\* whatever runs, cancels, failures and restarts came after (runs.py:30-42,
\* repository.py:13-44).
AnswersStayTrue ==
  \A j \in Jobs : phase[j] = "done" => OnRecord(j)

\* The record holds what the engine said: every row is the verdict of a run of
\* that id that ended, also when ids collide or a cancel holds a changed copy
\* (runs.py:69-77, repository.py:42-43).
RecordedVerdictsAreTheEngines ==
  \A i \in DOMAIN rows : \E j \in Jobs :
    /\ kind[j] \in {"run", "cli run"}
    /\ phase[j] \notin {"idle", "engine", "raised"}
    /\ rows[i] = [id |-> runId[j], verdict |-> status[j]]

\* A server with a lifespan answers no request before its tables exist: neither
\* a request nor a command ever meets a file without them (server.py:7-12).
LifespanCreatesTables ==
  Lifespan => \A j \in Jobs : phase[j] # "noTables"

\* Every request and command that was made ends.
JobEnds == \A j \in Jobs : phase[j] \in Waiting ~> phase[j] \in Ended

\* The run history is append-only (repository.py:13-44).
Ledger == INSTANCE RunLedger WITH ledger <- rows
KeepsLedger == Ledger!Spec

\* db.py:17: "Idempotent: safe to call from lifespan AND from request paths".
\* A request whose db.init() has returned finds the tables.
InitIsSafeFromRequests == \A j \in Jobs : phase[j] # "noTables"
==============================================================================
