-------------------------- MODULE RunServiceProofs --------------------------
(***************************************************************************)
(* What the run history guarantees for every set of requests and commands,  *)
(* every set of ids and with or without a lifespan.  The inductive          *)
(* invariant says of each job, phase by phase, what it holds in memory and   *)
(* what is on record (JobInv).  Two facts carry it: the record only grows   *)
(* (Grows), so what was once on record stays there, and a job's memory is   *)
(* changed by its own steps only (Undisturbed).                             *)
(***************************************************************************)
EXTENDS RunService, TLAPS

Rows == [id : RunIds, verdict : Verdicts]

RunKinds == {"run", "cli run"}

JobInv(j) ==
  /\ j \in opened => phase[j] \notin {"idle", "engine"}
  /\ phase[j] # "idle" => kind[j] # "none"
  /\ phase[j] \in Waiting /\ kind[j] \in RequestKinds => server = "up"
  /\ phase[j] # "idle" /\ kind[j] # "cli export" => runId[j] \in RunIds
  /\ phase[j] = "engine" => kind[j] \in RunKinds
  /\ phase[j] \in {"creating", "using"} /\ kind[j] \in RunKinds => status[j] \in Verdicts
  /\ Lifespan /\ phase[j] \in {"using", "loaded"} => tables
  /\ Lifespan => phase[j] # "noTables"
  /\ phase[j] = "loaded" => /\ kind[j] \in {"cancel", "diff"}
                            /\ runId[j] \in Ids
                            /\ kind[j] = "diff" => OnRecord(j)
  /\ phase[j] \in {"saved", "done"} => OnRecord(j)

IInv ==
  /\ TypeOK
  /\ Lifespan /\ server = "up" => tables
  /\ \A j \in Jobs : JobInv(j)
  /\ RecordedVerdictsAreTheEngines

-----------------------------------------------------------------------------
\* The record only grows.
Grows == \A i \in DOMAIN rows : i \in DOMAIN rows' /\ rows'[i] = rows[i]

\* A job's memory and phase are as before.
Same(j) ==
  /\ kind'[j] = kind[j] /\ phase'[j] = phase[j]
  /\ runId'[j] = runId[j] /\ status'[j] = status[j]

\* A job that does not step is as good as before.
LEMMA Undisturbed ==
  ASSUME NEW j \in Jobs, JobInv(j), Same(j), Grows,
         j \in opened' => j \in opened, tables => tables',
         server = "up" => server' = "up"
  PROVE  JobInv(j)'
<1>1. OnRecord(j) => OnRecord(j)'
  BY DEF OnRecord, Same, Grows
<1>2. runId[j] \in Ids => (runId[j] \in Ids)'
  BY DEF Ids, Same, Grows
<1> QED  BY <1>1, <1>2 DEF JobInv, Same

\* A run keeps its verdict in memory as long as its row may rest on it.
Keeps(j) ==
  kind[j] \in RunKinds /\ phase[j] \notin {"idle", "engine", "raised"} =>
    /\ kind'[j] = kind[j] /\ runId'[j] = runId[j] /\ status'[j] = status[j]
    /\ phase'[j] \notin {"idle", "engine", "raised"}

\* Rows that stay as they are stay the verdicts of their runs.
LEMMA StillTheEngines ==
  ASSUME RecordedVerdictsAreTheEngines, rows' = rows, \A j \in Jobs : Keeps(j)
  PROVE  RecordedVerdictsAreTheEngines'
BY ZenonT(60) DEF RecordedVerdictsAreTheEngines, Keeps, RunKinds

\* A row is a record of an id and a verdict.
LEMMA RowFacts ==
  ASSUME rows \in Seq(Rows), NEW i \in DOMAIN rows
  PROVE  rows[i] \in Rows /\ rows[i] = [id |-> rows[i].id, verdict |-> rows[i].verdict]
<1>1. rows[i] \in Rows
  OBVIOUS
<1> QED  BY <1>1 DEF Rows

\* Adding a row at the end.
LEMMA AppendFacts ==
  ASSUME NEW r \in Rows, rows \in Seq(Rows), rows' = Append(rows, r)
  PROVE  /\ rows' \in Seq(Rows) /\ Grows
         /\ \E i \in DOMAIN rows' : rows'[i] = r
         /\ \A i \in DOMAIN rows' : i \in DOMAIN rows \/ rows'[i] = r
<1>1. /\ Len(rows') = Len(rows) + 1 /\ Len(rows) \in Nat
      /\ DOMAIN rows = 1..Len(rows) /\ DOMAIN rows' = 1..Len(rows')
      /\ rows'[Len(rows) + 1] = r /\ \A i \in 1..Len(rows) : rows'[i] = rows[i]
  OBVIOUS
<1>2. Len(rows) + 1 \in DOMAIN rows'
  BY <1>1
<1>3. \A i \in DOMAIN rows' : i \in DOMAIN rows \/ i = Len(rows) + 1
  BY <1>1
<1>4. Grows
  BY <1>1 DEF Grows
<1>5. rows' \in Seq(Rows)
  OBVIOUS
<1> QED  BY <1>1, <1>2, <1>3, <1>4, <1>5
-----------------------------------------------------------------------------
\* What a step of one job leaves alone.
OthersSame(j) == \A k \in Jobs : k # j => Same(k)

\* A step of job j that adds no row and stops nobody preserves the invariant if
\* the job itself is left in a good state.
LEMMA JobStep ==
  ASSUME IInv, NEW j \in Jobs, OthersSame(j), rows' = rows, server' = server,
         opened' \subseteq opened \cup {j, Server}, tables => tables',
         TypeOK', JobInv(j)', Keeps(j)
  PROVE  IInv'
<1>1. Grows
  BY DEF Grows
<1>2. ASSUME NEW k \in Jobs, k # j PROVE JobInv(k)'
  <2>1. k \in opened' => k \in opened
    BY <1>2, RunServiceAssumption
  <2>2. JobInv(k) /\ Same(k)
    BY <1>2 DEF IInv, OthersSame
  <2> QED  BY <1>1, <2>1, <2>2, Undisturbed
<1>3. \A k \in Jobs : Keeps(k)
  BY DEF OthersSame, Same, Keeps
<1>4. RecordedVerdictsAreTheEngines'
  BY <1>3, StillTheEngines DEF IInv
<1> QED  BY <1>2, <1>4 DEF IInv

\* db.init() up to its first await leads to a phase the invariant allows.
LEMMA OpenFacts ==
  ASSUME IInv, NEW j \in Jobs, NEW k \in RequestKinds \cup CommandKinds, OpenDatabase(j, k),
         j \notin opened, k \in RequestKinds => server = "up"
  PROVE  /\ opened' \subseteq opened \cup {j, Server}
         /\ \/ phase' = [phase EXCEPT ![j] = "creating"]
            \/ phase' = [phase EXCEPT ![j] = "using"] /\ (Lifespan => tables)
<1>1. CASE DatabaseOf(j, k) \in opened
  <2>1. k \in RequestKinds
    BY <1>1 DEF DatabaseOf
  <2> QED  BY <1>1, <2>1 DEF OpenDatabase, Goto, IInv
<1>2. CASE DatabaseOf(j, k) \notin opened
  BY <1>2 DEF OpenDatabase, DatabaseOf, Goto
<1> QED  BY <1>1, <1>2

\* A request or a command that is made keeps the invariant.
LEMMA ArriveStep ==
  ASSUME IInv, NEW j \in Jobs, NEW k \in RequestKinds \cup CommandKinds, Arrive(j, k)
  PROVE  IInv'
<1> USE DEF RequestKinds, CommandKinds, RunKinds
<1>1. TypeOK /\ JobInv(j) /\ phase[j] = "idle" /\ j \notin opened
  BY DEF IInv, JobInv, Arrive
<1>2. /\ UNCHANGED <<tables, rows, server, status, base>> /\ kind' = [kind EXCEPT ![j] = k]
      /\ k \in RequestKinds => server = "up"
      /\ \/ k = "cli export" /\ runId' = runId
         \/ k # "cli export" /\ \E id \in RunIds : runId' = [runId EXCEPT ![j] = id]
  BY Zenon DEF Arrive
<1>3. /\ opened' \subseteq opened \cup {j, Server}
      /\ \/ k \in RunKinds /\ opened' = opened /\ phase' = [phase EXCEPT ![j] = "engine"]
         \/ k \notin RunKinds /\ phase' = [phase EXCEPT ![j] = "creating"]
         \/ /\ k \notin RunKinds /\ phase' = [phase EXCEPT ![j] = "using"]
            /\ Lifespan => tables
  <2>1. CASE k \in RunKinds
    BY <2>1 DEF Arrive, Goto
  <2>2. CASE k \notin RunKinds
    BY <1>1, <2>2, OpenFacts DEF Arrive
  <2> QED  BY <2>1, <2>2
<1>4. TypeOK'
  BY <1>1, <1>2, <1>3 DEF TypeOK, Waiting
<1>5. OthersSame(j) /\ Keeps(j)
  BY <1>1, <1>2, <1>3 DEF TypeOK, OthersSame, Same, Keeps
<1>6. JobInv(j)'
  BY <1>1, <1>2, <1>3 DEF TypeOK, JobInv, Waiting
<1> QED  BY <1>2, <1>3, <1>4, <1>5, <1>6, JobStep

\* The end of the engine keeps the invariant.
LEMMA EngineEndsStep ==
  ASSUME IInv, NEW j \in Jobs, NEW verdict \in Verdicts, EngineEnds(j, verdict)
  PROVE  IInv'
<1> USE DEF RequestKinds, CommandKinds, RunKinds
<1>1. TypeOK /\ JobInv(j) /\ phase[j] = "engine" /\ j \notin opened
  BY DEF IInv, JobInv, EngineEnds
<1>2. /\ UNCHANGED <<tables, rows, server, kind, runId, base>>
      /\ status' = [status EXCEPT ![j] = verdict]
  BY DEF EngineEnds
<1>3. /\ kind[j] \in RequestKinds \cup CommandKinds
      /\ kind[j] \in RequestKinds => server = "up"
  BY <1>1 DEF JobInv, Waiting
<1>4. /\ opened' \subseteq opened \cup {j, Server}
      /\ \/ phase' = [phase EXCEPT ![j] = "creating"]
         \/ phase' = [phase EXCEPT ![j] = "using"] /\ (Lifespan => tables)
  BY <1>1, <1>3, OpenFacts DEF EngineEnds
<1>5. TypeOK'
  BY <1>1, <1>2, <1>4 DEF TypeOK, Waiting
<1>6. OthersSame(j) /\ Keeps(j)
  BY <1>1, <1>2, <1>4 DEF TypeOK, OthersSame, Same, Keeps
<1>7. JobInv(j)'
  BY <1>1, <1>2, <1>3, <1>4 DEF TypeOK, JobInv, Waiting
<1> QED  BY <1>2, <1>4, <1>5, <1>6, <1>7, JobStep

\* The end of db.init() keeps the invariant.
LEMMA CreateTablesStep ==
  ASSUME IInv, NEW j \in Jobs, CreateTables(j) PROVE IInv'
<1>1. TypeOK /\ JobInv(j) /\ phase[j] = "creating"
  BY DEF IInv, CreateTables
<1>2. /\ UNCHANGED <<rows, opened, server, kind, runId, status, base>>
      /\ tables' = TRUE /\ phase' = [phase EXCEPT ![j] = "using"]
  BY DEF CreateTables, Goto
<1>3. TypeOK'
  BY <1>1, <1>2 DEF TypeOK, Waiting
<1>4. OthersSame(j) /\ Keeps(j)
  BY <1>1, <1>2 DEF TypeOK, OthersSame, Same, Keeps
<1>5. JobInv(j)'
  BY <1>1, <1>2 DEF TypeOK, JobInv, Waiting
<1> QED  BY <1>2, <1>3, <1>4, <1>5, JobStep

\* A job that ends without an answer.
LEMMA EndStep ==
  ASSUME IInv, NEW j \in Jobs, NEW p \in Ended \ {"done"}, phase[j] \in Waiting,
         phase' = [phase EXCEPT ![j] = p],
         p = "noTables" => ~Lifespan, p = "raised" => phase[j] = "engine",
         UNCHANGED <<tables, rows, opened, server, kind, runId, status, base>>
  PROVE  IInv'
<1>1. TypeOK /\ JobInv(j)
  BY DEF IInv
<1>2. TypeOK'
  BY <1>1 DEF TypeOK, Ended
<1>3. OthersSame(j) /\ Keeps(j)
  BY <1>1 DEF TypeOK, OthersSame, Same, Keeps, Ended, Waiting
<1>4. JobInv(j)'
  BY <1>1 DEF TypeOK, JobInv, Ended, Waiting, RunKinds
<1> QED  BY <1>2, <1>3, <1>4, JobStep

\* A failure or a killed command keeps the invariant.
LEMMA FailsStep ==
  ASSUME IInv, NEW j \in Jobs, Fails(j) PROVE IInv'
<1>1. CASE EngineRaises(j)
  <2>1. "raised" \in Ended \ {"done"} /\ phase[j] = "engine" /\ phase[j] \in Waiting
    BY <1>1 DEF EngineRaises, Ended, Waiting
  <2> QED  BY <1>1, <2>1, EndStep DEF EngineRaises, Goto
<1>2. CASE DatabaseFails(j)
  <2>1. PICK p \in {"unsaved", "dbError"} : phase' = [phase EXCEPT ![j] = p]
    BY <1>2 DEF DatabaseFails, FailWith, Goto
  <2>2. phase[j] \in Waiting /\ p \in Ended \ {"done"}
    BY <1>2 DEF DatabaseFails, Waiting, Ended
  <2> QED  BY <1>2, <2>1, <2>2, EndStep DEF DatabaseFails
<1>3. CASE KillCommand(j)
  <2>1. "lost" \in Ended \ {"done"}
    BY DEF Ended
  <2> QED  BY <1>3, <2>1, EndStep DEF KillCommand, Goto
<1> QED  BY <1>1, <1>2, <1>3 DEF Fails

\* save: only a run whose id is not taken adds a row, and it is the engine's.
LEMMA InsertStep ==
  ASSUME IInv, NEW j \in Jobs, SaveRun(j) \/ SaveCancelled(j) PROVE IInv'
<1>1. TypeOK /\ JobInv(j) /\ Insert(j) /\ phase[j] \in {"using", "loaded"}
  BY DEF IInv, SaveRun, SaveCancelled
<1>2. phase[j] \in Waiting /\ (Lifespan => tables)
  BY <1>1 DEF JobInv, Waiting
<1>3. CASE tables /\ runId[j] \notin Ids
  <2> DEFINE r == [id |-> runId[j], verdict |-> status[j]]
  <2>1. /\ phase[j] = "using" /\ kind[j] \in RunKinds
        /\ runId[j] \in RunIds /\ status[j] \in Verdicts
    BY <1>1, <1>3 DEF SaveRun, SaveCancelled, JobInv, RunKinds
  <2>2. r \in Rows /\ rows \in Seq(Rows)
    BY <1>1, <2>1 DEF Rows, TypeOK
  <2>3. /\ rows' = Append(rows, r) /\ phase' = [phase EXCEPT ![j] = "saved"]
        /\ UNCHANGED <<tables, opened, server, kind, runId, status, base>>
    BY <1>1, <1>3 DEF Insert, Goto
  <2>4. /\ rows' \in Seq(Rows) /\ Grows /\ \E i \in DOMAIN rows' : rows'[i] = r
        /\ \A i \in DOMAIN rows' : i \in DOMAIN rows \/ rows'[i] = r
    BY <2>2, <2>3, AppendFacts
  <2>5. TypeOK'
    BY <1>1, <2>3, <2>4 DEF TypeOK, Rows, Waiting
  <2>6. JobInv(j)'
    <3>1. OnRecord(j)'
      BY <2>3, <2>4 DEF OnRecord
    <3>2. phase'[j] = "saved"
      BY <1>1, <2>3 DEF TypeOK
    <3> QED  BY <1>1, <2>1, <2>3, <3>1, <3>2 DEF JobInv, Waiting
  <2>7. ASSUME NEW k \in Jobs, k # j PROVE JobInv(k)'
    <3>1. Same(k) /\ JobInv(k)
      BY <1>1, <2>3, <2>7 DEF TypeOK, Same, IInv
    <3> QED  BY <2>3, <2>4, <3>1, Undisturbed
  <2>8. \A k \in Jobs : Keeps(k)
    BY <1>1, <2>1, <2>3 DEF TypeOK, Keeps
  <2>9. RecordedVerdictsAreTheEngines'
    <3> SUFFICES ASSUME NEW i \in DOMAIN rows'
                 PROVE  \E k \in Jobs : /\ kind'[k] \in RunKinds
                                        /\ phase'[k] \notin {"idle", "engine", "raised"}
                                        /\ rows'[i] = [id |-> runId'[k], verdict |-> status'[k]]
      BY DEF RecordedVerdictsAreTheEngines, RunKinds
    <3>1. CASE i \in DOMAIN rows
      <4>1. PICK k \in Jobs : /\ kind[k] \in RunKinds
                              /\ phase[k] \notin {"idle", "engine", "raised"}
                              /\ rows[i] = [id |-> runId[k], verdict |-> status[k]]
        BY <3>1 DEF IInv, RecordedVerdictsAreTheEngines, RunKinds
      <4>2. rows'[i] = rows[i]
        BY <2>4, <3>1 DEF Grows
      <4> QED  BY <2>8, <4>1, <4>2 DEF Keeps
    <3>2. CASE rows'[i] = r
      <4>1. phase'[j] = "saved"
        BY <1>1, <2>3 DEF TypeOK
      <4> QED  BY <2>1, <2>3, <3>2, <4>1
    <3> QED  BY <2>4, <3>1, <3>2
  <2> QED  BY <2>3, <2>5, <2>6, <2>7, <2>9 DEF IInv
<1>4. CASE ~(tables /\ runId[j] \notin Ids)
  <2>1. /\ UNCHANGED <<tables, rows, opened, server, kind, runId, status, base>>
        /\ \E p \in {"unsaved", "duplicate", "noTables"} :
             phase' = [phase EXCEPT ![j] = p] /\ (p = "noTables" => ~tables)
    BY <1>1, <1>4 DEF Insert, FailWith, Goto
  <2>2. PICK p \in {"unsaved", "duplicate", "noTables"} :
          phase' = [phase EXCEPT ![j] = p] /\ (p = "noTables" => ~tables)
    BY <2>1
  <2>3. p \in Ended \ {"done"} /\ (p = "noTables" => ~Lifespan) /\ p # "raised"
    BY <1>2, <2>2 DEF Ended
  <2> QED  BY <1>2, <2>1, <2>2, <2>3, EndStep
<1> QED  BY <1>3, <1>4

\* A read of one run keeps the invariant.
LEMMA LoadStep ==
  ASSUME IInv, NEW j \in Jobs, Load(j) PROVE IInv'
<1>1. /\ TypeOK /\ JobInv(j) /\ phase[j] = "using" /\ phase[j] \in Waiting
      /\ kind[j] \in {"get", "cancel", "diff"}
      /\ UNCHANGED <<tables, rows, opened, server, kind, runId, base>>
      /\ Lifespan => tables
  BY DEF IInv, Load, Waiting, JobInv
<1>2. CASE UNCHANGED status /\ \E p \in {"notFound", "noTables"} :
             phase' = [phase EXCEPT ![j] = p] /\ (p = "noTables" => ~tables)
  <2>1. PICK p \in {"notFound", "noTables"} :
          phase' = [phase EXCEPT ![j] = p] /\ (p = "noTables" => ~tables)
    BY <1>2
  <2>2. p \in Ended \ {"done"} /\ (p = "noTables" => ~Lifespan) /\ p # "raised"
    BY <1>1, <2>1 DEF Ended
  <2> QED  BY <1>1, <1>2, <2>1, <2>2, EndStep
<1>3. CASE /\ \E i \in DOMAIN rows :
                /\ rows[i].id = runId[j]
                /\ status' = [status EXCEPT ![j] = IF kind[j] = "cancel" THEN "cancelled"
                                                   ELSE rows[i].verdict]
           /\ phase' = [phase EXCEPT ![j] = IF kind[j] = "get" THEN "done" ELSE "loaded"]
           /\ tables
  <2>1. PICK i \in DOMAIN rows :
                /\ rows[i].id = runId[j]
                /\ status' = [status EXCEPT ![j] = IF kind[j] = "cancel" THEN "cancelled"
                                                   ELSE rows[i].verdict]
    BY <1>3
  <2>2. rows[i] \in Rows /\ rows[i] = [id |-> rows[i].id, verdict |-> rows[i].verdict]
    BY <1>1, RowFacts DEF TypeOK, Rows
  <2>3. TypeOK'
    BY <1>1, <1>3, <2>1, <2>2 DEF TypeOK, Rows, Waiting, Ended
  <2>4. OthersSame(j) /\ Keeps(j)
    BY <1>1, <1>3, <2>1 DEF TypeOK, OthersSame, Same, Keeps, RunKinds
  <2>5. kind[j] # "cancel" => OnRecord(j)'
    BY <1>1, <2>1, <2>2 DEF OnRecord, TypeOK
  <2>6. (runId[j] \in Ids)'
    BY <1>1, <2>1 DEF Ids
  <2>7. phase'[j] = IF kind[j] = "get" THEN "done" ELSE "loaded"
    BY <1>1, <1>3 DEF TypeOK
  <2>8. JobInv(j)'
    <3>1. /\ j \in opened' <=> j \in opened
          /\ kind'[j] = kind[j] /\ runId'[j] = runId[j] /\ server' = server
          /\ tables' /\ kind[j] # "none" /\ runId[j] \in RunIds
          /\ kind[j] \in RequestKinds => server = "up"
      BY <1>1, <1>3 DEF JobInv
    <3>2. phase'[j] \in {"done", "loaded"} /\ (phase'[j] = "done" <=> kind[j] = "get")
      BY <2>7
    <3> QED  BY <1>1, <2>5, <2>6, <3>1, <3>2 DEF JobInv, Waiting, RunKinds
  <2> QED  BY <1>1, <2>3, <2>4, <2>8, JobStep
<1> QED  BY <1>1, <1>2, <1>3 DEF Load, FailWith, Goto

\* The choice of a diff's baseline keeps the invariant.
LEMMA PickBaselineStep ==
  ASSUME IInv, NEW j \in Jobs, PickBaseline(j) PROVE IInv'
<1>1. /\ TypeOK /\ JobInv(j) /\ phase[j] = "loaded" /\ kind[j] = "diff"
      /\ UNCHANGED <<tables, rows, opened, server, kind, runId, status>>
      /\ phase' = [phase EXCEPT ![j] = "done"]
      /\ base' = base \/ \E i \in DOMAIN rows : base' = [base EXCEPT ![j] = rows[i].id]
  BY DEF IInv, PickBaseline, Goto
<1>2. base' \in [Jobs -> RunIds \cup {"none"}]
  BY <1>1, RowFacts DEF TypeOK, Rows
<1>3. TypeOK'
  BY <1>1, <1>2 DEF TypeOK, Ended
<1>4. OthersSame(j) /\ Keeps(j)
  BY <1>1 DEF TypeOK, OthersSame, Same, Keeps, RunKinds
<1>5. JobInv(j)'
  <2>1. OnRecord(j) /\ OnRecord(j)' <=> OnRecord(j)
    BY <1>1 DEF JobInv, OnRecord
  <2>2. phase'[j] = "done"
    BY <1>1 DEF TypeOK
  <2> QED  BY <1>1, <2>1, <2>2 DEF JobInv, Waiting, RunKinds
<1> QED  BY <1>1, <1>3, <1>4, <1>5, JobStep

\* An export of the newest run keeps the invariant.
LEMMA ExportStep ==
  ASSUME IInv, NEW j \in Jobs, Export(j) PROVE IInv'
<1>1. /\ TypeOK /\ JobInv(j) /\ phase[j] = "using" /\ phase[j] \in Waiting
      /\ kind[j] = "cli export" /\ (Lifespan => tables)
      /\ UNCHANGED <<tables, rows, opened, server, kind, base>>
  BY DEF IInv, Export, Waiting, JobInv
<1>2. CASE /\ UNCHANGED <<runId, status>>
           /\ \E p \in {"notFound", "noTables"} :
                phase' = [phase EXCEPT ![j] = p] /\ (p = "noTables" => ~tables)
  <2>1. PICK p \in {"notFound", "noTables"} :
          phase' = [phase EXCEPT ![j] = p] /\ (p = "noTables" => ~tables)
    BY <1>2
  <2>2. p \in Ended \ {"done"} /\ (p = "noTables" => ~Lifespan) /\ p # "raised"
    BY <1>1, <2>1 DEF Ended
  <2> QED  BY <1>1, <1>2, <2>1, <2>2, EndStep
<1>3. CASE /\ \E i \in DOMAIN rows :
                /\ runId' = [runId EXCEPT ![j] = rows[i].id]
                /\ status' = [status EXCEPT ![j] = rows[i].verdict]
           /\ phase' = [phase EXCEPT ![j] = "done"]
  <2>1. PICK n \in DOMAIN rows : /\ runId' = [runId EXCEPT ![j] = rows[n].id]
                                 /\ status' = [status EXCEPT ![j] = rows[n].verdict]
    BY <1>3
  <2>2. rows \in Seq(Rows)
    BY <1>1 DEF TypeOK, Rows
  <2>3. rows[n] \in Rows /\ rows[n] = [id |-> rows[n].id, verdict |-> rows[n].verdict]
    BY <2>2, RowFacts
  <2>4. TypeOK'
    BY <1>1, <1>3, <2>1, <2>3 DEF TypeOK, Rows, Ended
  <2>5. OthersSame(j) /\ Keeps(j)
    BY <1>1, <1>3, <2>1 DEF TypeOK, OthersSame, Same, Keeps, RunKinds
  <2>6. OnRecord(j)'
    BY <1>1, <2>1, <2>3 DEF OnRecord, TypeOK
  <2>7. phase'[j] = "done"
    BY <1>1, <1>3 DEF TypeOK
  <2>8. JobInv(j)'
    BY <1>1, <2>6, <2>7 DEF JobInv, Waiting, RunKinds
  <2> QED  BY <1>1, <2>4, <2>5, <2>8, JobStep
<1> QED  BY <1>1, <1>2, <1>3 DEF Export, FailWith, Goto

\* The answer after a commit keeps the invariant.
LEMMA AnswerStep ==
  ASSUME IInv, NEW j \in Jobs, Answer(j) PROVE IInv'
<1>1. /\ TypeOK /\ JobInv(j) /\ phase[j] = "saved"
      /\ UNCHANGED <<tables, rows, opened, server, kind, runId, status, base>>
      /\ phase' = [phase EXCEPT ![j] = "done"]
  BY DEF IInv, Answer, Goto
<1>2. TypeOK'
  BY <1>1 DEF TypeOK, Ended
<1>3. OthersSame(j) /\ Keeps(j)
  BY <1>1 DEF TypeOK, OthersSame, Same, Keeps
<1>4. JobInv(j)'
  BY <1>1 DEF JobInv, TypeOK, OnRecord, Waiting
<1> QED  BY <1>1, <1>2, <1>3, <1>4, JobStep
-----------------------------------------------------------------------------
\* The start of the server and the end of its lifespan keep the invariant.
LEMMA ServerStep ==
  ASSUME IInv, StartServer \/ Serve PROVE IInv'
<1>1. TypeOK /\ UNCHANGED <<rows, kind, phase, runId, status, base>>
  BY DEF IInv, StartServer, Serve
<1>2. opened' \subseteq opened \cup {Server}
  BY DEF StartServer, Serve
<1>3. server # "up" /\ server' \in {"starting", "up"}
  BY DEF StartServer, Serve
<1>4. tables' \in BOOLEAN /\ (tables => tables')
  BY <1>1 DEF TypeOK, StartServer, Serve
<1>5. Lifespan /\ server' = "up" => tables'
  BY DEF StartServer, Serve
<1>6. ASSUME NEW j \in Jobs PROVE JobInv(j)'
  <2>1. JobInv(j) /\ Same(j) /\ Grows
    BY <1>1 DEF Same, IInv, Grows
  <2>2. j \in opened' => j \in opened
    BY <1>2, RunServiceAssumption
  <2> QED  BY <1>3, <1>4, <2>1, <2>2, Undisturbed
<1>7. RecordedVerdictsAreTheEngines'
  BY <1>1, StillTheEngines DEF Keeps, IInv
<1>8. TypeOK'
  <2>1. opened' \in SUBSET (Jobs \cup {Server})
    BY <1>1, <1>2 DEF TypeOK
  <2> QED  BY <1>1, <1>3, <1>4, <2>1 DEF TypeOK
<1> QED  BY <1>5, <1>6, <1>7, <1>8 DEF IInv

\* A server that stops takes the requests it has in hand with it, and nothing
\* that is on record.
LEMMA StopServerStep ==
  ASSUME IInv, StopServer PROVE IInv'
<1>1. /\ TypeOK /\ UNCHANGED <<tables, rows, kind, runId, status, base>>
      /\ server' = "down" /\ opened' = opened \ {Server}
      /\ phase' = [j \in Jobs |-> IF ~IsCommand(j) /\ phase[j] \in Waiting
                                  THEN "lost" ELSE phase[j]]
  BY DEF IInv, StopServer
<1>2. ASSUME NEW j \in Jobs PROVE JobInv(j)'
  <2>1. JobInv(j) /\ (OnRecord(j) => OnRecord(j)')
    BY <1>1 DEF IInv, OnRecord
  <2>2. phase'[j] = IF ~IsCommand(j) /\ phase[j] \in Waiting THEN "lost" ELSE phase[j]
    BY <1>1
  <2>3. Ids' = Ids
    BY <1>1 DEF Ids
  <2>4. CASE phase'[j] = "lost"
    BY <1>1, <2>1, <2>2, <2>4 DEF JobInv, Waiting
  <2>5. CASE phase'[j] = phase[j]
    <3>1. ~(phase[j] \in Waiting /\ kind[j] \in RequestKinds)
      BY <2>2, <2>5 DEF IsCommand, RequestKinds, CommandKinds, Waiting
    <3>2. kind'[j] = kind[j] /\ runId'[j] = runId[j] /\ status'[j] = status[j]
          /\ (j \in opened' => j \in opened) /\ tables' = tables
      BY <1>1
    <3> QED  BY <2>1, <2>3, <2>5, <3>1, <3>2 DEF JobInv
  <2> QED  BY <2>2, <2>4, <2>5
<1>3. \A j \in Jobs : Keeps(j)
  BY <1>1 DEF Keeps
<1>4. RecordedVerdictsAreTheEngines'
  BY <1>1, <1>3, StillTheEngines DEF IInv
<1>5. TypeOK'
  <2>1. phase' \in [Jobs -> {"idle"} \cup Waiting \cup Ended]
    BY <1>1 DEF TypeOK, Ended
  <2> QED  BY <1>1, <2>1 DEF TypeOK
<1> QED  BY <1>1, <1>2, <1>4, <1>5 DEF IInv

\* An empty file without tables, and nobody using it, satisfies the inductive invariant.
THEOREM InvInit == Init => IInv
<1> SUFFICES ASSUME Init PROVE IInv
  OBVIOUS
<1>1. TypeOK
  <2>1. rows \in Seq([id : RunIds, verdict : Verdicts])
    BY DEF Init
  <2> QED  BY <2>1 DEF Init, TypeOK
<1>2. \A j \in Jobs : JobInv(j)
  BY DEF Init, JobInv, Waiting
<1>3. RecordedVerdictsAreTheEngines
  BY DEF Init, RecordedVerdictsAreTheEngines
<1> QED  BY <1>1, <1>2, <1>3 DEF IInv, Init

\* Every step of a job, of the server and of its end keeps the inductive
\* invariant (runs.py:17-108, db.py:16-28, repository.py:13-81).
THEOREM InvStep == IInv /\ [Next]_vars => IInv'
<1> SUFFICES ASSUME IInv, [Next]_vars PROVE IInv'
  OBVIOUS
<1>1. CASE UNCHANGED vars
  <2>1. TypeOK'
    BY <1>1 DEF vars, IInv, TypeOK
  <2>2. ASSUME NEW j \in Jobs PROVE JobInv(j)'
    <3>1. Grows /\ Same(j)
      BY <1>1 DEF vars, Grows, Same
    <3> QED  BY <1>1, <3>1, Undisturbed DEF vars, IInv
  <2>3. RecordedVerdictsAreTheEngines'
    BY <1>1 DEF vars, IInv, RecordedVerdictsAreTheEngines
  <2> QED  BY <1>1, <2>1, <2>2, <2>3 DEF vars, IInv
<1>2. CASE StartServer \/ Serve \/ StopServer
  BY <1>2, ServerStep, StopServerStep
<1>3. ASSUME NEW j \in Jobs, NEW k \in RequestKinds \cup CommandKinds, Arrive(j, k)
      PROVE  IInv'
  BY <1>3, ArriveStep
<1>4. ASSUME NEW j \in Jobs, Proceed(j) PROVE IInv'
  BY <1>4, EngineEndsStep, CreateTablesStep, InsertStep, LoadStep, PickBaselineStep,
     ExportStep, AnswerStep DEF Proceed
<1>5. ASSUME NEW j \in Jobs, Fails(j) PROVE IInv'
  BY <1>5, FailsStep
<1> QED  BY <1>1, <1>2, <1>3, <1>4, <1>5 DEF Next

\* The inductive invariant of the run history holds at all times.
THEOREM IInvHolds == Spec => []IInv
BY InvInit, InvStep, PTL DEF Spec
-----------------------------------------------------------------------------
\* Type correctness of the run history and its users.
THEOREM TypeCorrect == Spec => []TypeOK
<1>1. IInv => TypeOK
  BY DEF IInv
<1> QED  BY <1>1, IInvHolds, PTL

\* No answer is ever taken back: what a client of POST /pipelines/run or of any
\* read was told is on record from then on, through failures, cancels, id
\* collisions and restarts (runs.py:30-42, repository.py:13-44).
THEOREM AnswersHold == Spec => []AnswersStayTrue
<1>1. IInv => AnswersStayTrue
  BY DEF IInv, JobInv, AnswersStayTrue
<1> QED  BY <1>1, IInvHolds, PTL

\* No row is anything but the verdict of a run that ended (repository.py:13-44).
THEOREM RecordsAreTrue == Spec => []RecordedVerdictsAreTheEngines
<1>1. IInv => RecordedVerdictsAreTheEngines
  BY DEF IInv
<1> QED  BY <1>1, IInvHolds, PTL

\* Behind a lifespan no query ever meets a file without its tables, though
\* db.init() lets a second caller through while the first still creates them
\* (server.py:7-12, db.py:16-28).
THEOREM LifespanProtects == Spec => []LifespanCreatesTables
<1>1. IInv => LifespanCreatesTables
  BY DEF IInv, JobInv, LifespanCreatesTables
<1> QED  BY <1>1, IInvHolds, PTL

\* Only an INSERT of a free id changes the record.
LEMMA OnlyInsertsWrite ==
  ASSUME IInv, [Next]_vars, rows' # rows
  PROVE  \E j \in Jobs : /\ SaveRun(j) /\ tables /\ runId[j] \notin Ids
                         /\ rows' = Append(rows, [id |-> runId[j], verdict |-> status[j]])
<1>1. PICK j \in Jobs : SaveRun(j) \/ SaveCancelled(j)
  BY DEF Next, vars, StartServer, Serve, StopServer, Arrive, Proceed, Fails, EngineEnds,
         CreateTables, Load, PickBaseline, Export, Answer, EngineRaises, DatabaseFails,
         KillCommand
<1>2. /\ Insert(j) /\ tables /\ runId[j] \notin Ids
      /\ rows' = Append(rows, [id |-> runId[j], verdict |-> status[j]])
  BY <1>1 DEF SaveRun, SaveCancelled, Insert
<1>3. ~SaveCancelled(j)
  BY <1>2 DEF SaveCancelled, IInv, JobInv
<1> QED  BY <1>1, <1>2, <1>3

\* The run history implements the append-only ledger, with one run per id.
THEOREM HistoryKeepsLedger == Spec => KeepsLedger
<1>1. Init => Ledger!Init
  BY DEF Init, Ledger!Init
<1>2. IInv /\ [Next]_vars => [Ledger!Next]_rows
  <2> SUFFICES ASSUME IInv, [Next]_vars, rows' # rows PROVE Ledger!Next
    OBVIOUS
  <2>1. PICK j \in Jobs :
          /\ SaveRun(j) /\ runId[j] \notin Ids
          /\ rows' = Append(rows, [id |-> runId[j], verdict |-> status[j]])
    BY OnlyInsertsWrite
  <2>2. runId[j] \in RunIds /\ status[j] \in Verdicts
    BY <2>1 DEF SaveRun, IInv, JobInv, RunKinds
  <2>3. Ledger!Record(runId[j], status[j])
    BY <2>1 DEF Ledger!Record, Ledger!Ids, Ids
  <2> QED  BY <2>2, <2>3 DEF Ledger!Next, Ledger!Verdicts, Verdicts
<1> QED  BY <1>1, <1>2, IInvHolds, PTL DEF Spec, KeepsLedger, Ledger!Spec
=============================================================================
