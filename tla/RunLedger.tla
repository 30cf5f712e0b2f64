------------------------------ MODULE RunLedger ------------------------------
(***************************************************************************)
(* What the run history promises to its readers (moss-ci history, status,   *)
(* diff and export; GET /runs and below): a list of runs, one per run id,   *)
(* to which finished runs are added and in which nothing ever changes.      *)
(* RunService implements it.                                                *)
(***************************************************************************)
EXTENDS Sequences

CONSTANT RunIds  \* the ids a run may be given

VARIABLE ledger  \* the runs that are on record, oldest first

\* The status of a run that has ended.
Verdicts == {"success", "failed"}

Ids == {ledger[i].id : i \in DOMAIN ledger}

Init == ledger = << >>

\* A run is put on record.
Record(id, verdict) ==
  /\ id \notin Ids
  /\ ledger' = Append(ledger, [id |-> id, verdict |-> verdict])

Next == \E id \in RunIds, verdict \in Verdicts : Record(id, verdict)

Spec == Init /\ [][Next]_ledger
==============================================================================
