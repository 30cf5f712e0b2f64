---------------------------- MODULE MCRunService ----------------------------
(***************************************************************************)
(* Small sets of jobs for RunService.                                       *)
(*   service_history   two runs, one through the API and one by command, a  *)
(*                     job that reads or cancels and one that compares or   *)
(*                     exports; two ids, so that ids collide                *)
(*   service_init      two requests to an app whose lifespan is not run     *)
(***************************************************************************)
EXTENDS RunService

CONSTANTS post, moss, ask, look, api

HistoryJobs == {post, moss, ask, look}
HistoryKinds ==
  [j \in HistoryJobs |->
     CASE j = post -> {"run"} [] j = moss -> {"cli run"}
       [] j = ask -> {"get", "cancel"} [] j = look -> {"diff", "cli export"}]

InitJobs == {post, ask}
InitKinds == [j \in InitJobs |-> IF j = post THEN {"run"} ELSE {"get"}]
=============================================================================
