--------------------------- MODULE MCMossSessions ---------------------------
(***************************************************************************)
(* Small sets of runs for MossSessions.                                     *)
(*   sessions_all    a conversation of two turns and a prompt, in one       *)
(*                   directory or in two, one after the other or at once;   *)
(*                   under a limit of 2 they may still not overlap          *)
(*   sessions_staged the same conversation in a copy of its workdir         *)
(***************************************************************************)
EXTENDS MossSessions

CONSTANTS talk, prompt, d1, d2

AllRuns == {talk, prompt}
AllTurns == [r \in AllRuns |-> IF r = talk THEN 2 ELSE 1]
AllDirs == {d1, d2}
AllPlacements == {[r \in AllRuns |-> d1], [r \in AllRuns |-> IF r = talk THEN d1 ELSE d2]}

StagedRuns == {talk}
StagedTurns == [r \in StagedRuns |-> 2]
StagedPlacements == {[r \in StagedRuns |-> d1]}
==============================================================================
