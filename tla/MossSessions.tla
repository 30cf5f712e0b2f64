---------------------------- MODULE MossSessions ----------------------------
(***************************************************************************)
(* How the CLI backend learns what Moss did (moss_ci/runner/cli_backend.py). *)
(* A call lists the session files of its working directory, starts a Moss   *)
(* process there, waits for it with a timeout, and takes the tool calls and *)
(* the modified files from the newest session file that was not listed.     *)
(* A run makes one call, or one per user turn of a conversation             *)
(* (moss_ci/runner/base.py), in one directory: a copy of the test's workdir *)
(* made for this run, or, for a test without a workdir, the directory       *)
(* moss-ci itself works in (executor.py:155-177, 224-247).                  *)
(*                                                                          *)
(* Moss is external: a process of its own that writes one session file at   *)
(* some time, under a name that is not taken, and ends at some time, or     *)
(* never.  Only the order of the names counts.  Nothing is awaited between  *)
(* two turns, but Moss processes go on meanwhile; so a turn's end and the   *)
(* next one's start are two steps.                                          *)
(***************************************************************************)
EXTENDS Integers, FiniteSets

CONSTANTS
  Runs,        \* the single runs of tests; a flaky test has several
  Turns,       \* the number of Moss calls of each run
  Dirs,        \* working directories
  Placements,  \* ways to place the runs in the directories
  Limits       \* how many runs may be in progress: max_concurrency

ASSUME MossSessionsAssumption ==
  /\ IsFiniteSet(Runs)
  /\ Turns \in [Runs -> Nat \ {0}]
  /\ Placements \subseteq [Runs -> Dirs]
  /\ Limits \subseteq Nat \ {0}

\* The n-th call of a run, and the session that its Moss process writes.
Calls == UNION {{<<r, n>> : n \in 1..Turns[r]} : r \in Runs}

VARIABLES
  cwd,     \* the working directory of each run
  limit,   \* how many runs may be in progress
  phase,   \* phase of each run
  turn,    \* the call each run is at
  before,  \* the session files each run's current call has listed
  live,    \* the Moss processes that run
  name,    \* the place of each session in the order of names; 0: not written
  ended,   \* how each call ended; "no": it has not
  got,     \* the session each call took, as a set
  overlap  \* history, which no step reads: <<r, q>> if the runs r and q have been
           \* in progress at the same time

vars == <<cwd, limit, phase, turn, before, live, name, ended, got, overlap>>

-----------------------------------------------------------------------------
Current(r) == <<r, turn[r]>>

\* The session files of a directory.
Sessions(d) == {c \in Calls : cwd[c[1]] = d /\ name[c] # 0}

InProgress == {r \in Runs : phase[r] \in {"ready", "calling"}}

Init ==
  /\ cwd \in Placements
  /\ limit \in Limits
  /\ phase = [r \in Runs |-> "waiting"]
  /\ turn = [r \in Runs |-> 1]
  /\ before = [r \in Runs |-> {}]
  /\ live = {}
  /\ name = [c \in Calls |-> 0]
  /\ ended = [c \in Calls |-> "no"]
  /\ got = [c \in Calls |-> {}]
  /\ overlap = {}

\* A run may make its next call: its first one if it is let in.
MayCall(r) ==
  \/ phase[r] = "ready"
  \/ phase[r] = "waiting" /\ Cardinality(InProgress) < limit

\* A run makes a call beside whatever other runs are in progress.
NoteOverlap(r) ==
  LET others == InProgress \ {r}
  IN  overlap' = overlap \cup ({r} \X others) \cup (others \X {r})

\* Mutated Start: the files are listed once per run, not once per call.
StartListedOnce(r) ==
  /\ MayCall(r)
  /\ before' = IF turn[r] = 1 THEN [before EXCEPT ![r] = Sessions(cwd[r])] ELSE before
  /\ live' = live \cup {Current(r)}
  /\ phase' = [phase EXCEPT ![r] = "calling"]
  /\ NoteOverlap(r)
  /\ UNCHANGED <<cwd, limit, turn, name, ended, got>>

\* CLIBackend.run lists the session files and starts Moss.
Start(r) ==
  /\ MayCall(r)
  /\ before' = [before EXCEPT ![r] = Sessions(cwd[r])]
  /\ live' = live \cup {Current(r)}
  /\ phase' = [phase EXCEPT ![r] = "calling"]
  /\ NoteOverlap(r)
  /\ UNCHANGED <<cwd, limit, turn, name, ended, got>>

\* Mutated EndCall: one turn too many.
EndCallLate(r, how, sessions) ==
  /\ ended' = [ended EXCEPT ![Current(r)] = how]
  /\ got' = [got EXCEPT ![Current(r)] = sessions]
  /\ turn' = [turn EXCEPT ![r] = @ + 1]
  /\ phase' = [phase EXCEPT ![r] = IF turn[r] > Turns[r] THEN "over" ELSE "ready"]

\* A call gives its MossResult; whatever it is, the conversation goes on to its
\* next turn.
EndCall(r, how, sessions) ==
  /\ ended' = [ended EXCEPT ![Current(r)] = how]
  /\ got' = [got EXCEPT ![Current(r)] = sessions]
  /\ \/ /\ turn[r] < Turns[r]
        /\ turn' = [turn EXCEPT ![r] = @ + 1]
        /\ phase' = [phase EXCEPT ![r] = "ready"]
     \/ /\ turn[r] = Turns[r]
        /\ phase' = [phase EXCEPT ![r] = "over"]
        /\ UNCHANGED turn

\* FileNotFoundError: there is no such command.
NoMoss(r) ==
  /\ MayCall(r)
  /\ EndCall(r, "notFound", {})
  /\ NoteOverlap(r)
  /\ UNCHANGED <<cwd, limit, before, live, name>>

\* The newest of the files that were not listed, if there is any.
Extracted(r) ==
  LET new == Sessions(cwd[r]) \ before[r]
  IN  {s \in new : \A other \in new : name[other] <= name[s]}

\* Mutated Return: does not wait for the process to end.
ReturnEarly(r) ==
  /\ phase[r] = "calling"
  /\ EndCall(r, "returned", Extracted(r))
  /\ UNCHANGED <<cwd, limit, before, live, name, overlap>>

\* The process has ended and its session is looked for.
Return(r) ==
  /\ phase[r] = "calling"
  /\ Current(r) \notin live
  /\ EndCall(r, "returned", Extracted(r))
  /\ UNCHANGED <<cwd, limit, before, live, name, overlap>>

\* Mutated Timeout: waits until the process is gone.
TimeoutKillsFirst(r) ==
  /\ phase[r] = "calling"
  /\ Current(r) \notin live
  /\ EndCall(r, "timeout", {})
  /\ UNCHANGED <<cwd, limit, before, live, name, overlap>>

\* asyncio.TimeoutError: no session is looked for, and the process is left to run.
Timeout(r) ==
  /\ phase[r] = "calling"
  /\ EndCall(r, "timeout", {})
  /\ UNCHANGED <<cwd, limit, before, live, name, overlap>>

\* The run is cancelled while it waits for Moss, which is left to run.
Cancel(r) ==
  /\ phase[r] = "calling"
  /\ ended' = [ended EXCEPT ![Current(r)] = "cancelled"]
  /\ phase' = [phase EXCEPT ![r] = "over"]
  /\ UNCHANGED <<cwd, limit, turn, before, live, name, got, overlap>>

\* A Moss process writes its session file.
Write(c) ==
  /\ c \in live
  /\ name[c] = 0
  /\ \E n \in 1..Cardinality(Calls) :
       /\ \A s \in Sessions(cwd[c[1]]) : name[s] # n
       /\ name' = [name EXCEPT ![c] = n]
  /\ UNCHANGED <<cwd, limit, phase, turn, before, live, ended, got, overlap>>

\* A Moss process ends.
Exit(c) ==
  /\ c \in live
  /\ live' = live \ {c}
  /\ UNCHANGED <<cwd, limit, phase, turn, before, name, ended, got, overlap>>

RunStep(r) == Start(r) \/ NoMoss(r) \/ Return(r) \/ Timeout(r) \/ Cancel(r)

\* Every run is over; processes that were left may go on.
Over ==
  /\ \A r \in Runs : phase[r] = "over"
  /\ UNCHANGED vars

Next ==
  \/ \E r \in Runs : RunStep(r)
  \/ \E c \in Calls : Write(c) \/ Exit(c)
  \/ Over

Spec == Init /\ [][Next]_vars

\* The event loop: a run that may call does, and a timeout that is due fires.  Moss
\* need never write or end.
FairSpec ==
  Spec /\ \A r \in Runs : WF_vars(Start(r) \/ NoMoss(r)) /\ WF_vars(Timeout(r))
-----------------------------------------------------------------------------
\* Type invariant of the runs, their Moss processes and the session files.
TypeOK ==
  /\ cwd \in [Runs -> Dirs]
  /\ limit \in Nat \ {0}
  /\ phase \in [Runs -> {"waiting", "ready", "calling", "over"}]
  /\ turn \in [Runs -> Nat] /\ \A r \in Runs : turn[r] \in 1..Turns[r]
  /\ before \in [Runs -> SUBSET Calls]
  /\ live \in SUBSET Calls
  /\ name \in [Calls -> Nat]
  /\ ended \in [Calls -> {"no", "returned", "notFound", "timeout", "cancelled"}]
  /\ got \in [Calls -> SUBSET Calls]
  /\ overlap \in SUBSET (Runs \X Runs)

\* Calls whose Moss process may have been left to run.
LeftBehind == {c \in Calls : ended[c] \in {"timeout", "cancelled"}}

\* A call is judged by another call's session only if the two shared a directory
\* and the other was left behind, or was of another run that has been in progress
\* at the same time as the call's own: runs one after the other, and the turns of
\* one conversation, never mix up their sessions as long as none is left behind,
\* whatever else runs beside them (cli_backend.py:69-78, 115).
OnlyOverlapMisattributes ==
  \A c \in Calls : \A s \in got[c] : s # c =>
    /\ cwd[s[1]] = cwd[c[1]]
    /\ s \in LeftBehind \/ (s[1] # c[1] /\ <<s[1], c[1]>> \in overlap)

\* A session is taken by one call: two calls that took the same were of different
\* runs that have been in progress at the same time, and this even if the session
\* came late from a process that was left behind (cli_backend.py:75).
TakenOnce ==
  \A c, d \in Calls : c # d /\ got[c] \cap got[d] # {} =>
    c[1] # d[1] /\ <<c[1], d[1]>> \in overlap

\* A call whose process ended in time after writing its session is never judged as
\* if Moss had called no tool (cli_backend.py:120-123).
NoSessionLost ==
  \A c \in Calls : ended[c] = "returned" /\ name[c] # 0 => got[c] # {}

\* Every run ends, also if Moss never does (cli_backend.py:120, 128-130).
RunEnds == \A r \in Runs : <>(phase[r] = "over")

\* docs/USAGE.md:175: only the session that this call added is parsed (listed
\* before the call, the difference taken after it).
OnlyItsOwnSession == \A c \in Calls : got[c] \subseteq {c}
==============================================================================
