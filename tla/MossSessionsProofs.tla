-------------------------- MODULE MossSessionsProofs --------------------------
(***************************************************************************)
(* Theorems about MossSessions for any number of runs, turns, directories,  *)
(* placements and limits: whose session a call may be judged by.  IInv says *)
(* what a call that waits for Moss can find when it looks.                  *)
(***************************************************************************)
EXTENDS MossSessions, SequenceLemmas, TLAPS

\* A call that has ended is behind its run.
EndedIsPast ==
  \A c \in Calls : ended[c] # "no" => c[2] < turn[c[1]] \/ phase[c[1]] = "over"

\* A Moss process is the one its run waits for, or was left behind.
LiveIsKnown ==
  \A c \in live : \/ c \in LeftBehind
                  \/ phase[c[1]] = "calling" /\ c = Current(c[1])

\* Runs that are in progress together are on the record of overlaps, which tells
\* of different runs, and either of the other.
OverlapIsKnown ==
  /\ \A r, q \in InProgress : r # q => <<r, q>> \in overlap
  /\ \A r, q \in Runs : <<r, q>> \in overlap => r # q /\ <<q, r>> \in overlap

\* The sessions that a waiting call would find, but for its own.
NewIsKnown ==
  \A r \in Runs : phase[r] = "calling" =>
    \A s \in Sessions(cwd[r]) \ before[r] :
      s # Current(r) => s \in LeftBehind \/ (s[1] # r /\ <<s[1], r>> \in overlap)

\* Nothing is taken before a call ends; what was taken has been written, and is
\* listed by every call that waits, unless a run beside that call's took it.
TakenIsListed ==
  /\ \A c \in Calls : ended[c] = "no" => got[c] = {}
  /\ \A c \in Calls : \A s \in got[c] : name[s] # 0
  /\ \A r \in Runs : phase[r] = "calling" =>
       \A c \in Calls : \A s \in got[c] \cap Sessions(cwd[r]) :
         s \in before[r] \/ (c[1] # r /\ <<c[1], r>> \in overlap)

\* The call has been made, as far as its run's phase and turn tell.
Made(c) ==
  c[2] < turn[c[1]] \/ (c[2] = turn[c[1]] /\ phase[c[1]] \in {"calling", "over"})

\* Only a call that has been made has a process or a session; a waiting call has
\* not listed its own session, and a process that has been waited for is gone.  So
\* what a call finds, it finds from the names its processes could give.
OwnIsNew ==
  /\ \A c \in Calls : c \in live \/ name[c] # 0 => Made(c)
  /\ \A c \in Calls : name[c] <= Cardinality(Calls)
  /\ \A r \in Runs : phase[r] = "calling" => Current(r) \notin before[r]
  /\ \A c \in Calls : ended[c] = "returned" => c \notin live

IInv ==
  /\ TypeOK
  /\ EndedIsPast
  /\ LiveIsKnown
  /\ OverlapIsKnown
  /\ NewIsKnown
  /\ TakenIsListed
  /\ OnlyOverlapMisattributes
  /\ TakenOnce
  /\ OwnIsNew
  /\ NoSessionLost

-----------------------------------------------------------------------------
\* A call is a run and a turn of it.
LEMMA CallFacts ==
  /\ \A c \in Calls : c[1] \in Runs /\ c[2] \in 1..Turns[c[1]] /\ c = <<c[1], c[2]>>
  /\ \A r \in Runs : \A n \in 1..Turns[r] : <<r, n>> \in Calls
BY DEF Calls

\* There are finitely many calls.
LEMMA CallsFinite == IsFiniteSet(Calls) /\ Cardinality(Calls) \in Nat
<1> DEFINE Of(r) == {<<r, n>> : n \in 1..Turns[r]}
<1>1. ASSUME NEW r \in Runs PROVE IsFiniteSet(Of(r))
  <2>1. Turns[r] \in Nat
    BY MossSessionsAssumption
  <2>2. IsFiniteSet(1..Turns[r])
    BY <2>1, FS_Interval
  <2> DEFINE f == [n \in 1..Turns[r] |-> <<r, n>>]
  <2>3. f \in Surjection(1..Turns[r], Of(r))
    BY DEF Surjection
  <2> QED BY <2>2, <2>3, FS_Surjection
<1> DEFINE All == {Of(r) : r \in Runs}
           g == [r \in Runs |-> Of(r)]
<1>2. g \in Surjection(Runs, All)
  BY DEF Surjection
<1>3. IsFiniteSet(All)
  <2> HIDE DEF g, All
  <2> QED BY <1>2, FS_Surjection, MossSessionsAssumption
<1>4. \A T \in All : IsFiniteSet(T)
  BY <1>1
<1>5. IsFiniteSet(UNION All)
  <2> HIDE DEF All
  <2> QED BY <1>3, <1>4, FS_UNION
<1>6. UNION All = Calls
  BY DEF Calls
<1> QED BY <1>5, <1>6, FS_CardinalityType

\* A waiting call whose own session is there finds one.
LEMMA OwnIsFound ==
  ASSUME TypeOK, OwnIsNew, NEW r \in Runs, phase[r] = "calling",
         Current(r) \in Calls, Current(r)[1] = r, name[Current(r)] # 0
  PROVE  Extracted(r) # {}
<1> DEFINE new == Sessions(cwd[r]) \ before[r]
           names == {name[s] : s \in new}
<1>1. Current(r) \in new /\ new \subseteq Calls
  BY DEF Sessions, OwnIsNew
<1>2. names \in SUBSET Nat /\ names # {} /\ \A x \in names : x <= Cardinality(Calls)
  BY <1>1 DEF TypeOK, OwnIsNew
<1>3. PICK m \in names : \A x \in names : x <= m
  <2> HIDE DEF names
  <2> QED BY <1>2, CallsFinite, GreatestNumber
<1>4. PICK s \in new : m = name[s]
  BY <1>3
<1>5. s \in Extracted(r)
  BY <1>3, <1>4 DEF Extracted
<1> QED BY <1>5

\* The current call of a run is a call, and has not ended while the run goes on.
LEMMA CurrentFacts ==
  ASSUME TypeOK, EndedIsPast, NEW r \in Runs
  PROVE  /\ Current(r) \in Calls /\ Current(r)[1] = r /\ Current(r)[2] = turn[r]
         /\ phase[r] # "over" => ended[Current(r)] = "no"
<1>1. Current(r) \in Calls /\ Current(r)[1] = r /\ Current(r)[2] = turn[r]
  BY CallFacts DEF TypeOK, Current
<1>2. turn[r] \in Nat
  BY DEF TypeOK
<1> QED
  BY <1>1, <1>2 DEF EndedIsPast

\* Nothing has been called at the start.
LEMMA InvInit == Init => IInv
<1> SUFFICES ASSUME Init PROVE IInv
  OBVIOUS
<1>1. TypeOK
  BY MossSessionsAssumption, CallFacts DEF Init, TypeOK
<1>2. EndedIsPast /\ LiveIsKnown /\ OverlapIsKnown /\ NewIsKnown
  BY DEF Init, EndedIsPast, LiveIsKnown, OverlapIsKnown, InProgress, NewIsKnown
<1>3. TakenIsListed /\ OnlyOverlapMisattributes /\ TakenOnce
  BY DEF Init, TakenIsListed, OnlyOverlapMisattributes, TakenOnce
<1>4. OwnIsNew /\ NoSessionLost
  BY CallsFinite DEF Init, OwnIsNew, NoSessionLost
<1> QED  BY <1>1, <1>2, <1>3, <1>4 DEF IInv

\* A run that makes a call is put on record with every other run in progress, and
\* nothing is taken off the record.
LEMMA OverlapGrows ==
  ASSUME TypeOK, OverlapIsKnown, NEW r \in Runs, NoteOverlap(r),
         InProgress' \subseteq InProgress \cup {r}
  PROVE  /\ overlap \subseteq overlap' /\ overlap' \in SUBSET (Runs \X Runs)
         /\ OverlapIsKnown'
<1> DEFINE others == InProgress \ {r}
<1>1. overlap' = overlap \cup ({r} \X others) \cup (others \X {r})
  BY DEF NoteOverlap
<1>2. others \subseteq Runs /\ r \notin others
  BY DEF InProgress
<1>3. overlap \subseteq overlap' /\ overlap' \in SUBSET (Runs \X Runs)
  <2> HIDE DEF others
  <2> QED BY <1>1, <1>2 DEF TypeOK
<1>4. ASSUME NEW p \in Runs, NEW q \in Runs, <<p, q>> \in overlap'
      PROVE  p # q /\ <<q, p>> \in overlap'
  <2>1. CASE <<p, q>> \in overlap
    BY <1>3, <2>1 DEF OverlapIsKnown
  <2>2. CASE <<p, q>> \notin overlap
    <3> HIDE DEF others
    <3> QED BY <1>1, <1>2, <1>4, <2>2
  <2> QED BY <2>1, <2>2
<1>5. ASSUME NEW p \in InProgress', NEW q \in InProgress', p # q
      PROVE  <<p, q>> \in overlap'
  <2>1. CASE p = r
    BY <1>1, <1>5, <2>1
  <2>2. CASE q = r
    BY <1>1, <1>5, <2>2
  <2>3. CASE p # r /\ q # r
    BY <1>3, <1>5, <2>3 DEF OverlapIsKnown
  <2> QED BY <2>1, <2>2, <2>3
<1> QED BY <1>3, <1>4, <1>5 DEF OverlapIsKnown

-----------------------------------------------------------------------------
\* The start of a call keeps the invariant.
LEMMA StartStep ==
  ASSUME IInv, NEW r \in Runs, Start(r) PROVE IInv'
<1> USE DEF IInv
<1>1. Current(r) \in Calls /\ Current(r)[1] = r
  BY CurrentFacts
<1>2. phase[r] \in {"waiting", "ready"}
  BY DEF Start, MayCall
<1>13. overlap \subseteq overlap' /\ overlap' \in SUBSET (Runs \X Runs) /\ OverlapIsKnown'
  <2>1. InProgress' \subseteq InProgress \cup {r}
    BY DEF InProgress, Start, TypeOK
  <2> QED BY <2>1, OverlapGrows DEF Start
<1>3. TypeOK'
  BY <1>1, <1>13 DEF TypeOK, Start, Sessions
<1>4. /\ phase'[r] = "calling" /\ \A q \in Runs : q # r => phase'[q] = phase[q]
      /\ \A q \in Runs : q # r => before'[q] = before[q]
      /\ before'[r] = Sessions(cwd[r])
      /\ \A q \in Runs : Current(q)' = Current(q)
      /\ \A d : Sessions(d)' = Sessions(d)
      /\ LeftBehind' = LeftBehind
  BY DEF TypeOK, Start, Current, Sessions, LeftBehind
<1>5. EndedIsPast'
  BY <1>2, <1>4, CallFacts DEF EndedIsPast, Start
<1>6. LiveIsKnown'
  BY <1>1, <1>2, <1>4, CallFacts DEF LiveIsKnown, Start, TypeOK
<1>8. NewIsKnown'
  BY <1>4, <1>13 DEF NewIsKnown, Start
<1>9. TakenIsListed'
  BY <1>4, <1>13 DEF TakenIsListed, Start
<1>10. OnlyOverlapMisattributes' /\ TakenOnce'
  BY <1>4, <1>13 DEF OnlyOverlapMisattributes, TakenOnce, Start
<1>11. OwnIsNew'
  <2>1. Current(r) \notin Sessions(cwd[r])
    BY <1>1, <1>2, CurrentFacts DEF OwnIsNew, Made, Sessions, TypeOK
  <2>2. ended[Current(r)] = "no" /\ Current(r)[2] = turn[r] /\ turn'[r] = turn[r]
    BY <1>2, CurrentFacts DEF Start
  <2>3. \A c \in Calls : Made(c) => Made(c)'
    BY <1>4 DEF Made, Start
  <2>5. \A c \in Calls : (c \in live' => c \in live \/ c = Current(r)) /\ name'[c] = name[c]
    BY DEF Start
  <2>6. \A c \in Calls : ended'[c] = "returned" => c \notin live'
    BY <2>2 DEF OwnIsNew, Start
  <2>7. \A q \in Runs : phase'[q] = "calling" => Current(q)' \notin before'[q]
    BY <1>4, <2>1 DEF OwnIsNew
  <2>8. \A c \in Calls : c \in live' \/ name'[c] # 0 => Made(c)'
    <3> SUFFICES ASSUME NEW c \in Calls, c \in live' \/ name'[c] # 0 PROVE Made(c)'
      OBVIOUS
    <3>1. CASE c = Current(r)
      BY <1>1, <1>4, <2>2, <3>1 DEF Made
    <3>2. CASE c # Current(r)
      BY <2>3, <2>5, <3>2 DEF OwnIsNew
    <3> QED BY <3>1, <3>2
  <2>9. \A c \in Calls : name'[c] <= Cardinality(Calls)
    BY <2>5 DEF OwnIsNew
  <2> QED BY <2>6, <2>7, <2>8, <2>9 DEF OwnIsNew
<1>12. NoSessionLost'
  BY DEF NoSessionLost, Start
<1> QED  BY <1>3, <1>5, <1>6, <1>8, <1>9, <1>10, <1>11, <1>12, <1>13

\* The end of a call, with a result or by a cancel, keeps the invariant: sessions is
\* what it took, how tells what became of its process.
LEMMA EndStep ==
  ASSUME IInv, NEW r \in Runs, phase[r] # "over",
         NEW sessions \in SUBSET Calls,
         NEW how \in {"returned", "notFound", "timeout", "cancelled"},
         phase[r] = "calling" => how \in {"timeout", "cancelled"} \/ Current(r) \notin live,
         how = "returned" => Current(r) \notin live /\ (name[Current(r)] # 0 => sessions # {}),
         sessions = {} \/ (phase[r] = "calling" /\ sessions \subseteq Sessions(cwd[r]) \ before[r]),
         ended' = [ended EXCEPT ![Current(r)] = how],
         got' = [got EXCEPT ![Current(r)] = sessions],
         \/ /\ turn[r] < Turns[r]
            /\ turn' = [turn EXCEPT ![r] = @ + 1]
            /\ phase' = [phase EXCEPT ![r] = "ready"]
         \/ phase' = [phase EXCEPT ![r] = "over"] /\ turn' = turn,
         overlap \subseteq overlap', overlap' \in SUBSET (Runs \X Runs), OverlapIsKnown',
         UNCHANGED <<cwd, limit, before, live, name>>
  PROVE  IInv'
<1> USE DEF IInv
<1>1. /\ Current(r) \in Calls /\ Current(r)[1] = r /\ Current(r)[2] = turn[r]
      /\ ended[Current(r)] = "no"
  BY CurrentFacts
<1>2. TypeOK'
  <2>1. turn[r] \in Nat /\ Turns[r] \in Nat /\ turn[r] \in 1..Turns[r]
    BY MossSessionsAssumption DEF TypeOK
  <2>2. turn' \in [Runs -> Nat] /\ \A q \in Runs : turn'[q] \in 1..Turns[q]
    BY <2>1 DEF TypeOK
  <2> QED  BY <1>1, <2>2 DEF TypeOK
<1>3. /\ \A q \in Runs : q # r => phase'[q] = phase[q] /\ turn'[q] = turn[q]
      /\ \A q \in Runs : q # r => Current(q)' = Current(q)
      /\ phase'[r] \in {"ready", "over"}
      /\ phase'[r] = "over" \/ turn'[r] = turn[r] + 1
      /\ turn'[r] >= turn[r]
      /\ \A d : Sessions(d)' = Sessions(d)
      /\ \A c \in Calls : c # Current(r) => ended'[c] = ended[c] /\ got'[c] = got[c]
      /\ ended'[Current(r)] = how /\ got'[Current(r)] = sessions
  BY <1>1 DEF TypeOK, Current, Sessions
<1>4. LeftBehind \subseteq LeftBehind' /\ (how \in {"timeout", "cancelled"} => Current(r) \in LeftBehind')
  BY <1>1, <1>3 DEF LeftBehind
<1>5. EndedIsPast'
  <2> SUFFICES ASSUME NEW c \in Calls, ended'[c] # "no"
               PROVE  c[2] < turn'[c[1]] \/ phase'[c[1]] = "over"
    BY DEF EndedIsPast
  <2>1. c[1] \in Runs /\ c[2] \in Nat /\ turn[r] \in Nat /\ turn'[r] \in Nat
    BY <1>2, CallFacts, MossSessionsAssumption DEF TypeOK
  <2>2. CASE c = Current(r)
    BY <1>1, <1>3, <2>1, <2>2
  <2>3. CASE c # Current(r) /\ c[1] = r
    BY <1>3, <2>1, <2>3 DEF EndedIsPast
  <2>4. CASE c[1] # r
    <3>1. c # Current(r)
      BY <1>1, <2>4
    <3> QED  BY <1>3, <2>1, <2>4, <3>1 DEF EndedIsPast
  <2> QED  BY <2>2, <2>3, <2>4
<1>6. LiveIsKnown'
  <2> SUFFICES ASSUME NEW c \in live
               PROVE  c \in LeftBehind' \/ (phase'[c[1]] = "calling" /\ c = Current(c[1])')
    BY DEF LiveIsKnown
  <2>1. c \in Calls /\ c[1] \in Runs
    BY CallFacts DEF TypeOK
  <2>2. CASE c \in LeftBehind
    BY <1>4, <2>2
  <2>3. CASE c[1] = r /\ c \notin LeftBehind
    BY <1>4, <2>3 DEF LiveIsKnown
  <2>4. CASE c[1] # r /\ c \notin LeftBehind
    BY <1>3, <2>1, <2>4 DEF LiveIsKnown
  <2> QED  BY <2>2, <2>3, <2>4
<1>8. NewIsKnown'
  BY <1>3, <1>4 DEF NewIsKnown
<1>9. \A s \in sessions : name[s] # 0 /\ cwd[s[1]] = cwd[r]
  BY DEF Sessions
<1>10. TakenIsListed'
  <2>1. \A c \in Calls : \A s \in got'[c] : name[s] # 0
    BY <1>1, <1>3, <1>9 DEF TakenIsListed
  <2>2. ASSUME NEW q \in Runs, phase'[q] = "calling", NEW c \in Calls,
               NEW s \in got'[c] \cap Sessions(cwd[q])
        PROVE  s \in before[q] \/ (c[1] # q /\ <<c[1], q>> \in overlap')
    <3>1. q # r /\ phase[q] = "calling"
      BY <1>3, <2>2
    <3>2. CASE c = Current(r)
      <4>1. phase[r] = "calling"
        BY <1>3, <2>2, <3>2
      <4>2. r \in InProgress /\ q \in InProgress
        BY <3>1, <4>1 DEF InProgress
      <4> QED BY <1>1, <3>1, <3>2, <4>2 DEF OverlapIsKnown
    <3>3. CASE c # Current(r)
      BY <1>3, <2>2, <3>1, <3>3 DEF TakenIsListed
    <3> QED  BY <3>2, <3>3
  <2>3. \A c \in Calls : ended'[c] = "no" => got'[c] = {}
    BY <1>1, <1>3 DEF TakenIsListed
  <2> QED  BY <1>3, <2>1, <2>2, <2>3 DEF TakenIsListed
<1>11. \A s \in sessions :
         s # Current(r) => s \in LeftBehind \/ (s[1] # r /\ <<s[1], r>> \in overlap)
  BY DEF NewIsKnown
<1>12. OnlyOverlapMisattributes'
  <2> SUFFICES ASSUME NEW c \in Calls, NEW s \in got'[c], s # c
               PROVE  cwd[s[1]] = cwd[c[1]] /\ (s \in LeftBehind' \/ (s[1] # c[1] /\ <<s[1], c[1]>> \in overlap'))
    BY DEF OnlyOverlapMisattributes
  <2>1. CASE c = Current(r)
    BY <1>1, <1>3, <1>4, <1>9, <1>11, <2>1
  <2>2. CASE c # Current(r)
    BY <1>3, <1>4, <2>2 DEF OnlyOverlapMisattributes
  <2> QED  BY <2>1, <2>2
<1>13. \A c \in Calls : got[c] \cap sessions # {} =>
         c[1] # r /\ <<c[1], r>> \in overlap /\ <<r, c[1]>> \in overlap
  <2> SUFFICES ASSUME NEW c \in Calls, NEW s \in got[c] \cap sessions
               PROVE  c[1] # r /\ <<c[1], r>> \in overlap /\ <<r, c[1]>> \in overlap
    OBVIOUS
  <2>1. phase[r] = "calling" /\ s \in Sessions(cwd[r]) \ before[r]
    OBVIOUS
  <2>2. c[1] # r /\ <<c[1], r>> \in overlap
    BY <2>1 DEF TakenIsListed
  <2> QED  BY <2>2, CallFacts DEF OverlapIsKnown
<1>14. TakenOnce'
  <2> SUFFICES ASSUME NEW c \in Calls, NEW d \in Calls, c # d, got'[c] \cap got'[d] # {}
               PROVE  c[1] # d[1] /\ <<c[1], d[1]>> \in overlap'
    BY DEF TakenOnce
  <2>1. CASE c = Current(r)
    BY <1>1, <1>3, <1>13, <2>1
  <2>2. CASE d = Current(r)
    BY <1>1, <1>3, <1>13, <2>2
  <2>3. CASE c # Current(r) /\ d # Current(r)
    BY <1>3, <2>3 DEF TakenOnce
  <2> QED  BY <2>1, <2>2, <2>3
<1>15. OwnIsNew'
  <2>1. ASSUME NEW c \in Calls, Made(c) PROVE Made(c)'
    <3>1. c[1] \in Runs /\ c[2] \in Nat /\ turn[c[1]] \in Nat /\ turn'[c[1]] \in Nat
      BY <1>2, CallFacts, MossSessionsAssumption DEF TypeOK
    <3>2. CASE c[1] = r
      BY <1>3, <2>1, <3>1, <3>2 DEF Made
    <3>3. CASE c[1] # r
      BY <1>3, <2>1, <3>1, <3>3 DEF Made
    <3> QED BY <3>2, <3>3
  <2>2. \A q \in Runs : phase'[q] = "calling" => Current(q)' \notin before'[q]
    BY <1>3 DEF OwnIsNew
  <2>3. \A c \in Calls : ended'[c] = "returned" => c \notin live'
    BY <1>1, <1>3 DEF OwnIsNew
  <2> QED BY <2>1, <2>2, <2>3 DEF OwnIsNew
<1>16. NoSessionLost'
  BY <1>1, <1>3 DEF NoSessionLost
<1> QED  BY <1>2, <1>5, <1>6, <1>8, <1>10, <1>12, <1>14, <1>15, <1>16

\* A result or a cancel of a call keeps the invariant.
LEMMA AnswerStep ==
  ASSUME IInv, NEW r \in Runs, NoMoss(r) \/ Return(r) \/ Timeout(r) \/ Cancel(r)
  PROVE  IInv'
<1> USE DEF IInv
<1>1. ASSUME phase[r] = "calling", \A q \in Runs : q # r => phase'[q] = phase[q],
             overlap' = overlap
      PROVE  overlap \subseteq overlap' /\ overlap' \in SUBSET (Runs \X Runs) /\ OverlapIsKnown'
  <2>1. InProgress' \subseteq InProgress
    BY <1>1 DEF InProgress
  <2>2. OverlapIsKnown'
    BY <1>1, <2>1 DEF OverlapIsKnown
  <2> QED BY <1>1, <2>2 DEF TypeOK
<1>2. CASE NoMoss(r)
  <2>1. phase[r] \in {"waiting", "ready"}
    BY <1>2 DEF NoMoss, MayCall
  <2>2. InProgress' \subseteq InProgress \cup {r}
    BY <1>2 DEF NoMoss, EndCall, InProgress, TypeOK
  <2>3. overlap \subseteq overlap' /\ overlap' \in SUBSET (Runs \X Runs) /\ OverlapIsKnown'
    BY <1>2, <2>2, OverlapGrows DEF NoMoss
  <2> HIDE DEF IInv
  <2> QED  BY <1>2, <2>1, <2>3, EndStep DEF NoMoss, EndCall
<1>3. CASE Return(r)
  <2>1. Extracted(r) \subseteq Sessions(cwd[r]) \ before[r] /\ Extracted(r) \subseteq Calls
    BY DEF Extracted, Sessions
  <2>2. /\ phase[r] = "calling" /\ Current(r) \notin live
        /\ EndCall(r, "returned", Extracted(r))
        /\ UNCHANGED <<cwd, limit, before, live, name, overlap>>
    BY <1>3 DEF Return
  <2>3. Current(r) \in Calls /\ Current(r)[1] = r
    BY CurrentFacts
  <2>4. name[Current(r)] # 0 => Extracted(r) # {}
    BY <2>2, <2>3, OwnIsFound
  <2>5. \A q \in Runs : q # r => phase'[q] = phase[q]
    BY <2>2 DEF EndCall, TypeOK
  <2>6. overlap \subseteq overlap' /\ overlap' \in SUBSET (Runs \X Runs) /\ OverlapIsKnown'
    BY <1>1, <2>2, <2>5
  <2> HIDE DEF IInv
  <2> QED  BY <2>1, <2>2, <2>4, <2>6, EndStep DEF EndCall
<1>4. CASE Timeout(r)
  <2>1. phase[r] = "calling" /\ overlap' = overlap /\ \A q \in Runs : q # r => phase'[q] = phase[q]
    BY <1>4 DEF Timeout, EndCall, TypeOK
  <2>2. overlap \subseteq overlap' /\ overlap' \in SUBSET (Runs \X Runs) /\ OverlapIsKnown'
    BY <1>1, <2>1
  <2> HIDE DEF IInv
  <2> QED  BY <1>4, <2>2, EndStep DEF Timeout, EndCall
<1>5. CASE Cancel(r)
  <2>1. Current(r) \in Calls /\ ended[Current(r)] = "no" /\ phase[r] = "calling"
    BY <1>5, CurrentFacts DEF Cancel
  <2>2. got[Current(r)] = {} /\ got \in [Calls -> SUBSET Calls]
    BY <2>1 DEF TakenIsListed, TypeOK
  <2>3. got' = [got EXCEPT ![Current(r)] = {}]
    BY <1>5, <2>1, <2>2 DEF Cancel
  <2>4. overlap' = overlap /\ \A q \in Runs : q # r => phase'[q] = phase[q]
    BY <1>5 DEF Cancel, TypeOK
  <2>5. overlap \subseteq overlap' /\ overlap' \in SUBSET (Runs \X Runs) /\ OverlapIsKnown'
    BY <1>1, <2>1, <2>4
  <2> HIDE DEF IInv
  <2> QED  BY <1>5, <2>1, <2>3, <2>5, EndStep DEF Cancel
<1> QED  BY <1>2, <1>3, <1>4, <1>5

\* A session file that is written keeps the invariant: who finds it and did not
\* write it runs at the same time as its writer.
LEMMA WriteStep ==
  ASSUME IInv, NEW c \in Calls, Write(c) PROVE IInv'
<1> USE DEF IInv
<1>1. PICK n \in 1..Cardinality(Calls) : name' = [name EXCEPT ![c] = n]
  BY DEF Write
<1>2. c \in live /\ name[c] = 0
  BY DEF Write
<1>3. n \in Nat /\ n # 0
  OBVIOUS
<1>4. TypeOK'
  BY <1>1, <1>3 DEF TypeOK, Write
<1>5. /\ \A r \in Runs : Sessions(cwd[r])' \subseteq Sessions(cwd[r]) \cup {c}
      /\ \A s \in Calls : name[s] # 0 => name'[s] # 0
      /\ \A s \in Calls : s # c => name'[s] = name[s]
  BY <1>1, <1>3 DEF TypeOK, Write, Sessions
<1>6. EndedIsPast' /\ LiveIsKnown' /\ OverlapIsKnown' /\ OnlyOverlapMisattributes' /\ TakenOnce'
  BY DEF Write, EndedIsPast, LiveIsKnown, OverlapIsKnown, OnlyOverlapMisattributes, TakenOnce,
         Current, InProgress, LeftBehind
<1>7. NewIsKnown'
  <2> SUFFICES ASSUME NEW r \in Runs, phase[r] = "calling",
                      NEW s \in Sessions(cwd[r])' \ before[r], s # Current(r)
               PROVE  s \in LeftBehind \/ (s[1] # r /\ <<s[1], r>> \in overlap)
    BY DEF NewIsKnown, Write, LeftBehind, Current
  <2>1. CASE s # c
    BY <1>5, <2>1 DEF NewIsKnown
  <2>2. CASE s = c /\ c \notin LeftBehind
    <3>1. phase[c[1]] = "calling" /\ c = Current(c[1]) /\ c[1] \in Runs
      BY <1>2, <2>2, CallFacts DEF LiveIsKnown
    <3>2. c[1] # r
      BY <2>2, <3>1
    <3>3. <<c[1], r>> \in overlap
      BY <3>1, <3>2 DEF OverlapIsKnown, InProgress
    <3> QED  BY <2>2, <3>2, <3>3
  <2> QED  BY <2>1, <2>2
<1>8. TakenIsListed'
  <2>1. \A d \in Calls : \A s \in got[d] : s \in Calls /\ name'[s] # 0
    BY <1>5 DEF TypeOK, TakenIsListed
  <2>2. \A d \in Calls : c \notin got[d]
    BY <1>2 DEF TakenIsListed
  <2> QED  BY <1>5, <2>1, <2>2 DEF TakenIsListed, Write
<1>9. OwnIsNew'
  <2>1. \A d \in Calls : name'[d] = name[d] \/ (d = c /\ name'[d] = n)
    BY <1>1 DEF TypeOK
  <2>2. \A d \in Calls : d \in live' \/ name'[d] # 0 => Made(d)'
    BY <1>2, <2>1 DEF OwnIsNew, Made, Write
  <2>3. \A d \in Calls : name'[d] <= Cardinality(Calls)
    BY <2>1, CallsFinite DEF OwnIsNew
  <2> QED BY <2>2, <2>3 DEF OwnIsNew, Write, Current
<1>10. NoSessionLost'
  <2>1. ended[c] # "returned"
    BY <1>2 DEF OwnIsNew
  <2> QED BY <1>5, <2>1 DEF NoSessionLost, Write
<1> QED  BY <1>4, <1>6, <1>7, <1>8, <1>9, <1>10

\* The end of a Moss process, and no step at all, keep the invariant.
LEMMA ExitStep ==
  ASSUME IInv, (\E c \in Calls : Exit(c)) \/ UNCHANGED vars PROVE IInv'
<1> USE DEF IInv
<1>1. live' \subseteq live /\ UNCHANGED <<cwd, limit, phase, turn, before, name, ended, got, overlap>>
  BY DEF Exit, vars
<1>2. TypeOK'
  BY <1>1 DEF TypeOK
<1>3. EndedIsPast' /\ LiveIsKnown' /\ OverlapIsKnown' /\ OnlyOverlapMisattributes' /\ TakenOnce'
  BY <1>1 DEF EndedIsPast, LiveIsKnown, OverlapIsKnown, OnlyOverlapMisattributes, TakenOnce,
              Current, InProgress, LeftBehind
<1>4. NewIsKnown' /\ TakenIsListed'
  BY <1>1 DEF NewIsKnown, TakenIsListed, Sessions, LeftBehind, Current
<1>5. OwnIsNew' /\ NoSessionLost'
  BY <1>1 DEF OwnIsNew, Made, NoSessionLost, Current
<1> QED  BY <1>2, <1>3, <1>4, <1>5

-----------------------------------------------------------------------------
\* The inductive invariant of the runs and their Moss processes holds at all times.
THEOREM IInvHolds == Spec => []IInv
<1>1. IInv /\ [Next]_vars => IInv'
  BY StartStep, AnswerStep, WriteStep, ExitStep DEF Next, RunStep, Over
<1> QED
  BY InvInit, <1>1, PTL DEF Spec

\* The runs, their processes and the session files keep their types.
THEOREM TypeCorrect == Spec => []TypeOK
<1>1. IInv => TypeOK
  BY DEF IInv
<1> QED
  BY IInvHolds, <1>1, PTL

\* For any runs, turns, placements and limits: a call is judged by another call's
\* session only if that call was made in the same directory and was left behind, or
\* is of another run that has been in progress together with this call's
\* (cli_backend.py:69-78, 115).
THEOREM SessionsMixOnlyByOverlap == Spec => []OnlyOverlapMisattributes
<1>1. IInv => OnlyOverlapMisattributes
  BY DEF IInv
<1> QED
  BY IInvHolds, <1>1, PTL

\* For any runs, turns, placements and limits: a call whose process ended in time
\* after it wrote its session is judged by some session, never as if Moss had
\* called no tool (cli_backend.py:69-78, 120-123).
THEOREM NoSessionIsLost == Spec => []NoSessionLost
<1>1. IInv => NoSessionLost
  BY DEF IInv
<1> QED
  BY IInvHolds, <1>1, PTL

\* For any runs, turns, placements and limits: two turns of one conversation never
\* take the same session, nor do two runs that were at no time in progress together,
\* whatever runs beside them (cli_backend.py:75).
THEOREM SessionsAreTakenOnce == Spec => []TakenOnce
<1>1. IInv => TakenOnce
  BY DEF IInv
<1> QED
  BY IInvHolds, <1>1, PTL
==============================================================================
