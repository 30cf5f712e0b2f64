--------------------------- MODULE SequenceLemmas ---------------------------
(***************************************************************************)
(* What the library's operators on sequences give, for sequences of any      *)
(* length: FlattenSeq and the folds, which are defined by recursive          *)
(* functions.  An induction over a number is one over the set of numbers      *)
(* that have a property, from the well-foundedness of < on Nat.               *)
(***************************************************************************)
EXTENDS Integers, SequencesExt, FiniteSetTheorems, WellFoundedInduction, SequenceTheorems, TLAPS

\* Induction: a set that has 0 and, with a number, the next one, has every number.
LEMMA NatSet ==
  ASSUME NEW S, 0 \in S, \A n \in Nat : n \in S => n + 1 \in S
  PROVE  \A n \in Nat : n \in S
<1> DEFINE T == Nat \ S
           R == OpToRel(<, Nat)
<1>1. IsWellFoundedOn(R, Nat)
  BY NatLessThanWellFounded
<1>2. \A x, y \in Nat : <<x, y>> \in R <=> x < y
  BY DEF OpToRel
<1> HIDE DEF R
<1>3. ASSUME T # {} PROVE FALSE
  <2>1. PICK x \in T : \A y \in T : <<y, x>> \notin R
    BY <1>1, <1>3, WFMin
  <2>2. x # 0 /\ x - 1 \in Nat /\ x - 1 \notin S
    BY <2>1
  <2>3. x - 1 \in T /\ <<x - 1, x>> \in R
    BY <1>2, <2>2
  <2> QED BY <2>1, <2>3
<1> QED BY <1>3

\* The least number of a set.
LEMMA LeastNumber ==
  ASSUME NEW S \in SUBSET Nat, S # {}
  PROVE  \E m \in S : \A x \in S : m <= x
<1> DEFINE R == OpToRel(<, Nat)
<1>1. IsWellFoundedOn(R, Nat)
  BY NatLessThanWellFounded
<1>2. \A x, y \in Nat : <<x, y>> \in R <=> x < y
  BY DEF OpToRel
<1> HIDE DEF R
<1>3. PICK m \in S : \A y \in S : <<y, m>> \notin R
  BY <1>1, WFMin
<1>4. \A y \in S : y \in Nat /\ ~(y < m)
  BY <1>2, <1>3
<1> QED BY <1>4

\* The greatest number of a set that has a bound.
LEMMA GreatestNumber ==
  ASSUME NEW S \in SUBSET Nat, S # {}, NEW b \in Nat, \A x \in S : x <= b
  PROVE  \E m \in S : \A x \in S : x <= m
<1> DEFINE T == {b - x : x \in S}
<1>1. T \in SUBSET Nat /\ T # {}
  <2>1. \A x \in S : b - x \in Nat
    OBVIOUS
  <2> QED BY <2>1
<1> HIDE DEF T
<1>2. PICK t \in T : \A y \in T : t <= y
  BY <1>1, LeastNumber
<1>3. PICK m \in S : t = b - m
  BY DEF T
<1>4. ASSUME NEW x \in S PROVE x <= m
  <2>1. b - x \in T
    BY DEF T
  <2> QED BY <1>2, <1>3, <2>1
<1> QED BY <1>4

\* Max of a set of places is one of them and no other is greater.
LEMMA MaxOfPlaces ==
  ASSUME NEW n \in Nat, NEW s \in SUBSET (1..n), s # {}
  PROVE  Max(s) \in s /\ \A x \in s : x <= Max(s)
<1>1. \E m \in s : \A x \in s : x <= m
  <2>1. s \in SUBSET Nat /\ \A x \in s : x <= n
    OBVIOUS
  <2> QED BY <2>1, GreatestNumber
<1>2. \E m \in s : \A x \in s : m >= x
  BY <1>1
<1> QED BY <1>2 DEF Max

LEMMA MaxOfInterval ==
  ASSUME NEW k \in Nat, k # 0
  PROVE  Max(1..k) = k /\ (1..k) \ {Max(1..k)} = 1..(k - 1)
<1>1. k \in 1..k /\ (1..k) # {}
  OBVIOUS
<1>2. Max(1..k) \in 1..k /\ \A x \in 1..k : x <= Max(1..k)
  BY <1>1, MaxOfPlaces
<1> QED BY <1>1, <1>2

-----------------------------------------------------------------------------
(***************************************************************************)
(* Folds.  FoldLeft(op, base, seq) is iter[DOMAIN seq], where iter is a        *)
(* recursive function on the sets of places: FoldExists says that there is     *)
(* one, FoldIsLoop that it gives what the loop over the places gives, in turn. *)
(* op(acc, seq[i]) is F[<<i, acc>>], as an operator cannot be a parameter of   *)
(* a lemma; F is known on the values V of the loop only.                       *)
(***************************************************************************)
FoldsBy(g, n, base, F) ==
  \A s \in SUBSET (1..n) :
    g[s] = IF s = {} THEN base ELSE F[<<Max(s), g[s \ {Max(s)}]>>]

FoldsOn(V, c, n, base, F) ==
  /\ F \in [(1..n) \X V -> V]
  /\ c[{}] = base
  /\ \A s \in SUBSET (1..n) : s # {} /\ c[s \ {Max(s)}] \in V
       => c[s] = F[<<Max(s), c[s \ {Max(s)}]>>]

LoopsBy(h, n, V, base, F) ==
  /\ h \in [0..n -> V]
  /\ h[0] = base
  /\ \A k \in 1..n : h[k] = F[<<k, h[k - 1]>>]

LEMMA FoldExists ==
  ASSUME NEW n \in Nat, NEW V, NEW base \in V, NEW F \in [(1..n) \X V -> V]
  PROVE  \E g \in [SUBSET (1..n) -> V] : FoldsBy(g, n, base, F)
<1> DEFINE P(k) == \E g \in [SUBSET (1..k) -> V] : FoldsBy(g, k, base, F)
           N == {k \in Nat : k <= n => P(k)}
<1>1. P(0)
  <2> DEFINE g == [s \in SUBSET (1..0) |-> base]
  <2>1. \A s \in SUBSET (1..0) : s = {}
    OBVIOUS
  <2>2. g \in [SUBSET (1..0) -> V]
    OBVIOUS
  <2>3. FoldsBy(g, 0, base, F)
    BY <2>1 DEF FoldsBy
  <2> QED BY <2>2, <2>3
<1>2. ASSUME NEW k \in Nat, k + 1 <= n, P(k) PROVE P(k + 1)
  <2>1. PICK g \in [SUBSET (1..k) -> V] : FoldsBy(g, k, base, F)
    BY <1>2
  <2> DEFINE h == [s \in SUBSET (1..(k + 1)) |->
                     IF k + 1 \in s THEN F[<<k + 1, g[s \ {k + 1}]>>] ELSE g[s]]
  <2>2. ASSUME NEW s \in SUBSET (1..(k + 1)), k + 1 \in s
        PROVE  /\ s # {} /\ Max(s) = k + 1 /\ s \ {k + 1} \in SUBSET (1..k)
               /\ h[s] = F[<<k + 1, g[s \ {k + 1}]>>] /\ h[s] \in V
    <3>1. s # {} /\ k + 1 \in Nat
      BY <2>2
    <3>2. Max(s) \in s /\ k + 1 <= Max(s)
      BY <2>2, <3>1, MaxOfPlaces
    <3>3. Max(s) = k + 1
      <4>1. Max(s) \in 1..(k + 1)
        BY <3>2
      <4> QED BY <3>2, <4>1
    <3>4. s \ {k + 1} \in SUBSET (1..k)
      OBVIOUS
    <3>5. h[s] = F[<<k + 1, g[s \ {k + 1}]>>]
      BY <2>2
    <3>6. <<k + 1, g[s \ {k + 1}]>> \in (1..n) \X V
      <4> HIDE DEF h
      <4>1. k + 1 \in 1..n /\ g[s \ {k + 1}] \in V
        BY <1>2, <3>4
      <4> QED BY <4>1
    <3> HIDE DEF h
    <3> QED BY <3>1, <3>3, <3>4, <3>5, <3>6
  <2>3. ASSUME NEW s \in SUBSET (1..(k + 1)), k + 1 \notin s
        PROVE  s \in SUBSET (1..k) /\ h[s] = g[s] /\ h[s] \in V
    <3>1. s \in SUBSET (1..k)
      BY <2>3
    <3>2. h[s] = g[s]
      BY <2>3
    <3> HIDE DEF h
    <3> QED BY <3>1, <3>2
  <2>4. DOMAIN h = SUBSET (1..(k + 1)) /\ h = [s \in DOMAIN h |-> h[s]]
    OBVIOUS
  <2> HIDE DEF h
  <2>5. h \in [SUBSET (1..(k + 1)) -> V]
    BY <2>2, <2>3, <2>4
  <2>6. ASSUME NEW s \in SUBSET (1..(k + 1))
        PROVE  h[s] = IF s = {} THEN base ELSE F[<<Max(s), h[s \ {Max(s)}]>>]
    <3>1. CASE k + 1 \in s
      <4>1. s \ {k + 1} \in SUBSET (1..(k + 1)) /\ k + 1 \notin s \ {k + 1}
        OBVIOUS
      <4>2. h[s \ {k + 1}] = g[s \ {k + 1}]
        BY <2>3, <4>1
      <4> QED BY <2>2, <3>1, <4>2
    <3>2. CASE k + 1 \notin s /\ s # {}
      <4>1. s \in SUBSET (1..k) /\ h[s] = g[s]
        BY <2>3, <3>2
      <4>2. g[s] = F[<<Max(s), g[s \ {Max(s)}]>>]
        BY <2>1, <3>2, <4>1 DEF FoldsBy
      <4>3. s \ {Max(s)} \in SUBSET (1..(k + 1)) /\ k + 1 \notin s \ {Max(s)}
        BY <3>2
      <4>4. h[s \ {Max(s)}] = g[s \ {Max(s)}]
        BY <2>3, <4>3
      <4> QED BY <3>2, <4>1, <4>2, <4>4
    <3>3. CASE s = {}
      <4>1. s \in SUBSET (1..k) /\ h[s] = g[s]
        BY <2>3, <3>3
      <4> QED BY <2>1, <3>3, <4>1 DEF FoldsBy
    <3> QED BY <3>1, <3>2, <3>3
  <2> QED BY <2>5, <2>6 DEF FoldsBy
<1> HIDE DEF P
<1>3. 0 \in N
  BY <1>1
<1>4. \A k \in Nat : k \in N => k + 1 \in N
  BY <1>2
<1>5. n \in N
  <2> HIDE DEF N
  <2> QED BY <1>3, <1>4, NatSet
<1>6. P(n)
  BY <1>5
<1> QED BY <1>6 DEF P

LEMMA FoldIsLoop ==
  ASSUME NEW n \in Nat, NEW V, NEW base \in V, NEW F, NEW c, FoldsOn(V, c, n, base, F)
  PROVE  \E h : LoopsBy(h, n, V, base, F) /\ c[1..n] = h[n]
<1> DEFINE N == {k \in Nat : k <= n => c[1..k] \in V}
<1>1. ASSUME NEW k \in 1..n, c[1..(k - 1)] \in V
      PROVE  c[1..k] = F[<<k, c[1..(k - 1)]>>] /\ c[1..k] \in V
  <2>1. 1..k \in SUBSET (1..n) /\ 1..k # {}
    OBVIOUS
  <2>2. Max(1..k) = k /\ (1..k) \ {Max(1..k)} = 1..(k - 1)
    BY MaxOfInterval
  <2>3. c[1..k] = F[<<k, c[1..(k - 1)]>>]
    BY <1>1, <2>1, <2>2 DEF FoldsOn
  <2>4. <<k, c[1..(k - 1)]>> \in (1..n) \X V
    BY <1>1
  <2> QED BY <2>3, <2>4 DEF FoldsOn
<1>2. 1..0 = {} /\ c[1..0] = base
  BY DEF FoldsOn
<1>3. 0 \in N
  BY <1>2
<1>4. ASSUME NEW k \in Nat, k \in N PROVE k + 1 \in N
  <2> SUFFICES ASSUME k + 1 <= n PROVE c[1..(k + 1)] \in V
    OBVIOUS
  <2>1. k + 1 \in 1..n /\ (k + 1) - 1 = k /\ c[1..k] \in V
    BY <1>4
  <2> QED BY <1>1, <2>1
<1>5. \A k \in 0..n : c[1..k] \in V
  <2>1. \A k \in Nat : k \in N
    <3> HIDE DEF N
    <3> QED BY <1>3, <1>4, NatSet
  <2> QED BY <2>1
<1> DEFINE h == [k \in 0..n |-> c[1..k]]
<1>6. h \in [0..n -> V] /\ \A k \in 0..n : h[k] = c[1..k]
  BY <1>5
<1> HIDE DEF h
<1>7. ASSUME NEW k \in 1..n PROVE h[k] = F[<<k, h[k - 1]>>]
  <2>1. k \in 0..n /\ k - 1 \in 0..n
    OBVIOUS
  <2> QED BY <1>1, <1>5, <1>6, <2>1
<1>8. LoopsBy(h, n, V, base, F) /\ c[1..n] = h[n]
  BY <1>2, <1>6, <1>7 DEF LoopsBy
<1> QED BY <1>8

-----------------------------------------------------------------------------
(***************************************************************************)
(* FlattenSeq(ss): the concatenation of the sequences of ss, one after the    *)
(* other; off[i] is how many elements come before those of ss[i].             *)
(***************************************************************************)
FlattensBy(f, ss) ==
  /\ f[0] = << >>
  /\ \A i \in 1..Len(ss) : f[i] = f[i - 1] \o ss[i]

LEMMA FlattenIsLoop ==
  ASSUME NEW S, NEW ss \in Seq(Seq(S))
  PROVE  \E f \in [0..Len(ss) -> Seq(S)] : FlattensBy(f, ss) /\ FlattenSeq(ss) = f[Len(ss)]
<1> DEFINE n == Len(ss)
           Step(g, i) == IF i = 1 THEN ss[i] ELSE g[i - 1] \o ss[i]
           P(k) == \E g \in [1..k -> Seq(S)] : \A i \in 1..k : g[i] = Step(g, i)
           N == {k \in Nat : k <= n => P(k)}
<1>1. n \in Nat /\ \A i \in 1..n : ss[i] \in Seq(S)
  OBVIOUS
<1> HIDE DEF n
<1>2. P(0)
  <2> DEFINE g == [i \in 1..0 |-> << >>]
  <2>1. g \in [1..0 -> Seq(S)]
    OBVIOUS
  <2>2. \A i \in 1..0 : g[i] = Step(g, i)
    OBVIOUS
  <2> HIDE DEF g, Step
  <2> QED BY <2>1, <2>2
<1>3. ASSUME NEW k \in Nat, k + 1 <= n, P(k) PROVE P(k + 1)
  <2>1. PICK g \in [1..k -> Seq(S)] : \A i \in 1..k : g[i] = Step(g, i)
    BY <1>3
  <2> DEFINE h == [i \in 1..(k + 1) |-> IF i = k + 1 THEN Step(g, k + 1) ELSE g[i]]
  <2>2. k + 1 \in 1..n /\ ss[k + 1] \in Seq(S)
    BY <1>1, <1>3
  <2>3. Step(g, k + 1) \in Seq(S)
    <3>1. CASE k = 0
      BY <2>2, <3>1
    <3>2. CASE k # 0
      <4>1. g[k] \in Seq(S) /\ (k + 1) - 1 = k
        BY <3>2
      <4> QED BY <2>2, <3>2, <4>1
    <3> QED BY <3>1, <3>2
  <2>4. h \in [1..(k + 1) -> Seq(S)]
    <3> HIDE DEF Step
    <3> QED BY <2>3
  <2>5. ASSUME NEW i \in 1..(k + 1) PROVE h[i] = Step(h, i)
    <3>1. i # 1 => i - 1 \in 1..k /\ h[i - 1] = g[i - 1]
      OBVIOUS
    <3>2. Step(h, i) = Step(g, i)
      BY <3>1
    <3>3. h[i] = Step(g, i)
      <4>1. CASE i = k + 1
        BY <4>1
      <4>2. CASE i # k + 1
        <5>1. i \in 1..k /\ h[i] = g[i]
          BY <4>2
        <5> QED BY <2>1, <5>1
      <4> QED BY <4>1, <4>2
    <3> QED BY <3>2, <3>3
  <2> HIDE DEF h, Step
  <2> QED BY <2>4, <2>5
<1>4. P(n)
  <2> HIDE DEF P
  <2>1. 0 \in N
    BY <1>2
  <2>2. \A k \in Nat : k \in N => k + 1 \in N
    BY <1>1, <1>3
  <2>3. n \in N
    <3> HIDE DEF N
    <3> QED BY <1>1, <2>1, <2>2, NatSet
  <2> QED BY <2>3
<1> DEFINE c == CHOOSE c : c = [i \in 1..n |-> Step(c, i)]
<1>5. c = [i \in 1..n |-> Step(c, i)]
  <2>1. PICK g \in [1..n -> Seq(S)] : \A i \in 1..n : g[i] = Step(g, i)
    BY <1>4
  <2>2. g = [i \in 1..n |-> Step(g, i)]
    <3> HIDE DEF Step
    <3> QED BY <2>1
  <2> QED BY <2>2
<1>6. FlattenSeq(ss) = IF n = 0 THEN ss ELSE c[n]
  BY Zenon DEF FlattenSeq, n
<1> HIDE DEF c
<1>7. \A i \in 1..n : c[i] = Step(c, i)
  <2> HIDE DEF Step
  <2> QED BY <1>5
<1> DEFINE M == {k \in Nat : k + 1 <= n => c[k + 1] \in Seq(S)}
<1>8. 0 \in M
  BY <1>1, <1>7
<1>9. ASSUME NEW k \in Nat, k \in M PROVE k + 1 \in M
  <2> SUFFICES ASSUME k + 2 <= n PROVE c[k + 2] \in Seq(S)
    OBVIOUS
  <2>1. c[k + 1] \in Seq(S)
    BY <1>1, <1>9
  <2>2. k + 2 \in 1..n /\ k + 2 # 1 /\ (k + 2) - 1 = k + 1
    OBVIOUS
  <2>3. c[k + 2] = c[k + 1] \o ss[k + 2]
    BY <1>7, <2>2
  <2> QED BY <1>1, <2>1, <2>2, <2>3
<1>10. \A k \in Nat : k \in M
  <2> HIDE DEF M
  <2> QED BY <1>8, <1>9, NatSet
<1>11. \A i \in 1..n : c[i] \in Seq(S)
  <2> TAKE i \in 1..n
  <2>1. i - 1 \in M /\ (i - 1) + 1 = i
    BY <1>1, <1>10
  <2> QED BY <2>1
<1> DEFINE f == [i \in 0..n |-> IF i = 0 THEN << >> ELSE c[i]]
<1>12. f \in [0..n -> Seq(S)] /\ f[0] = << >> /\ \A i \in 1..n : f[i] = c[i]
  BY <1>1, <1>11
<1> HIDE DEF f
<1>13. ASSUME NEW i \in 1..n PROVE f[i] = f[i - 1] \o ss[i]
  <2>1. CASE i = 1
    <3>1. f[i] = ss[i] /\ f[i - 1] = << >> /\ ss[i] \in Seq(S)
      BY <1>1, <1>7, <1>12, <2>1
    <3> QED BY <3>1
  <2>2. CASE i # 1
    <3>1. i - 1 \in 1..n
      BY <1>1, <2>2
    <3>2. f[i] = c[i - 1] \o ss[i] /\ f[i - 1] = c[i - 1]
      BY <1>7, <1>12, <2>2, <3>1
    <3> QED BY <3>2
  <2> QED BY <2>1, <2>2
<1>14. FlattenSeq(ss) = f[n]
  <2>1. CASE n = 0
    <3>1. ss = << >>
      BY <2>1 DEF n
    <3> QED BY <1>6, <1>12, <2>1, <3>1
  <2>2. CASE n # 0
    BY <1>1, <1>6, <1>12, <2>2
  <2> QED BY <2>1, <2>2
<1> QED BY <1>12, <1>13, <1>14 DEF FlattensBy, n
\* Where one sequence is the beginning of another, the loops over both give the same.
LEMMA FlattensAlike ==
  ASSUME NEW ss, NEW tt, NEW f, NEW g,
         FlattensBy(f, ss), FlattensBy(g, tt), Len(ss) \in Nat, Len(tt) \in Nat,
         Len(ss) <= Len(tt), \A i \in 1..Len(ss) : ss[i] = tt[i]
  PROVE  f[Len(ss)] = g[Len(ss)]
<1> DEFINE n == Len(ss)
           N == {k \in Nat : k <= n => f[k] = g[k]}
<1>1. 0 \in N
  BY DEF FlattensBy
<1>2. ASSUME NEW k \in Nat, k \in N PROVE k + 1 \in N
  <2> SUFFICES ASSUME k + 1 <= n PROVE f[k + 1] = g[k + 1]
    OBVIOUS
  <2>1. f[k] = g[k] /\ ss[k + 1] = tt[k + 1] /\ k + 1 \in 1..Len(ss) /\ k + 1 \in 1..Len(tt)
    BY <1>2
  <2>2. f[k + 1] = f[(k + 1) - 1] \o ss[k + 1] /\ g[k + 1] = g[(k + 1) - 1] \o tt[k + 1]
    BY <2>1 DEF FlattensBy
  <2>3. (k + 1) - 1 = k
    OBVIOUS
  <2> QED BY <2>1, <2>2, <2>3
<1>3. n \in N
  <2> HIDE DEF N
  <2> QED BY <1>1, <1>2, NatSet
<1> QED BY <1>3

\* A sequence of sequences with one more at its end.
LEMMA FlattenAppend ==
  ASSUME NEW S, NEW ss \in Seq(Seq(S)), NEW s \in Seq(S)
  PROVE  /\ FlattenSeq(ss) \in Seq(S)
         /\ FlattenSeq(Append(ss, s)) = FlattenSeq(ss) \o s
<1> DEFINE n == Len(ss)
           tt == Append(ss, s)
<1>1. /\ n \in Nat /\ tt \in Seq(Seq(S)) /\ Len(tt) = n + 1
      /\ tt[n + 1] = s /\ \A i \in 1..n : ss[i] = tt[i]
  OBVIOUS
<1> HIDE DEF tt, n
<1>2. PICK f \in [0..n -> Seq(S)] : FlattensBy(f, ss) /\ FlattenSeq(ss) = f[n]
  BY FlattenIsLoop DEF n
<1>3. PICK g \in [0..Len(tt) -> Seq(S)] : FlattensBy(g, tt) /\ FlattenSeq(tt) = g[Len(tt)]
  BY <1>1, FlattenIsLoop
<1>4. f[n] = g[n]
  <2>1. n \in Nat /\ Len(ss) = n /\ Len(ss) \in Nat /\ Len(tt) \in Nat /\ Len(ss) <= Len(tt)
    BY <1>1 DEF n
  <2>2. FlattensBy(f, ss) /\ FlattensBy(g, tt) /\ \A i \in 1..Len(ss) : ss[i] = tt[i]
    BY <1>1, <1>2, <1>3 DEF n
  <2> HIDE DEF n
  <2> QED BY <2>1, <2>2, FlattensAlike
<1>5. g[n + 1] = g[n] \o s
  <2>1. n + 1 \in 1..Len(tt) /\ (n + 1) - 1 = n
    BY <1>1
  <2>2. g[n + 1] = g[(n + 1) - 1] \o tt[n + 1]
    BY <1>3, <2>1 DEF FlattensBy
  <2> QED BY <1>1, <2>1, <2>2
<1>6. f[n] \in Seq(S)
  BY <1>1, <1>2
<1> QED BY <1>1, <1>2, <1>3, <1>4, <1>5, <1>6 DEF tt

\* Where the elements of the sequences are.
StartsOf(off, ss) ==
  /\ off[1] = 0
  /\ \A i \in 1..Len(ss) : off[i + 1] = off[i] + Len(ss[i])

\* The first m sequences of ss, one after the other, are t.
Holds(t, off, ss, m) ==
  /\ Len(t) = off[m + 1]
  /\ \A i \in 1..m : \A k \in 1..Len(ss[i]) :
       off[i] + k \in 1..Len(t) /\ t[off[i] + k] = ss[i][k]
  /\ \A x \in 1..Len(t) : \E i \in 1..m : \E k \in 1..Len(ss[i]) : x = off[i] + k

LEMMA FlattenPlaces ==
  ASSUME NEW S, NEW ss \in Seq(Seq(S))
  PROVE  /\ FlattenSeq(ss) \in Seq(S)
         /\ \E off \in [1..(Len(ss) + 1) -> Nat] :
              StartsOf(off, ss) /\ Holds(FlattenSeq(ss), off, ss, Len(ss))
<1> DEFINE n == Len(ss)
<1>1. n \in Nat /\ \A i \in 1..n : ss[i] \in Seq(S) /\ Len(ss[i]) \in Nat
  OBVIOUS
<1> HIDE DEF n
<1>2. PICK f \in [0..n -> Seq(S)] : FlattensBy(f, ss) /\ FlattenSeq(ss) = f[n]
  BY FlattenIsLoop DEF n
<1> DEFINE off == [i \in 1..(n + 1) |-> Len(f[i - 1])]
<1>3. \A i \in 0..n : f[i] \in Seq(S) /\ Len(f[i]) \in Nat
  BY <1>1, <1>2
<1>4. off \in [1..(n + 1) -> Nat] /\ \A i \in 1..(n + 1) : off[i] = Len(f[i - 1])
  <2>1. \A i \in 1..(n + 1) : i - 1 \in 0..n
    BY <1>1
  <2> QED BY <1>3, <2>1
<1> HIDE DEF off
<1>5. ASSUME NEW i \in 1..n
      PROVE  /\ f[i] = f[i - 1] \o ss[i] /\ f[i - 1] \in Seq(S)
             /\ off[i] = Len(f[i - 1]) /\ off[i + 1] = Len(f[i])
             /\ Len(f[i]) = off[i] + Len(ss[i])
  <2>1. i - 1 \in 0..n /\ i \in 1..(n + 1) /\ i + 1 \in 1..(n + 1) /\ (i + 1) - 1 = i
    BY <1>1
  <2>2. f[i] = f[i - 1] \o ss[i]
    BY <1>2 DEF FlattensBy, n
  <2>3. f[i - 1] \in Seq(S) /\ ss[i] \in Seq(S)
    BY <1>1, <1>3, <2>1
  <2>4. Len(f[i]) = Len(f[i - 1]) + Len(ss[i])
    BY <2>2, <2>3
  <2> QED BY <1>4, <2>1, <2>2, <2>3, <2>4
<1>6. StartsOf(off, ss)
  <2>1. 1 \in 1..(n + 1) /\ 1 - 1 = 0 /\ f[0] = << >>
    BY <1>1, <1>2 DEF FlattensBy
  <2>2. off[1] = 0
    BY <1>4, <2>1
  <2> QED BY <1>5, <2>2 DEF StartsOf, n
<1> DEFINE N == {m \in Nat : m <= n => Holds(f[m], off, ss, m)}
<1>7. 0 \in N
  <2>1. f[0] = << >> /\ off[0 + 1] = 0
    BY <1>2, <1>6 DEF FlattensBy, StartsOf
  <2> QED BY <2>1 DEF Holds
<1>8. ASSUME NEW m \in Nat, m \in N PROVE m + 1 \in N
  <2> SUFFICES ASSUME m + 1 <= n PROVE Holds(f[m + 1], off, ss, m + 1)
    OBVIOUS
  <2> DEFINE t == f[m]
             u == f[m + 1]
             s == ss[m + 1]
  <2>1. Holds(t, off, ss, m)
    BY <1>1, <1>8
  <2>2. m + 1 \in 1..n /\ (m + 1) - 1 = m
    BY <1>1
  <2>3. /\ u = t \o s /\ t \in Seq(S) /\ s \in Seq(S) /\ off[m + 1] = Len(t)
        /\ off[(m + 1) + 1] = Len(u) /\ Len(u) = Len(t) + Len(s)
    BY <1>1, <1>5, <2>2
  <2> HIDE DEF t, u, s
  <2>4. /\ \A x \in 1..Len(t) : u[x] = t[x]
        /\ \A k \in 1..Len(s) : u[Len(t) + k] = s[k]
        /\ Len(t) \in Nat /\ Len(s) \in Nat
    BY <2>3
  <2>5. ASSUME NEW i \in 1..(m + 1), NEW k \in 1..Len(ss[i])
        PROVE  off[i] + k \in 1..Len(u) /\ u[off[i] + k] = ss[i][k]
    <3>1. CASE i = m + 1
      <4>1. ss[i] = s /\ off[i] = Len(t)
        BY <2>3, <3>1 DEF s
      <4>2. k \in 1..Len(s)
        BY <4>1
      <4> QED BY <2>3, <2>4, <4>1, <4>2
    <3>2. CASE i # m + 1
      <4>1. i \in 1..m
        BY <3>2
      <4>2. off[i] + k \in 1..Len(t) /\ t[off[i] + k] = ss[i][k]
        BY <2>1, <4>1 DEF Holds
      <4> QED BY <2>3, <2>4, <4>2
    <3> QED BY <3>1, <3>2
  <2>6. ASSUME NEW x \in 1..Len(u)
        PROVE  \E i \in 1..(m + 1) : \E k \in 1..Len(ss[i]) : x = off[i] + k
    <3>1. CASE x <= Len(t)
      <4>1. x \in 1..Len(t)
        BY <2>4, <3>1
      <4>2. PICK i \in 1..m : \E k \in 1..Len(ss[i]) : x = off[i] + k
        BY <2>1, <4>1 DEF Holds
      <4> QED BY <4>2
    <3>2. CASE x > Len(t)
      <4>1. x \in 1..(Len(t) + Len(s)) /\ off[m + 1] = Len(t)
        BY <2>3
      <4>2. x - Len(t) \in 1..Len(s) /\ x = off[m + 1] + (x - Len(t))
        BY <2>4, <3>2, <4>1
      <4>3. m + 1 \in 1..(m + 1)
        OBVIOUS
      <4> QED BY <4>2, <4>3 DEF s
    <3> QED BY <2>4, <3>1, <3>2
  <2> QED BY <2>3, <2>5, <2>6 DEF Holds, u
<1>9. n \in N
  <2> HIDE DEF N
  <2> QED BY <1>1, <1>7, <1>8, NatSet
<1>10. Holds(FlattenSeq(ss), off, ss, n)
  BY <1>1, <1>2, <1>9
<1>11. FlattenSeq(ss) \in Seq(S)
  BY <1>1, <1>2, <1>3
<1> QED BY <1>4, <1>6, <1>10, <1>11 DEF n

\* The elements of one sequence come before those of a later one.
LEMMA StartsGrow ==
  ASSUME NEW S, NEW ss \in Seq(Seq(S)), NEW off \in [1..(Len(ss) + 1) -> Nat], StartsOf(off, ss),
         NEW i \in 1..Len(ss), NEW j \in 1..(Len(ss) + 1), i < j
  PROVE  off[i + 1] <= off[j]
<1> DEFINE n == Len(ss)
<1>1. n \in Nat /\ \A k \in 1..n : Len(ss[k]) \in Nat /\ off[k + 1] = off[k] + Len(ss[k])
  BY DEF StartsOf
<1> HIDE DEF n
<1>2. \A k \in 1..(n + 1) : off[k] \in Nat
  BY DEF n
<1> DEFINE N == {d \in Nat : i + 1 + d <= n + 1 => off[i + 1] <= off[i + 1 + d]}
<1>3. 0 \in N
  BY <1>1, <1>2 DEF n
<1>4. ASSUME NEW d \in Nat, d \in N PROVE d + 1 \in N
  <2> SUFFICES ASSUME i + 1 + (d + 1) <= n + 1 PROVE off[i + 1] <= off[i + 1 + (d + 1)]
    OBVIOUS
  <2>1. i + 1 + d \in 1..n /\ i + 1 + (d + 1) = (i + 1 + d) + 1 /\ i + 1 \in 1..(n + 1)
    BY <1>1 DEF n
  <2>2. off[i + 1] <= off[i + 1 + d]
    BY <1>1, <1>4, <2>1
  <2>3. off[(i + 1 + d) + 1] = off[i + 1 + d] + Len(ss[i + 1 + d]) /\ Len(ss[i + 1 + d]) \in Nat
    BY <1>1, <2>1
  <2>4. off[i + 1] \in Nat /\ off[i + 1 + d] \in Nat
    BY <1>1, <1>2, <2>1
  <2> HIDE DEF n
  <2> QED BY <2>1, <2>2, <2>3, <2>4
<1>5. j - (i + 1) \in N
  <2>1. j - (i + 1) \in Nat
    BY DEF n
  <2> HIDE DEF N
  <2> QED BY <1>3, <1>4, <2>1, NatSet
<1>6. i + 1 + (j - (i + 1)) = j /\ j <= n + 1
  BY DEF n
<1> QED BY <1>5, <1>6

-----------------------------------------------------------------------------
\* What RemoveAt leaves, and where.
LEMMA RemoveAtPlaces ==
  ASSUME NEW S, NEW s \in Seq(S), NEW i \in 1..Len(s)
  PROVE  /\ RemoveAt(s, i) \in Seq(S) /\ Len(RemoveAt(s, i)) = Len(s) - 1
         /\ DOMAIN RemoveAt(s, i) = 1..(Len(s) - 1)
         /\ \A k \in 1..(Len(s) - 1) : RemoveAt(s, i)[k] = IF k < i THEN s[k] ELSE s[k + 1]
<1> DEFINE a == SubSeq(s, 1, i - 1)
           b == SubSeq(s, i + 1, Len(s))
           t == a \o b
           n == Len(s)
<1>1. n \in Nat /\ i \in Int /\ 1 <= i /\ i <= n
  OBVIOUS
<1>2. a \in Seq(S) /\ Len(a) = i - 1 /\ \A k \in 1..(i - 1) : a[k] = s[k]
  BY <1>1
<1>3. b \in Seq(S) /\ Len(b) = n - i /\ \A k \in 1..(n - i) : b[k] = s[k + i]
  BY <1>1
<1> HIDE DEF a, b, n
<1>4. /\ t \in Seq(S) /\ Len(t) = Len(a) + Len(b) /\ DOMAIN t = 1..(Len(a) + Len(b))
      /\ \A k \in 1..(Len(a) + Len(b)) : t[k] = IF k <= Len(a) THEN a[k] ELSE b[k - Len(a)]
  <2>1. /\ t \in Seq(S) /\ Len(t) = Len(a) + Len(b)
        /\ \A k \in 1..(Len(a) + Len(b)) : t[k] = IF k <= Len(a) THEN a[k] ELSE b[k - Len(a)]
    BY <1>2, <1>3, ConcatProperties
  <2> HIDE DEF t
  <2> QED BY <2>1
<1>5. RemoveAt(s, i) = t
  BY Zenon DEF RemoveAt, a, b
<1> HIDE DEF t
<1>6. Len(a) + Len(b) = n - 1
  BY <1>1, <1>2, <1>3
<1>7. ASSUME NEW k \in 1..(n - 1) PROVE t[k] = IF k < i THEN s[k] ELSE s[k + 1]
  <2>1. t[k] = IF k <= i - 1 THEN a[k] ELSE b[k - (i - 1)]
    BY <1>2, <1>4, <1>6
  <2>2. CASE k < i
    <3>1. k <= i - 1 /\ k \in 1..(i - 1)
      BY <1>1, <2>2
    <3> QED BY <1>2, <2>1, <2>2, <3>1
  <2>3. CASE ~(k < i)
    <3>1. ~(k <= i - 1) /\ k - (i - 1) \in 1..(n - i) /\ (k - (i - 1)) + i = k + 1
      BY <1>1, <2>3
    <3> QED BY <1>3, <2>1, <2>3, <3>1
  <2> QED BY <2>2, <2>3
<1> QED BY <1>4, <1>5, <1>6, <1>7 DEF n
==============================================================================
