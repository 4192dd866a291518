------------------------- MODULE DeviceCallsProofs -------------------------
(***************************************************************************)
(* Outlines are sound: if OutlinesHold, then whatever the operation does,   *)
(* whatever the device does and wherever a connection breaks, no answer is  *)
(* mistaken for another, success means that the device has accepted what    *)
(* was promised, and connections are released.                              *)
(*                                                                         *)
(* While an operation runs, what is left of its script consists of the     *)
(* rests of the functions it is in, with a mark where each scope ends.      *)
(* Every such rest has an annotation, put together from judgements about    *)
(* the functions, and the view of each connection is what the annotation    *)
(* says (Ahead).  A step on a connection leads to a view its outline knows; *)
(* entering a function prepends a judgement (Prepends), leaving a scope     *)
(* drops a prefix (Drops).                                                  *)
(***************************************************************************)
EXTENDS Outlines, SequenceTheorems, WellFoundedInduction, TLAPS

----------------------------------------------------------------------------
(* Sequences, and the first element that is a mark.                         *)

Stops(s) == s.kind \in {"finally", "catch"}

LEMMA TailSeq ==
    ASSUME NEW S, NEW r \in Seq(S), r # <<>>
    PROVE  /\ Len(r) \in Nat \ {0} /\ Tail(r) \in Seq(S) /\ Len(Tail(r)) = Len(r) - 1
           /\ \A i \in 1..(Len(r) - 1) : Tail(r)[i] = r[i + 1]
           /\ Head(r) = r[1]
  <1>1. Len(r) \in Nat \ {0} BY EmptySeq
  <1> QED BY <1>1, HeadTailProperties

LEMMA RestSeq ==
    ASSUME NEW S, NEW r \in Seq(S), NEW k \in 1..Len(r)
    PROVE  /\ SubSeq(r, k + 1, Len(r)) \in Seq(S)
           /\ Len(SubSeq(r, k + 1, Len(r))) = Len(r) - k
           /\ \A i \in 1..(Len(r) - k) : SubSeq(r, k + 1, Len(r))[i] = r[i + k]
  <1>1. Len(r) \in Nat BY LenProperties
  <1> QED BY <1>1

LEMMA NatSetMin ==
    ASSUME NEW T, T \subseteq Nat, T # {}
    PROVE  \E x \in T : \A y \in T : x <= y
  <1> DEFINE R == OpToRel(<, Nat)
  <1>1. \E x \in T : \A y \in T : ~(<<y, x>> \in R) BY WFMin, NatLessThanWellFounded
  <1>2. PICK x \in T : \A y \in T : ~(<<y, x>> \in R)
    <2> HIDE DEF R
    <2> QED BY <1>1
  <1>3. ASSUME NEW y \in T PROVE x <= y
    <2>1. ~(<<y, x>> \in R) BY <1>2
    <2>2. ~(y < x) BY <2>1 DEF OpToRel
    <2> QED BY <2>2
  <1> QED BY <1>3

\* The number of the first mark, 0 if there is none.
LEMMA FirstMark ==
    ASSUME NEW S, NEW r \in Seq(S), NEW k, k = SelectInSeq(r, Stops)
    PROVE  \/ k = 0 /\ \A i \in 1..Len(r) : ~Stops(r[i])
           \/ k \in 1..Len(r) /\ Stops(r[k]) /\ \A i \in 1..(k - 1) : ~Stops(r[i])
  <1> DEFINE I == {i \in 1..Len(r) : Stops(r[i])}
  <1>1. Len(r) \in Nat BY LenProperties
  <1>2. k = IF I # {} THEN Min(I) ELSE 0 BY DEF SelectInSeq
  <1>3. CASE I = {} BY <1>2, <1>3
  <1>4. CASE I # {}
    <2>1. I \subseteq Nat BY <1>1
    <2>2. \E x \in I : \A y \in I : x <= y
      <3> HIDE DEF I
      <3> QED BY <1>4, <2>1, NatSetMin
    <2>3. k \in I /\ \A y \in I : k <= y
      <3> HIDE DEF I
      <3>1. k = CHOOSE x \in I : \A y \in I : x =< y BY <1>2, <1>4 DEF Min
      <3> QED BY <2>2, <3>1, Zenon
    <2>4. ASSUME NEW i \in 1..(k - 1) PROVE ~Stops(r[i])
      <3>1. k \in 1..Len(r) BY <2>3
      <3>2. i \in 1..Len(r) /\ ~(k <= i) BY <1>1, <3>1
      <3>3. i \notin I BY <2>3, <3>2
      <3> QED BY <3>2, <3>3
    <2> QED BY <2>3, <2>4
  <1> QED BY <1>3, <1>4

----------------------------------------------------------------------------
(* Annotations.                                                             *)

\* The mark s, with x what can be true in front of it, leads to y.
MarkHolds(J, s, x, y) ==
    IF s.kind = "finally"
    THEN /\ Derives(J, Try(s.last), x.ok, y.ok, y.err)
         /\ Derives(J, Try(s.last) \o Fail, x.err, y.ok, y.err)
    ELSE /\ Derives(J, s.yes, x.ok, y.ok, y.err)
         /\ Derives(J, s.handler, x.err, y.ok, y.err)

PlaceHolds(J, s, c, promised, x, y) ==
    IF Stops(s) THEN MarkHolds(J, s, x, y)
    ELSE s \in Steps(J) /\ StepHolds(J, s, c, promised, x.ok, y.ok, x.err)

\* a says what can be true in front of each element of r, and end what can be
\* true at its end; an error goes on to the next mark.
Annotates(a, J, r, c, promised, end) ==
    /\ a[Len(r) + 1] = end
    /\ \A i \in 1..Len(r) : PlaceHolds(J, r[i], c, promised, a[i], a[i + 1])
    /\ \A i, k \in 1..(Len(r) + 1) :
         i <= k /\ (\A h \in i..(k - 1) : ~Stops(r[h])) => a[i].err \subseteq a[k].err

\* r can be annotated, and v is what the annotation says at its beginning: an
\* error is on its way if bad.
Ahead(J, r, c, promised, end, v, bad) ==
    /\ \E S : r \in Seq(S)
    /\ \E a : Annotates(a, J, r, c, promised, end) /\ v \in IF bad THEN a[1].err ELSE a[1].ok

LEMMA DerivesMonotone ==
    ASSUME NEW J, NEW w, NEW P, NEW M, NEW E, NEW P2, NEW M2, NEW E2,
           P2 \subseteq P, M \subseteq M2, E \subseteq E2, Derives(J, w, P, M, E)
    PROVE  Derives(J, w, P2, M2, E2)
  <1>1. CASE P2 = {} BY <1>1 DEF Derives
  <1>2. CASE P2 # {}
    <2>1. PICK j \in J : /\ j.does = w /\ P \subseteq j.ok[1]
                         /\ j.ok[Len(w) + 1] \subseteq M /\ j.err \subseteq E
      BY <1>2 DEF Derives
    <2>2. P2 \subseteq j.ok[1] /\ j.ok[Len(w) + 1] \subseteq M2 /\ j.err \subseteq E2 BY <2>1
    <2> QED BY <2>1, <2>2 DEF Derives
  <1> QED BY <1>1, <1>2

LEMMA ScopeMonotone ==
    ASSUME NEW J, NEW w, NEW x, NEW y, NEW P, NEW M, NEW E, NEW M2, NEW E2,
           M \subseteq M2, E \subseteq E2, DerivesScope(J, w, x, y, P, M, E)
    PROVE  DerivesScope(J, w, x, y, P, M2, E2)
  <1>1. CASE P = {} BY <1>1 DEF DerivesScope
  <1>2. CASE P # {}
    <2>1. PICK j \in J : /\ j.does = w /\ P \subseteq j.ok[1]
                         /\ Derives(J, x, j.ok[Len(w) + 1], M, E)
                         /\ Derives(J, y, j.err, M, E)
      BY <1>2 DEF DerivesScope
    <2>2. Derives(J, x, j.ok[Len(w) + 1], M2, E2) BY <2>1, DerivesMonotone
    <2>3. Derives(J, y, j.err, M2, E2) BY <2>1, DerivesMonotone
    <2> QED BY <2>1, <2>2, <2>3 DEF DerivesScope
  <1> QED BY <1>1, <1>2

LEMMA StepMonotone ==
    ASSUME NEW J, NEW s, NEW c, NEW promised, NEW P, NEW M, NEW E, NEW M2, NEW E2,
           M \subseteq M2, E \subseteq E2, StepHolds(J, s, c, promised, P, M, E)
    PROVE  StepHolds(J, s, c, promised, P, M2, E2)
  <1>1. CASE s.kind = "choose"
    <2>1. \A w \in s.from : Derives(J, w, P, M, E) BY <1>1 DEF StepHolds
    <2>2. \A w \in s.from : Derives(J, w, P, M2, E2) BY <2>1, DerivesMonotone
    <2> QED BY <1>1, <2>2 DEF StepHolds
  <1>2. CASE s.kind = "branch"
    <2> DEFINE Q == {v \in P : v.answer}
               R == {v \in P : ~v.answer}
    <2>1. Derives(J, s.yes, Q, M, E) /\ Derives(J, s.no, R, M, E) BY <1>2 DEF StepHolds
    <2>2. Derives(J, s.yes, Q, M2, E2) /\ Derives(J, s.no, R, M2, E2)
      <3> HIDE DEF Q, R
      <3> QED BY <2>1, DerivesMonotone
    <2> QED BY <1>2, <2>2 DEF StepHolds
  <1>3. CASE s.kind = "defer"
    <2>1. DerivesScope(J, s.body, Try(s.last), Try(s.last) \o Fail, P, M, E)
      BY <1>3 DEF StepHolds
    <2>2. DerivesScope(J, s.body, Try(s.last), Try(s.last) \o Fail, P, M2, E2)
      BY <2>1, ScopeMonotone
    <2> QED BY <1>3, <2>2 DEF StepHolds
  <1>4. CASE s.kind = "try"
    <2>1. DerivesScope(J, s.body, s.yes, s.handler, P, M, E) BY <1>4 DEF StepHolds
    <2>2. DerivesScope(J, s.body, s.yes, s.handler, P, M2, E2) BY <2>1, ScopeMonotone
    <2> QED BY <1>4, <2>2 DEF StepHolds
  <1>5. CASE s.kind \notin {"choose", "branch", "defer", "try"}
    <2>1. \A v \in P : /\ Matches(s, v, c)
                       /\ Works(s, v, c, promised) \subseteq M /\ Fails(s, v, c) \subseteq E
      BY <1>5 DEF StepHolds
    <2>2. \A v \in P : /\ Matches(s, v, c)
                       /\ Works(s, v, c, promised) \subseteq M2 /\ Fails(s, v, c) \subseteq E2
      BY <2>1
    <2> QED BY <1>5, <2>2 DEF StepHolds
  <1> QED BY <1>1, <1>2, <1>3, <1>4, <1>5

\* What remains of an annotated script is annotated.
LEMMA Drops ==
    ASSUME NEW S, NEW r \in Seq(S), NEW k \in 1..Len(r), NEW t \in Seq(S),
           Len(t) = Len(r) - k, \A i \in 1..Len(t) : t[i] = r[i + k],
           NEW a, NEW J, NEW c, NEW promised, NEW end, Annotates(a, J, r, c, promised, end)
    PROVE  \E b : Annotates(b, J, t, c, promised, end) /\ b[1] = a[k + 1]
  <1> DEFINE b == [i \in 1..(Len(t) + 1) |-> a[i + k]]
  <1>1. Len(r) \in Nat /\ Len(t) \in Nat BY LenProperties
  <1>2. \A i \in 1..(Len(t) + 1) : b[i] = a[i + k] OBVIOUS
  <1> HIDE DEF b
  <1>3. b[Len(t) + 1] = end
    <2>1. (Len(t) + 1) + k = Len(r) + 1 BY <1>1
    <2>2. Len(t) + 1 \in 1..(Len(t) + 1) BY <1>1
    <2>3. b[Len(t) + 1] = a[(Len(t) + 1) + k] BY <1>2, <2>2
    <2>4. b[Len(t) + 1] = a[Len(r) + 1] BY <2>1, <2>3
    <2> QED BY <2>4 DEF Annotates
  <1>4. ASSUME NEW i \in 1..Len(t) PROVE PlaceHolds(J, t[i], c, promised, b[i], b[i + 1])
    <2>1. i + k \in 1..Len(r) /\ i \in 1..(Len(t) + 1) /\ i + 1 \in 1..(Len(t) + 1)
          /\ (i + 1) + k = (i + k) + 1
      BY <1>1
    <2>2. PlaceHolds(J, r[i + k], c, promised, a[i + k], a[(i + k) + 1])
      BY <2>1 DEF Annotates
    <2>3. b[i] = a[i + k] /\ b[i + 1] = a[(i + k) + 1] BY <1>2, <2>1
    <2> QED BY <2>2, <2>3
  <1>5. ASSUME NEW i \in 1..(Len(t) + 1), NEW n \in 1..(Len(t) + 1), i <= n,
               \A h \in i..(n - 1) : ~Stops(t[h])
        PROVE  b[i].err \subseteq b[n].err
    <2>1. i + k \in 1..(Len(r) + 1) /\ n + k \in 1..(Len(r) + 1) /\ i + k <= n + k BY <1>1, <1>5
    <2>2. ASSUME NEW h \in (i + k)..((n + k) - 1) PROVE ~Stops(r[h])
      <3>1. h - k \in i..(n - 1) /\ h - k \in 1..Len(t) /\ (h - k) + k = h BY <1>1
      <3>2. t[h - k] = r[h] BY <3>1
      <3> QED BY <1>5, <3>1, <3>2
    <2>3. a[i + k].err \subseteq a[n + k].err BY <2>1, <2>2 DEF Annotates
    <2> QED BY <1>2, <2>3
  <1>6. Annotates(b, J, t, c, promised, end) BY <1>3, <1>4, <1>5 DEF Annotates
  <1>7. b[1] = a[k + 1] BY <1>1, <1>2
  <1> QED BY <1>6, <1>7

\* The scripts judgements are about are sequences of steps.
LEMMA JudgedSeq ==
    ASSUME NEW J, NEW c, NEW promised, Follows(J, c, promised), NEW j \in J
    PROVE  j.does \in Seq(Steps(J))
  <1> DEFINE U == {j.does[i] : i \in 1..Len(j.does)}
  <1>1. j.does \in Seq(U) BY DEF Follows
  <1>2. U \subseteq Steps(J) BY DEF Steps
  <1> HIDE DEF U
  <1> QED BY <1>1, <1>2, SeqMonotonic

\* A judged script can be put in front of an annotated one.
LEMMA Prepends ==
    ASSUME NEW S, NEW w, NEW r \in Seq(S), NEW a, NEW J, NEW c, NEW promised, NEW end,
           Annotates(a, J, r, c, promised, end), Follows(J, c, promised),
           NEW P, NEW v \in P, Derives(J, w, P, a[1].ok, a[1].err)
    PROVE  Ahead(J, w \o r, c, promised, end, v, FALSE)
  <1>1. PICK j \in J : /\ j.does = w /\ P \subseteq j.ok[1]
                       /\ j.ok[Len(w) + 1] \subseteq a[1].ok /\ j.err \subseteq a[1].err
    BY DEF Derives
  <1> DEFINE T == S \union Steps(J)
  <1>seqs. w \in Seq(T) /\ r \in Seq(T) /\ Len(w) \in Nat
        /\ \A i \in 1..Len(w) : w[i] \in Steps(J)
    <2>1. w \in Seq(Steps(J)) BY <1>1, JudgedSeq
    <2>2. Steps(J) \subseteq T /\ S \subseteq T OBVIOUS
    <2> HIDE DEF T
    <2>3. w \in Seq(T) BY <2>1, <2>2, SeqMonotonic
    <2>4. r \in Seq(T) BY <2>2, SeqMonotonic
    <2>5. Len(w) \in Nat BY <2>1, LenProperties
    <2>6. \A i \in 1..Len(w) : w[i] \in Steps(J) BY <2>1, ElementOfSeq
    <2> QED BY <2>3, <2>4, <2>5, <2>6
  <1> HIDE DEF T
  <1>2. /\ Len(w) \in Nat /\ Len(r) \in Nat
        /\ w \o r \in Seq(T) /\ Len(w \o r) = Len(w) + Len(r)
        /\ \A i \in 1..(Len(w) + Len(r)) :
             (w \o r)[i] = IF i <= Len(w) THEN w[i] ELSE r[i - Len(w)]
    BY <1>seqs, LenProperties, ConcatProperties
  <1> DEFINE m == Len(w)
             n == Len(r)
             u == w \o r
             b == [i \in 1..(m + n + 1) |->
                     IF i <= m THEN [ok |-> j.ok[i], err |-> a[1].err] ELSE a[i - m]]
  <1>3. m \in Nat /\ n \in Nat /\ Len(u) = m + n BY <1>2
  <1>4. /\ \A i \in 1..m : u[i] = w[i]
        /\ \A i \in (m + 1)..(m + n) : u[i] = r[i - m]
    BY <1>2
  <1>5. /\ \A i \in 1..m : b[i].ok = j.ok[i] /\ b[i].err = a[1].err
        /\ \A i \in (m + 1)..(m + n + 1) : b[i] = a[i - m]
    BY <1>3
  <1>6. /\ a[n + 1] = end
        /\ \A i \in 1..n : PlaceHolds(J, r[i], c, promised, a[i], a[i + 1])
        /\ \A i, k \in 1..(n + 1) :
             i <= k /\ (\A h \in i..(k - 1) : ~Stops(r[h])) => a[i].err \subseteq a[k].err
    BY DEF Annotates
  <1>7. \A i \in 1..m : /\ ~Stops(w[i]) /\ w[i] \in Steps(J)
                        /\ StepHolds(J, w[i], c, promised, j.ok[i], j.ok[i + 1], j.err)
    <2>1. \A i \in 1..Len(j.does) :
            /\ j.does[i].kind \notin {"finally", "catch"}
            /\ StepHolds(J, j.does[i], c, promised, j.ok[i], j.ok[i + 1], j.err)
      BY DEF Follows
    <2> QED BY <1>1, <1>seqs, <2>1 DEF Stops
  <1>8. j.ok[m + 1] \subseteq a[1].ok /\ j.err \subseteq a[1].err BY <1>1
  <1> HIDE DEF m, n, u, b
  <1>9. b[Len(u) + 1] = end
    <2>1. Len(u) + 1 \in (m + 1)..(m + n + 1) /\ (Len(u) + 1) - m = n + 1 BY <1>3
    <2> QED BY <1>5, <1>6, <2>1
  <1>10. ASSUME NEW i \in 1..Len(u) PROVE PlaceHolds(J, u[i], c, promised, b[i], b[i + 1])
    <2>1. CASE i < m
      <3>1. i \in 1..m /\ i + 1 \in 1..m BY <1>3, <2>1
      <3>2. b[i].ok = j.ok[i] /\ b[i].err = a[1].err /\ b[i + 1].ok = j.ok[i + 1] BY <1>5, <3>1
      <3>3. StepHolds(J, w[i], c, promised, j.ok[i], j.ok[i + 1], j.err) BY <1>7, <3>1
      <3>4. StepHolds(J, w[i], c, promised, b[i].ok, b[i + 1].ok, b[i].err)
        BY <1>8, <3>2, <3>3, StepMonotone
      <3> QED BY <1>4, <1>7, <3>1, <3>4 DEF PlaceHolds
    <2>2. CASE i = m
      <3>1. i \in 1..m /\ i + 1 \in (m + 1)..(m + n + 1) /\ (i + 1) - m = 1 BY <1>3, <2>2
      <3>2. b[i].ok = j.ok[i] /\ b[i].err = a[1].err /\ b[i + 1] = a[1] BY <1>5, <3>1
      <3>3. StepHolds(J, w[i], c, promised, j.ok[i], j.ok[i + 1], j.err) BY <1>7, <3>1
      <3>4. j.ok[i + 1] \subseteq b[i + 1].ok BY <1>8, <2>2, <3>2
      <3>5. StepHolds(J, w[i], c, promised, b[i].ok, b[i + 1].ok, b[i].err)
        BY <1>8, <3>2, <3>3, <3>4, StepMonotone
      <3> QED BY <1>4, <1>7, <3>1, <3>5 DEF PlaceHolds
    <2>3. CASE i > m
      <3>1. /\ i \in (m + 1)..(m + n) /\ i \in (m + 1)..(m + n + 1) /\ i + 1 \in (m + 1)..(m + n + 1)
            /\ i - m \in 1..n /\ (i + 1) - m = (i - m) + 1
        BY <1>3, <2>3
      <3>2. b[i] = a[i - m] /\ b[i + 1] = a[(i - m) + 1] /\ u[i] = r[i - m] BY <1>4, <1>5, <3>1
      <3> QED BY <1>6, <3>1, <3>2
    <2> QED BY <1>3, <2>1, <2>2, <2>3
  <1>11. ASSUME NEW i \in 1..(Len(u) + 1), NEW k \in 1..(Len(u) + 1), i <= k,
                \A h \in i..(k - 1) : ~Stops(u[h])
         PROVE  b[i].err \subseteq b[k].err
    <2>1. CASE k <= m
      <3>1. i \in 1..m /\ k \in 1..m BY <1>3, <1>11, <2>1
      <3> QED BY <1>5, <3>1
    <2>2. CASE k > m
      <3> DEFINE i0 == IF i <= m THEN 1 ELSE i - m
      <3>1. i0 \in 1..(n + 1) /\ k - m \in 1..(n + 1) /\ i0 <= k - m BY <1>3, <1>11, <2>2
      <3>2. b[i].err = a[i0].err
        <4>1. CASE i <= m
          <5>1. i \in 1..m /\ i0 = 1 BY <1>3, <4>1
          <5> QED BY <1>5, <5>1
        <4>2. CASE i > m
          <5>1. i \in (m + 1)..(m + n + 1) /\ i0 = i - m BY <1>3, <4>2
          <5> QED BY <1>5, <5>1
        <4> QED BY <1>3, <4>1, <4>2
      <3>3. b[k] = a[k - m]
        <4>1. k \in (m + 1)..(m + n + 1) BY <1>3, <2>2
        <4> QED BY <1>5, <4>1
      <3>4. ASSUME NEW h \in i0..((k - m) - 1) PROVE ~Stops(r[h])
        <4>1. h + m \in i..(k - 1) /\ h + m \in (m + 1)..(m + n) /\ (h + m) - m = h
          BY <1>3, <1>11, <2>2
        <4>2. u[h + m] = r[h] BY <1>4, <4>1
        <4> QED BY <1>11, <4>1, <4>2
      <3>5. a[i0].err \subseteq a[k - m].err
        <4> HIDE DEF i0
        <4> QED BY <1>6, <3>1, <3>4
      <3> QED BY <3>2, <3>3, <3>5
    <2> QED BY <1>3, <2>1, <2>2
  <1>12. v \in b[1].ok
    <2>1. CASE m = 0
      <3>1. 1 \in (m + 1)..(m + n + 1) /\ 1 - m = 1 BY <1>3, <2>1
      <3>2. b[1] = a[1] BY <1>5, <3>1
      <3>3. v \in j.ok[m + 1] BY <1>1, <2>1
      <3> QED BY <1>8, <3>2, <3>3
    <2>2. CASE m # 0
      <3>1. 1 \in 1..m BY <1>3, <2>2
      <3> QED BY <1>1, <1>5, <3>1
    <2> QED BY <2>1, <2>2
  <1>13. Annotates(b, J, u, c, promised, end) BY <1>9, <1>10, <1>11 DEF Annotates
  <1>14. u \in Seq(T) BY <1>2 DEF u
  <1>15. Ahead(J, u, c, promised, end, v, FALSE) BY <1>12, <1>13, <1>14 DEF Ahead
  <1> QED BY <1>15 DEF u

\* A mark can be put in front of an annotated script.
LEMMA MarkPrepends ==
    ASSUME NEW S, NEW r \in Seq(S), NEW a, NEW J, NEW c, NEW promised, NEW end,
           Annotates(a, J, r, c, promised, end),
           NEW u, Len(u) = Len(r) + 1, \A i \in 2..(Len(r) + 1) : u[i] = r[i - 1],
           Stops(u[1]), NEW x, MarkHolds(J, u[1], x, a[1])
    PROVE  \E b : Annotates(b, J, u, c, promised, end) /\ b[1].ok = x.ok /\ b[1].err = x.err
  <1> DEFINE n == Len(r)
             b == [i \in 1..(n + 2) |-> IF i = 1 THEN x ELSE a[i - 1]]
  <1>2. n \in Nat BY LenProperties
  <1>3. Len(u) = n + 1 /\ \A i \in 2..(n + 1) : u[i] = r[i - 1] OBVIOUS
  <1>4. b[1] = x /\ \A i \in 2..(n + 2) : b[i] = a[i - 1] BY <1>2
  <1>5. /\ a[n + 1] = end
        /\ \A i \in 1..n : PlaceHolds(J, r[i], c, promised, a[i], a[i + 1])
        /\ \A i, k \in 1..(n + 1) :
             i <= k /\ (\A h \in i..(k - 1) : ~Stops(r[h])) => a[i].err \subseteq a[k].err
    BY DEF Annotates
  <1> HIDE DEF n, b
  <1>6. b[Len(u) + 1] = end
    <2>1. Len(u) + 1 \in 2..(n + 2) /\ (Len(u) + 1) - 1 = n + 1 BY <1>2, <1>3
    <2> QED BY <1>4, <1>5, <2>1
  <1>7. ASSUME NEW i \in 1..Len(u) PROVE PlaceHolds(J, u[i], c, promised, b[i], b[i + 1])
    <2>1. CASE i = 1
      <3>1. b[i + 1] = a[1]
        <4>1. i + 1 \in 2..(n + 2) /\ (i + 1) - 1 = 1 BY <1>2, <2>1
        <4> QED BY <1>4, <4>1
      <3> QED BY <1>4, <2>1, <3>1 DEF PlaceHolds
    <2>2. CASE i # 1
      <3>1. /\ i \in 2..(n + 1) /\ i \in 2..(n + 2) /\ i + 1 \in 2..(n + 2)
            /\ i - 1 \in 1..n /\ (i + 1) - 1 = (i - 1) + 1
        BY <1>2, <1>3, <2>2
      <3>2. u[i] = r[i - 1] /\ b[i] = a[i - 1] /\ b[i + 1] = a[(i - 1) + 1]
        BY <1>3, <1>4, <3>1
      <3> QED BY <1>5, <3>1, <3>2
    <2> QED BY <2>1, <2>2
  <1>8. ASSUME NEW i \in 1..(Len(u) + 1), NEW k \in 1..(Len(u) + 1), i <= k,
               \A h \in i..(k - 1) : ~Stops(u[h])
        PROVE  b[i].err \subseteq b[k].err
    <2>1. CASE i = 1
      <3>1. k = 1
        <4>1. SUFFICES ASSUME k # 1 PROVE FALSE OBVIOUS
        <4>2. 1 \in i..(k - 1) BY <1>2, <1>3, <1>8, <2>1, <4>1
        <4> QED BY <1>3, <1>8, <4>2
      <3> QED BY <2>1, <3>1
    <2>2. CASE i # 1
      <3>1. /\ i \in 2..(n + 2) /\ k \in 2..(n + 2)
            /\ i - 1 \in 1..(n + 1) /\ k - 1 \in 1..(n + 1) /\ i - 1 <= k - 1
        BY <1>2, <1>3, <1>8, <2>2
      <3>2. b[i] = a[i - 1] /\ b[k] = a[k - 1] BY <1>4, <3>1
      <3>3. ASSUME NEW h \in (i - 1)..((k - 1) - 1) PROVE ~Stops(r[h])
        <4>1. h + 1 \in i..(k - 1) /\ h + 1 \in 2..(n + 1) /\ (h + 1) - 1 = h
          BY <1>2, <3>1
        <4>2. u[h + 1] = r[h] BY <1>3, <4>1
        <4> QED BY <1>8, <4>1, <4>2
      <3>4. a[i - 1].err \subseteq a[k - 1].err BY <1>5, <3>1, <3>3
      <3> QED BY <3>2, <3>4
    <2> QED BY <2>1, <2>2
  <1>9. Annotates(b, J, u, c, promised, end) BY <1>6, <1>7, <1>8 DEF Annotates
  <1> QED BY <1>4, <1>9

----------------------------------------------------------------------------
(* What each kind of step does to what is ahead.                            *)

Structured == {"choose", "branch", "defer", "try"}

\* The first element and the rest of what is ahead.
LEMMA FirstStep ==
    ASSUME NEW J, NEW r, NEW c, NEW promised, NEW end, NEW v, NEW bad,
           Ahead(J, r, c, promised, end, v, bad), r # <<>>
    PROVE  \E S, x, a :
             /\ r \in Seq(S) /\ Tail(r) \in Seq(S)
             /\ v \in IF bad THEN x.err ELSE x.ok
             /\ PlaceHolds(J, Head(r), c, promised, x, a[1])
             /\ ~Stops(Head(r)) => x.err \subseteq a[1].err
             /\ Annotates(a, J, Tail(r), c, promised, end)
  <1>1. PICK S : r \in Seq(S) BY DEF Ahead
  <1>2. PICK a : /\ Annotates(a, J, r, c, promised, end)
                 /\ v \in IF bad THEN a[1].err ELSE a[1].ok
    BY DEF Ahead
  <1>3. /\ Len(r) \in Nat \ {0} /\ Tail(r) \in Seq(S) /\ Len(Tail(r)) = Len(r) - 1
        /\ \A i \in 1..(Len(r) - 1) : Tail(r)[i] = r[i + 1]
        /\ Head(r) = r[1]
    BY <1>1, TailSeq
  <1>4. \E b : Annotates(b, J, Tail(r), c, promised, end) /\ b[1] = a[1 + 1]
    <2> DEFINE t == Tail(r)
    <2>1. 1 \in 1..Len(r) BY <1>3
    <2>2. t \in Seq(S) /\ Len(t) = Len(r) - 1 BY <1>3
    <2>3. \A i \in 1..Len(t) : t[i] = r[i + 1] BY <1>3
    <2> HIDE DEF t
    <2>4. \E b : Annotates(b, J, t, c, promised, end) /\ b[1] = a[1 + 1]
      BY <1>1, <1>2, <2>1, <2>2, <2>3, Drops
    <2> QED BY <2>4 DEF t
  <1>5. PICK b : Annotates(b, J, Tail(r), c, promised, end) /\ b[1] = a[2]
    <2>1. 1 + 1 = 2 OBVIOUS
    <2> QED BY <1>4, <2>1
  <1>6. PlaceHolds(J, Head(r), c, promised, a[1], b[1])
    <2>1. 1 \in 1..Len(r) /\ 1 + 1 = 2 BY <1>3
    <2>2. PlaceHolds(J, r[1], c, promised, a[1], a[2]) BY <1>2, <2>1 DEF Annotates
    <2> QED BY <1>3, <1>5, <2>2
  <1>7. ASSUME ~Stops(Head(r)) PROVE a[1].err \subseteq b[1].err
    <2>1. 1 \in 1..(Len(r) + 1) /\ 2 \in 1..(Len(r) + 1) /\ 1 <= 2 BY <1>3
    <2>2. ASSUME NEW h \in 1..(2 - 1) PROVE ~Stops(r[h])
      <3>1. h = 1 OBVIOUS
      <3> QED BY <1>3, <1>7, <3>1
    <2>3. a[1].err \subseteq a[2].err BY <1>2, <2>1, <2>2 DEF Annotates
    <2> QED BY <1>5, <2>3
  <1> QED BY <1>1, <1>2, <1>3, <1>5, <1>6, <1>7

\* A step that is no control flow works, or fails; an answer is the right one.
LEMMA StepsAhead ==
    ASSUME NEW J, NEW r, NEW c, NEW promised, NEW end, NEW v,
           Ahead(J, r, c, promised, end, v, FALSE), r # <<>>,
           ~Stops(Head(r)), Head(r).kind \notin Structured
    PROVE  /\ Head(r) \in Steps(J)
           /\ Matches(Head(r), v, c)
           /\ \A y \in Works(Head(r), v, c, promised) :
                Ahead(J, Tail(r), c, promised, end, y, FALSE)
           /\ \A y \in Fails(Head(r), v, c) : Ahead(J, Tail(r), c, promised, end, y, TRUE)
  <1>1. PICK S, x, a :
          /\ r \in Seq(S) /\ Tail(r) \in Seq(S)
          /\ v \in x.ok
          /\ PlaceHolds(J, Head(r), c, promised, x, a[1])
          /\ x.err \subseteq a[1].err
          /\ Annotates(a, J, Tail(r), c, promised, end)
    BY FirstStep
  <1>2. Head(r) \in Steps(J) /\ StepHolds(J, Head(r), c, promised, x.ok, a[1].ok, x.err)
    BY <1>1 DEF PlaceHolds
  <1>3. /\ Matches(Head(r), v, c)
        /\ Works(Head(r), v, c, promised) \subseteq a[1].ok
        /\ Fails(Head(r), v, c) \subseteq x.err
    BY <1>1, <1>2 DEF StepHolds, Structured
  <1>4. ASSUME NEW y \in Works(Head(r), v, c, promised)
        PROVE  Ahead(J, Tail(r), c, promised, end, y, FALSE)
    <2>1. y \in a[1].ok BY <1>3
    <2> QED BY <1>1, <2>1 DEF Ahead
  <1>5. ASSUME NEW y \in Fails(Head(r), v, c)
        PROVE  Ahead(J, Tail(r), c, promised, end, y, TRUE)
    <2>1. y \in a[1].err BY <1>1, <1>3
    <2> QED BY <1>1, <2>1 DEF Ahead
  <1> QED BY <1>2, <1>3, <1>4, <1>5

LEMMA ChoosesAhead ==
    ASSUME NEW J, NEW r, NEW c, NEW promised, NEW end, NEW v, Follows(J, c, promised),
           Ahead(J, r, c, promised, end, v, FALSE), r # <<>>,
           Head(r).kind = "choose", NEW w \in Head(r).from
    PROVE  Ahead(J, w \o Tail(r), c, promised, end, v, FALSE)
  <1>1. ~Stops(Head(r)) BY DEF Stops
  <1>2. PICK S, x, a :
          /\ r \in Seq(S) /\ Tail(r) \in Seq(S)
          /\ v \in x.ok
          /\ PlaceHolds(J, Head(r), c, promised, x, a[1])
          /\ x.err \subseteq a[1].err
          /\ Annotates(a, J, Tail(r), c, promised, end)
    BY <1>1, FirstStep
  <1>3. Derives(J, w, x.ok, a[1].ok, x.err) BY <1>1, <1>2 DEF PlaceHolds, StepHolds
  <1>4. Derives(J, w, x.ok, a[1].ok, a[1].err) BY <1>2, <1>3, DerivesMonotone
  <1> QED BY <1>2, <1>4, Prepends

LEMMA BranchesAhead ==
    ASSUME NEW J, NEW r, NEW c, NEW promised, NEW end, NEW v, Follows(J, c, promised),
           Ahead(J, r, c, promised, end, v, FALSE), r # <<>>, Head(r).kind = "branch"
    PROVE  /\ v.answer => Ahead(J, Head(r).yes \o Tail(r), c, promised, end, v, FALSE)
           /\ ~v.answer => Ahead(J, Head(r).no \o Tail(r), c, promised, end, v, FALSE)
  <1>1. ~Stops(Head(r)) BY DEF Stops
  <1>2. PICK S, x, a :
          /\ r \in Seq(S) /\ Tail(r) \in Seq(S)
          /\ v \in x.ok
          /\ PlaceHolds(J, Head(r), c, promised, x, a[1])
          /\ x.err \subseteq a[1].err
          /\ Annotates(a, J, Tail(r), c, promised, end)
    BY <1>1, FirstStep
  <1> DEFINE Q == {y \in x.ok : y.answer}
             R == {y \in x.ok : ~y.answer}
  <1>3. Derives(J, Head(r).yes, Q, a[1].ok, x.err) /\ Derives(J, Head(r).no, R, a[1].ok, x.err)
    BY <1>1, <1>2 DEF PlaceHolds, StepHolds
  <1>4. (v.answer => v \in Q) /\ (~v.answer => v \in R) BY <1>2
  <1> HIDE DEF Q, R
  <1>5. /\ Derives(J, Head(r).yes, Q, a[1].ok, a[1].err)
        /\ Derives(J, Head(r).no, R, a[1].ok, a[1].err)
    BY <1>2, <1>3, DerivesMonotone
  <1>6. v.answer => Ahead(J, Head(r).yes \o Tail(r), c, promised, end, v, FALSE)
    BY <1>2, <1>4, <1>5, Prepends
  <1>7. ~v.answer => Ahead(J, Head(r).no \o Tail(r), c, promised, end, v, FALSE)
    BY <1>2, <1>4, <1>5, Prepends
  <1> QED BY <1>6, <1>7

\* A scope is entered whose end is marked with mark.
LEMMA ScopesAhead ==
    ASSUME NEW J, NEW c, NEW promised, NEW end, Follows(J, c, promised),
           NEW S, NEW r \in Seq(S), NEW a, Annotates(a, J, r, c, promised, end),
           NEW w, NEW worked, NEW failed, NEW P, NEW E, NEW v \in P, E \subseteq a[1].err,
           DerivesScope(J, w, worked, failed, P, a[1].ok, E),
           NEW mark, Stops(mark),
           \A x : /\ Derives(J, worked, x.ok, a[1].ok, a[1].err)
                  /\ Derives(J, failed, x.err, a[1].ok, a[1].err)
                  => MarkHolds(J, mark, x, a[1])
    PROVE  Ahead(J, w \o <<mark>> \o r, c, promised, end, v, FALSE)
  <1>1. PICK j \in J : /\ j.does = w /\ P \subseteq j.ok[1]
                       /\ Derives(J, worked, j.ok[Len(w) + 1], a[1].ok, E)
                       /\ Derives(J, failed, j.err, a[1].ok, E)
    BY DEF DerivesScope
  <1>2. PICK x : x.ok = j.ok[Len(w) + 1] /\ x.err = j.err
    <2>1. /\ [ok |-> j.ok[Len(w) + 1], err |-> j.err].ok = j.ok[Len(w) + 1]
          /\ [ok |-> j.ok[Len(w) + 1], err |-> j.err].err = j.err
      OBVIOUS
    <2> QED BY <2>1
  <1>3. /\ Derives(J, worked, x.ok, a[1].ok, a[1].err)
        /\ Derives(J, failed, x.err, a[1].ok, a[1].err)
    BY <1>1, <1>2, DerivesMonotone
  <1>4. MarkHolds(J, mark, x, a[1]) BY <1>3
  <1> DEFINE T == S \union {mark}
  <1>rest. PICK u : u = <<mark>> \o r OBVIOUS
  <1>5. <<mark>> \in Seq(T) /\ Len(<<mark>>) = 1 /\ <<mark>>[1] = mark OBVIOUS
  <1>6. r \in Seq(T) /\ Len(r) \in Nat
    <2>1. S \subseteq T OBVIOUS
    <2> HIDE DEF T
    <2> QED BY <2>1, SeqMonotonic, LenProperties
  <1> HIDE DEF T
  <1>7. /\ u \in Seq(T) /\ Len(u) = Len(r) + 1 /\ u[1] = mark
        /\ \A i \in 2..(Len(r) + 1) : u[i] = r[i - 1]
    <2>1. /\ u \in Seq(T) /\ Len(u) = 1 + Len(r)
          /\ \A i \in 1..(1 + Len(r)) : u[i] = IF i <= 1 THEN <<mark>>[i] ELSE r[i - 1]
      BY <1>rest, <1>5, <1>6, ConcatProperties
    <2> QED BY <1>5, <1>6, <2>1
  <1>marked. PICK b : Annotates(b, J, u, c, promised, end) /\ b[1].ok = x.ok /\ b[1].err = x.err
    BY <1>4, <1>7, MarkPrepends
  <1>8. Derives(J, w, P, b[1].ok, b[1].err)
    <2>1. P \subseteq j.ok[1] /\ j.ok[Len(w) + 1] \subseteq b[1].ok /\ j.err \subseteq b[1].err
      BY <1>1, <1>2, <1>marked
    <2> QED BY <1>1, <2>1 DEF Derives
  <1>9. Ahead(J, w \o u, c, promised, end, v, FALSE)
    BY <1>7, <1>marked, <1>8, Prepends
  <1>10. w \o <<mark>> \o r = w \o u
    <2> DEFINE U == Steps(J) \union S \union {mark}
    <2>1. w \in Seq(Steps(J)) BY <1>1, JudgedSeq
    <2>2. Steps(J) \subseteq U /\ S \subseteq U /\ mark \in U OBVIOUS
    <2> HIDE DEF U
    <2>3. w \in Seq(U) /\ r \in Seq(U) BY <2>1, <2>2, SeqMonotonic
    <2>4. <<mark>> \in Seq(U) BY <2>2
    <2> QED BY <1>rest, <2>3, <2>4, ConcatAssociative
  <1> QED BY <1>9, <1>10

DeferMark(s) == [kind |-> "finally", last |-> s.last]
TryMark(s) == [kind |-> "catch", yes |-> s.yes, handler |-> s.handler]

LEMMA EntersAhead ==
    ASSUME NEW J, NEW r, NEW c, NEW promised, NEW end, NEW v, Follows(J, c, promised),
           Ahead(J, r, c, promised, end, v, FALSE), r # <<>>
    PROVE  /\ Head(r).kind = "defer" =>
                Ahead(J, Head(r).body \o <<DeferMark(Head(r))>> \o Tail(r),
                      c, promised, end, v, FALSE)
           /\ Head(r).kind = "try" =>
                Ahead(J, Head(r).body \o <<TryMark(Head(r))>> \o Tail(r),
                      c, promised, end, v, FALSE)
  <1>1. CASE Head(r).kind = "defer"
    <2>1. ~Stops(Head(r)) BY <1>1 DEF Stops
    <2>2. PICK S, x, a :
            /\ r \in Seq(S) /\ Tail(r) \in Seq(S)
            /\ v \in x.ok
            /\ PlaceHolds(J, Head(r), c, promised, x, a[1])
            /\ x.err \subseteq a[1].err
            /\ Annotates(a, J, Tail(r), c, promised, end)
      BY <2>1, FirstStep
    <2> DEFINE s == Head(r)
               mark == DeferMark(s)
               worked == Try(s.last)
               failed == Try(s.last) \o Fail
    <2>3. DerivesScope(J, s.body, worked, failed, x.ok, a[1].ok, x.err)
      BY <1>1, <2>1, <2>2 DEF PlaceHolds, StepHolds
    <2>4. mark.kind = "finally" /\ mark.last = s.last BY DEF DeferMark
    <2>5. Stops(mark) BY <2>4 DEF Stops
    <2>6. \A y : /\ Derives(J, worked, y.ok, a[1].ok, a[1].err)
                 /\ Derives(J, failed, y.err, a[1].ok, a[1].err)
                 => MarkHolds(J, mark, y, a[1])
      BY <2>4 DEF MarkHolds
    <2> HIDE DEF mark, worked, failed
    <2>7. Ahead(J, s.body \o <<mark>> \o Tail(r), c, promised, end, v, FALSE)
      BY <2>2, <2>3, <2>5, <2>6, ScopesAhead
    <2> QED BY <1>1, <2>7 DEF mark
  <1>2. CASE Head(r).kind = "try"
    <2>1. ~Stops(Head(r)) BY <1>2 DEF Stops
    <2>2. PICK S, x, a :
            /\ r \in Seq(S) /\ Tail(r) \in Seq(S)
            /\ v \in x.ok
            /\ PlaceHolds(J, Head(r), c, promised, x, a[1])
            /\ x.err \subseteq a[1].err
            /\ Annotates(a, J, Tail(r), c, promised, end)
      BY <2>1, FirstStep
    <2> DEFINE s == Head(r)
               mark == TryMark(s)
    <2>3. DerivesScope(J, s.body, s.yes, s.handler, x.ok, a[1].ok, x.err)
      BY <1>2, <2>1, <2>2 DEF PlaceHolds, StepHolds
    <2>4. mark.kind = "catch" /\ mark.yes = s.yes /\ mark.handler = s.handler BY DEF TryMark
    <2>5. Stops(mark) BY <2>4 DEF Stops
    <2>6. \A y : /\ Derives(J, s.yes, y.ok, a[1].ok, a[1].err)
                 /\ Derives(J, s.handler, y.err, a[1].ok, a[1].err)
                 => MarkHolds(J, mark, y, a[1])
      BY <2>4 DEF MarkHolds
    <2> HIDE DEF mark
    <2>7. Ahead(J, s.body \o <<mark>> \o Tail(r), c, promised, end, v, FALSE)
      BY <2>2, <2>3, <2>5, <2>6, ScopesAhead
    <2> QED BY <1>2, <2>7 DEF mark
  <1> QED BY <1>1, <1>2

\* The end of a scope whose body has worked.
LEMMA LeavesAhead ==
    ASSUME NEW J, NEW r, NEW c, NEW promised, NEW end, NEW v, Follows(J, c, promised),
           Ahead(J, r, c, promised, end, v, FALSE), r # <<>>
    PROVE  /\ Head(r).kind = "finally" =>
                Ahead(J, Try(Head(r).last) \o Tail(r), c, promised, end, v, FALSE)
           /\ Head(r).kind = "catch" =>
                Ahead(J, Head(r).yes \o Tail(r), c, promised, end, v, FALSE)
  <1>1. PICK S, x, a :
          /\ r \in Seq(S) /\ Tail(r) \in Seq(S)
          /\ v \in x.ok
          /\ PlaceHolds(J, Head(r), c, promised, x, a[1])
          /\ Annotates(a, J, Tail(r), c, promised, end)
    BY FirstStep
  <1>2. ASSUME Head(r).kind = "finally"
        PROVE  Ahead(J, Try(Head(r).last) \o Tail(r), c, promised, end, v, FALSE)
    <2>1. Derives(J, Try(Head(r).last), x.ok, a[1].ok, a[1].err)
      BY <1>1, <1>2 DEF PlaceHolds, MarkHolds, Stops
    <2> QED BY <1>1, <2>1, Prepends
  <1>3. ASSUME Head(r).kind = "catch"
        PROVE  Ahead(J, Head(r).yes \o Tail(r), c, promised, end, v, FALSE)
    <2>1. Derives(J, Head(r).yes, x.ok, a[1].ok, a[1].err)
      BY <1>1, <1>3 DEF PlaceHolds, MarkHolds, Stops
    <2> QED BY <1>1, <2>1, Prepends
  <1> QED BY <1>2, <1>3

\* An error goes on to the first mark, k, and what is prepared there runs.
LEMMA UnwindsAhead ==
    ASSUME NEW J, NEW r, NEW c, NEW promised, NEW end, NEW v, Follows(J, c, promised),
           Ahead(J, r, c, promised, end, v, TRUE),
           NEW k, k = SelectInSeq(r, Stops), k # 0
    PROVE  LET beyond == SubSeq(r, k + 1, Len(r))
           IN  /\ r[k].kind = "finally" =>
                    Ahead(J, Try(r[k].last) \o Fail \o beyond, c, promised, end, v, FALSE)
               /\ r[k].kind = "catch" =>
                    Ahead(J, r[k].handler \o beyond, c, promised, end, v, FALSE)
  <1>1. PICK S : r \in Seq(S) BY DEF Ahead
  <1>2. PICK a : Annotates(a, J, r, c, promised, end) /\ v \in a[1].err BY DEF Ahead
  <1>3. k \in 1..Len(r) /\ Stops(r[k]) /\ \A i \in 1..(k - 1) : ~Stops(r[i])
    BY <1>1, FirstMark
  <1>4. Len(r) \in Nat BY <1>1, LenProperties
  <1>5. v \in a[k].err
    <2>1. 1 \in 1..(Len(r) + 1) /\ k \in 1..(Len(r) + 1) /\ 1 <= k BY <1>3, <1>4
    <2>2. a[1].err \subseteq a[k].err BY <1>2, <1>3, <2>1 DEF Annotates
    <2> QED BY <1>2, <2>2
  <1> DEFINE t == SubSeq(r, k + 1, Len(r))
  <1>6. /\ t \in Seq(S) /\ Len(t) = Len(r) - k
        /\ \A i \in 1..(Len(r) - k) : t[i] = r[i + k]
    BY <1>1, <1>3, RestSeq
  <1> HIDE DEF t
  <1>7. \A i \in 1..Len(t) : t[i] = r[i + k] BY <1>6
  <1>8. PICK b : Annotates(b, J, t, c, promised, end) /\ b[1] = a[k + 1]
    BY <1>1, <1>2, <1>3, <1>6, <1>7, Drops
  <1>9. MarkHolds(J, r[k], a[k], b[1]) BY <1>2, <1>3, <1>8 DEF Annotates, PlaceHolds
  <1>10. ASSUME r[k].kind = "finally"
         PROVE  Ahead(J, Try(r[k].last) \o Fail \o t, c, promised, end, v, FALSE)
    <2>1. Derives(J, Try(r[k].last) \o Fail, a[k].err, b[1].ok, b[1].err)
      BY <1>9, <1>10 DEF MarkHolds
    <2> QED BY <1>5, <1>6, <1>8, <2>1, Prepends
  <1>11. ASSUME r[k].kind = "catch"
         PROVE  Ahead(J, r[k].handler \o t, c, promised, end, v, FALSE)
    <2>1. Derives(J, r[k].handler, a[k].err, b[1].ok, b[1].err)
      BY <1>9, <1>11 DEF MarkHolds
    <2> QED BY <1>5, <1>6, <1>8, <2>1, Prepends
  <1> QED BY <1>10, <1>11 DEF t

\* The operation returns.
LEMMA EndsAhead ==
    ASSUME NEW J, NEW r, NEW c, NEW promised, NEW end, NEW v, NEW bad \in BOOLEAN,
           Ahead(J, r, c, promised, end, v, bad)
    PROVE  /\ ~bad /\ r = <<>> => v \in end.ok
           /\ bad /\ SelectInSeq(r, Stops) = 0 => v \in end.err
  <1>1. PICK S : r \in Seq(S) BY DEF Ahead
  <1>2. PICK a : /\ Annotates(a, J, r, c, promised, end)
                 /\ v \in IF bad THEN a[1].err ELSE a[1].ok
    BY DEF Ahead
  <1>3. Len(r) \in Nat BY <1>1, LenProperties
  <1>4. ASSUME ~bad, r = <<>> PROVE v \in end.ok
    <2>1. Len(r) + 1 = 1 BY <1>4
    <2>2. a[1] = end BY <1>2, <2>1 DEF Annotates
    <2> QED BY <1>2, <1>4, <2>2
  <1>5. ASSUME bad, SelectInSeq(r, Stops) = 0 PROVE v \in end.err
    <2>1. \A i \in 1..Len(r) : ~Stops(r[i])
      <3> DEFINE k == SelectInSeq(r, Stops)
      <3>1. k = 0 /\ k = SelectInSeq(r, Stops) BY <1>5
      <3> HIDE DEF k
      <3>2. \/ k = 0 /\ \A i \in 1..Len(r) : ~Stops(r[i])
            \/ k \in 1..Len(r) /\ Stops(r[k]) /\ \A i \in 1..(k - 1) : ~Stops(r[i])
        BY <1>1, <3>1, FirstMark
      <3> QED BY <1>3, <3>1, <3>2
    <2>2. /\ 1 \in 1..(Len(r) + 1) /\ Len(r) + 1 \in 1..(Len(r) + 1) /\ 1 <= Len(r) + 1
          /\ (Len(r) + 1) - 1 = Len(r)
      BY <1>3
    <2>3. a[1].err \subseteq a[Len(r) + 1].err BY <1>2, <2>1, <2>2 DEF Annotates
    <2>4. a[Len(r) + 1] = end BY <1>2 DEF Annotates
    <2> QED BY <1>2, <1>5, <2>3, <2>4
  <1> QED BY <1>4, <1>5

----------------------------------------------------------------------------
(* What a step on the device does to the view of a connection.              *)

IsQueue(q) == \E S : q \in Seq(S) /\ \A x \in S : x.ok \in BOOLEAN

TypeInv == /\ op \in DOMAIN Operations
           /\ failing \in BOOLEAN
           /\ conn = [h \in Handles |-> conn[h]]
           /\ due = [h \in Handles |-> due[h]]
           /\ \A h \in Handles : IsQueue(due[h])

promises == Operations[op].promises

\* The provers do not instantiate a fact with a truth value, but with a name of
\* one.
Yes == TRUE
No == FALSE

\* A view, field by field.
Seen(C, G, D, L, O, A) ==
    [conn |-> C, given |-> G, due |-> D, lost |-> L, done |-> O, answer |-> A]

LEMMA SeenReading ==
    ASSUME NEW C, NEW G, NEW D, NEW L, NEW O, NEW A, NEW B
    PROVE  Reading(Seen(C, G, D, L, O, A), B) = Seen(C, G, D, L, O, B)
  BY DEF Reading, Seen

LEMMA SeenAwaiting ==
    ASSUME NEW C, NEW G, NEW D, NEW L, NEW O, NEW A, NEW Q
    PROVE  Awaiting(Seen(C, G, D, L, O, A), Q) = Seen(C, G, Q, L, O, A)
  BY DEF Awaiting, Seen

LEMMA SeenEnded ==
    ASSUME NEW C, NEW G, NEW D, NEW L, NEW O, NEW A, NEW s
    PROVE  EndedIn(Seen(C, G, D, L, O, A), s) = Seen(IF C = "none" THEN C ELSE s, G, <<>>, L, O, A)
  <1>1. [Seen(C, G, D, L, O, A) EXCEPT !.conn = IF @ = "none" THEN @ ELSE s]
          = Seen(IF C = "none" THEN C ELSE s, G, D, L, O, A)
    BY DEF Seen
  <1> QED BY <1>1, SeenAwaiting DEF EndedIn

LEMMA SeenBroken ==
    ASSUME NEW C, NEW G, NEW D, NEW L, NEW O, NEW A
    PROVE  BrokenIn(Seen(C, G, D, L, O, A)) = Seen(IF C = "open" THEN "dead" ELSE C, G, <<>>, L, O, A)
  <1>1. Seen(C, G, D, L, O, A).conn = C BY DEF Seen
  <1>2. PICK s : s = IF C = "open" THEN "dead" ELSE C OBVIOUS
  <1>3. EndedIn(Seen(C, G, D, L, O, A), s) = Seen(IF C = "none" THEN C ELSE s, G, <<>>, L, O, A)
    BY SeenEnded
  <1> QED BY <1>1, <1>2, <1>3 DEF BrokenIn

LEMMA SeenHeard ==
    ASSUME NEW C, NEW G, NEW D, NEW L, NEW O, NEW A
    PROVE  Heard(Seen(C, G, D, L, O, A)) = Seen(C, G, Tail(D), L, O, Head(D).ok)
  <1>1. Awaiting(Seen(C, G, D, L, O, A), Tail(D)) = Seen(C, G, Tail(D), L, O, A) BY SeenAwaiting
  <1>2. Seen(C, G, D, L, O, A).due = D BY DEF Seen
  <1> QED BY <1>1, <1>2, SeenReading DEF Heard

LEMMA SeenQueued ==
    ASSUME NEW C, NEW G, NEW D, NEW L, NEW O, NEW A, NEW q, NEW a
    PROVE  Queued(Seen(C, G, D, L, O, A), q, a) = Seen(C, G, Append(D, [what |-> q, ok |-> a]), L, O, A)
  <1>1. Seen(C, G, D, L, O, A).due = D BY DEF Seen
  <1> QED BY <1>1, SeenAwaiting DEF Queued

LEMMA SeenJudged ==
    ASSUME NEW C, NEW G, NEW D, NEW L, NEW O, NEW A, NEW q, NEW a, NEW promised, NEW X,
           X = IF a THEN O \union ({q} \cap promised) ELSE O
    PROVE  Judged(Seen(C, G, D, L, O, A), q, a, promised) = Seen(C, G, D, L, X, A)
  BY DEF Judged, Seen

LEMMA SeenGiven ==
    ASSUME NEW C, NEW G, NEW D, NEW L, NEW O, NEW A
    PROVE  [Seen(C, G, D, L, O, A) EXCEPT !.given = Yes] = Seen(C, Yes, D, L, O, A)
  BY DEF Seen

LEMMA SeenOpened ==
    ASSUME NEW C, NEW G, NEW D, NEW L, NEW O, NEW A, NEW X,
           X = (L \/ (G /\ C \in {"open", "dead"}))
    PROVE  Opened(Seen(C, G, D, L, O, A)) = Seen("open", No, <<>>, X, O, No)
  <1>1. LeftIn(Seen(C, G, D, L, O, A)) = X
    BY DEF LeftIn, HeldIn, Seen
  <1> QED BY <1>1 DEF Opened, Seen, No

LEMMA SeenExited ==
    ASSUME NEW C, NEW G, NEW D, NEW L, NEW O, NEW A
    PROVE  Exited(Seen(C, G, D, L, O, A)) = Seen("closed", G, <<>>, No, O, A)
  BY DEF Exited, Seen, No

LEMMA ViewSeen ==
    ASSUME NEW c
    PROVE  /\ View(c) = Seen(conn[c], c \in given, due[c], c \in lost, done, answer)
           /\ View(c)' = Seen(conn'[c], c \in given', due'[c], c \in lost', done', answer')
  BY DEF View, Seen

----------------------------------------------------------------------------
(* Every action that is a step on the device leads to a view its step can   *)
(* lead to, for every connection.                                           *)

WorksFor(c) == View(c)' \in Works(Head(todo), View(c), c, promises)
FailsFor(c) == View(c)' \in Fails(Head(todo), View(c), c)

\* A step that leaves the connection alone.
LEMMA SameView ==
    ASSUME NEW c, conn'[c] = conn[c], due'[c] = due[c], (c \in given') = (c \in given),
           (c \in lost') = (c \in lost), done' = done
    PROVE  /\ answer' = answer => View(c)' = View(c)
           /\ answer' = No => View(c)' = Reading(View(c), No)
  <1>1. View(c)' = Seen(conn[c], c \in given, due[c], c \in lost, done, answer') BY ViewSeen
  <1>2. View(c) = Seen(conn[c], c \in given, due[c], c \in lost, done, answer) BY ViewSeen
  <1>3. Reading(View(c), No) = Seen(conn[c], c \in given, due[c], c \in lost, done, No)
    BY <1>2, SeenReading
  <1> QED BY <1>1, <1>2, <1>3

\* A step after which the connection is of no use.
LEMMA EndedView ==
    ASSUME TypeInv, NEW c \in Handles, NEW state, Ends(c, state), given' = given, lost' = lost,
           done' = done
    PROVE  /\ answer' = answer => View(c)' = EndedIn(View(c), state)
           /\ answer' = No => View(c)' = Reading(EndedIn(View(c), state), No)
  <1> DEFINE k == IF conn[c] = "none" THEN conn[c] ELSE state
  <1>1. conn'[c] = k /\ due'[c] = <<>> BY DEF Ends, TypeInv
  <1>2. View(c)' = Seen(k, c \in given, <<>>, c \in lost, done, answer') BY <1>1, ViewSeen
  <1>3. EndedIn(View(c), state) = Seen(k, c \in given, <<>>, c \in lost, done, answer)
    BY ViewSeen, SeenEnded
  <1>4. Reading(EndedIn(View(c), state), No)
          = Seen(k, c \in given, <<>>, c \in lost, done, No)
    BY <1>3, SeenReading
  <1> QED BY <1>2, <1>3, <1>4

LEMMA BrokenView ==
    ASSUME TypeInv, NEW c \in Handles, Breaks(c), UNCHANGED <<given, lost, done, answer>>
    PROVE  View(c)' = BrokenIn(View(c))
  <1>1. PICK state : state = IF conn[c] = "open" THEN "dead" ELSE conn[c] OBVIOUS
  <1>2. Ends(c, state) BY <1>1 DEF Breaks
  <1>3. View(c)' = EndedIn(View(c), state) BY <1>2, EndedView
  <1>4. View(c).conn = conn[c] BY DEF View
  <1> QED BY <1>1, <1>3, <1>4 DEF BrokenIn

LEMMA DialViews ==
    ASSUME TypeInv, NEW c \in Handles
    PROVE  (DialWorks => WorksFor(c)) /\ (DialFails => FailsFor(c))
  <1>1. ASSUME DialWorks PROVE WorksFor(c)
    <2>1. Head(todo).kind = "open" BY <1>1 DEF DialWorks, Step
    <2>2. CASE Target = c
      <3>1. Concerns(Head(todo), c) BY <2>1, <2>2 DEF Concerns, Targeted, Target
      <3>2. /\ conn'[c] = "open" /\ due'[c] = <<>> /\ answer' = No /\ done' = done
            /\ (c \in given') = No
        BY <1>1, <2>2 DEF DialWorks, TypeInv, No
      <3>3. (c \in lost') = (c \in lost \/ (c \in given /\ conn[c] \in {"open", "dead"}))
        BY <1>1, <2>2 DEF DialWorks, Held
      <3>4. View(c)' = Opened(View(c))
        <4> DEFINE l == c \in lost
                   g == c \in given
                   x == c \in lost'
        <4>1. x = (l \/ (g /\ conn[c] \in {"open", "dead"})) BY <3>3
        <4>2. View(c) = Seen(conn[c], g, due[c], l, done, answer) BY ViewSeen
        <4>3. View(c)' = Seen("open", No, <<>>, x, done, No) BY <3>2, ViewSeen
        <4> HIDE DEF l, g, x
        <4>4. Opened(View(c)) = Seen("open", No, <<>>, x, done, No)
          BY <4>1, <4>2, SeenOpened
        <4> QED BY <4>3, <4>4
      <3>5. WorksHere(Head(todo), View(c), promises) = {Opened(View(c))} BY <2>1 DEF WorksHere
      <3> QED BY <3>1, <3>4, <3>5 DEF WorksFor, Works
    <2>3. CASE Target # c
      <3>1. ~Concerns(Head(todo), c) BY <2>3 DEF Concerns, Target
      <3>2. /\ conn'[c] = conn[c] /\ due'[c] = due[c] /\ (c \in given') = (c \in given)
            /\ answer' = No /\ done' = done /\ (c \in lost') = (c \in lost)
        BY <1>1, <2>3 DEF DialWorks, TypeInv, No
      <3>3. View(c)' = Reading(View(c), No) BY <3>2, SameView
      <3>4. WorksElsewhere(Head(todo), View(c), promises) = {Reading(View(c), No)}
        BY <2>1 DEF WorksElsewhere, No
      <3> QED BY <3>1, <3>3, <3>4 DEF WorksFor, Works
    <2> QED BY <2>2, <2>3
  <1>2. ASSUME DialFails PROVE FailsFor(c)
    <2>1. Head(todo).kind = "open" /\ View(c)' = View(c) BY <1>2 DEF DialFails, Step, View
    <2> QED BY <2>1 DEF FailsFor, Fails, FailsHere, FailsElsewhere
  <1> QED BY <1>1, <1>2

LEMMA GiveViews ==
    ASSUME TypeInv, NEW c \in Handles, Returns
    PROVE  WorksFor(c)
  <1>1. Head(todo).kind = "give" BY DEF Returns, Step
  <1>2. UNCHANGED <<conn, due, done, answer, lost>> BY DEF Returns
  <1>3. CASE Target = c
    <2>1. Concerns(Head(todo), c) BY <1>1, <1>3 DEF Concerns, Targeted, Target
    <2>2. (c \in given') = Yes BY <1>3 DEF Returns, Yes
    <2>3. View(c)' = [View(c) EXCEPT !.given = Yes] BY <1>2, <2>2, ViewSeen, SeenGiven
    <2>4. WorksHere(Head(todo), View(c), promises) = {[View(c) EXCEPT !.given = Yes]}
      BY <1>1 DEF WorksHere, Yes
    <2> QED BY <2>1, <2>3, <2>4 DEF WorksFor, Works
  <1>4. CASE Target # c
    <2>1. ~Concerns(Head(todo), c) BY <1>4 DEF Concerns, Target
    <2>2. (c \in given') = (c \in given) BY <1>4 DEF Returns
    <2>3. View(c)' = View(c) BY <1>2, <2>2, SameView
    <2>4. WorksElsewhere(Head(todo), View(c), promises) = {View(c)} BY <1>1 DEF WorksElsewhere
    <2> QED BY <2>1, <2>3, <2>4 DEF WorksFor, Works
  <1> QED BY <1>3, <1>4

LEMMA HandshakeViews ==
    ASSUME TypeInv, NEW c \in Handles
    PROVE  (HandshakeWorks => WorksFor(c)) /\ (HandshakeFails => FailsFor(c))
  <1>1. ASSUME HandshakeWorks PROVE WorksFor(c)
    <2>1. /\ Head(todo).kind = "tls" /\ View(c)' = View(c) /\ conn[Target] = "open"
      BY <1>1 DEF HandshakeWorks, Step, View
    <2>2. Concerns(Head(todo), c) => View(c).conn = "open"
      BY <2>1 DEF Concerns, View, Target
    <2> QED BY <2>1, <2>2 DEF WorksFor, Works, WorksHere, WorksElsewhere
  <1>2. ASSUME HandshakeFails PROVE FailsFor(c)
    <2>1. Head(todo).kind = "tls" BY <1>2 DEF HandshakeFails, Step
    <2>2. UNCHANGED <<given, done, answer, lost>> BY <1>2 DEF HandshakeFails
    <2>3. CASE Target = c
      <3>1. Concerns(Head(todo), c) BY <2>1, <2>3 DEF Concerns, Targeted, Target
      <3>2. View(c)' = BrokenIn(View(c)) BY <1>2, <2>2, <2>3, BrokenView DEF HandshakeFails
      <3>3. FailsHere(Head(todo), View(c)) = {BrokenIn(View(c))} BY <2>1 DEF FailsHere
      <3> QED BY <3>1, <3>2, <3>3 DEF FailsFor, Fails
    <2>4. CASE Target # c
      <3>1. ~Concerns(Head(todo), c) BY <2>4 DEF Concerns, Target
      <3>2. conn'[c] = conn[c] /\ due'[c] = due[c]
        BY <1>2, <2>4 DEF HandshakeFails, Breaks, Ends, TypeInv
      <3>3. View(c)' = View(c) BY <2>2, <3>2, SameView
      <3> QED BY <2>1, <3>1, <3>3 DEF FailsFor, Fails, FailsElsewhere
    <2> QED BY <2>3, <2>4
  <1> QED BY <1>1, <1>2

LEMMA CloseViews ==
    ASSUME TypeInv, NEW c \in Handles, Closes
    PROVE  WorksFor(c)
  <1>1. Head(todo).kind = "close" BY DEF Closes, Step
  <1>2. UNCHANGED <<given, done, lost>> /\ answer' = No BY DEF Closes, No
  <1>3. CASE Target = c
    <2>1. Concerns(Head(todo), c) BY <1>1, <1>3 DEF Concerns, Targeted, Target
    <2>2. View(c)' = Reading(EndedIn(View(c), "closed"), No)
      BY <1>2, <1>3, EndedView DEF Closes
    <2>3. WorksHere(Head(todo), View(c), promises)
            = {Reading(EndedIn(View(c), "closed"), No)}
      BY <1>1 DEF WorksHere, No
    <2> QED BY <2>1, <2>2, <2>3 DEF WorksFor, Works
  <1>4. CASE Target # c
    <2>1. ~Concerns(Head(todo), c) BY <1>4 DEF Concerns, Target
    <2>2. conn'[c] = conn[c] /\ due'[c] = due[c] BY <1>4 DEF Closes, Ends, TypeInv
    <2>3. View(c)' = Reading(View(c), No) BY <1>2, <2>2, SameView
    <2>4. WorksElsewhere(Head(todo), View(c), promises) = {Reading(View(c), No)}
      BY <1>1 DEF WorksElsewhere, No
    <2> QED BY <2>1, <2>3, <2>4 DEF WorksFor, Works
  <1> QED BY <1>3, <1>4

LEMMA ExitViews ==
    ASSUME NEW c \in Handles, ProcessEnds
    PROVE  WorksFor(c)
  <1>1. Head(todo).kind = "exit" BY DEF ProcessEnds, Step
  <1>2. conn'[c] = "closed" /\ due'[c] = <<>> /\ (c \in lost') = No BY DEF ProcessEnds, No
  <1>3. UNCHANGED <<given, done, answer>> BY DEF ProcessEnds
  <1>4. View(c)' = Exited(View(c)) BY <1>2, <1>3, ViewSeen, SeenExited
  <1>5. WorksElsewhere(Head(todo), View(c), promises) = {Exited(View(c))}
    BY <1>1 DEF WorksElsewhere
  <1>6. ~Concerns(Head(todo), c) BY <1>1 DEF Concerns, Targeted
  <1> QED BY <1>4, <1>5, <1>6 DEF WorksFor, Works

LEMMA LocalViews ==
    ASSUME NEW c \in Handles
    PROVE  /\ LocalWork => WorksFor(c) /\ FailsFor(c)
           /\ GivesUp => FailsFor(c)
           /\ CastWorks => WorksFor(c)
  <1>1. ASSUME LocalWork PROVE WorksFor(c) /\ FailsFor(c)
    <2>1. Head(todo).kind = "local" /\ View(c)' = View(c) BY <1>1 DEF LocalWork, Step, View
    <2>2. ~Concerns(Head(todo), c) BY <2>1 DEF Concerns, Targeted
    <2> QED BY <2>1, <2>2 DEF WorksFor, FailsFor, Works, Fails, WorksElsewhere, FailsElsewhere
  <1>2. ASSUME GivesUp PROVE FailsFor(c)
    <2>1. Head(todo).kind = "fail" /\ View(c)' = View(c) BY <1>2 DEF GivesUp, Step, View
    <2>2. ~Concerns(Head(todo), c) BY <2>1 DEF Concerns, Targeted
    <2> QED BY <2>1, <2>2 DEF FailsFor, Fails, FailsElsewhere
  <1>3. ASSUME CastWorks PROVE WorksFor(c)
    <2>1. /\ Head(todo).kind = "cast" /\ View(c)' = View(c) /\ Head(todo).what \in View(c).done
      BY <1>3 DEF CastWorks, Step, View
    <2>2. ~Concerns(Head(todo), c) BY <2>1 DEF Concerns, Targeted
    <2> QED BY <2>1, <2>2 DEF WorksFor, Works, WorksElsewhere
  <1> QED BY <1>1, <1>2, <1>3

\* A request is judged: its answer may have to be read, and if it is promised it
\* is remembered when accepted.
LEMMA JudgedView ==
    ASSUME NEW c, NEW q, NEW accepted, Verdict(q, accepted), NEW x, NEW D, NEW A,
           x = Seen(conn[c], c \in given, D, c \in lost, done, A),
           conn'[c] = conn[c], due'[c] = D, answer' = A, given' = given, lost' = lost
    PROVE  View(c)' = Judged(x, q, accepted, promises)
  <1> DEFINE g == c \in given
             l == c \in lost
             O == IF accepted THEN done \union ({q} \cap promises) ELSE done
  <1>1. done' = O BY DEF Verdict, promises
  <1>2. View(c)' = Seen(conn[c], g, D, l, O, A) BY <1>1, ViewSeen
  <1>3. x = Seen(conn[c], g, D, l, done, A) OBVIOUS
  <1>names. PICK P : P = promises OBVIOUS
  <1>union. O = IF accepted THEN done \union ({q} \cap P) ELSE done BY <1>names
  <1> HIDE DEF g, l, O
  <1>4. Judged(x, q, accepted, promises) = Seen(conn[c], g, D, l, O, A)
    BY <1>3, <1>names, <1>union, SeenJudged
  <1> QED BY <1>2, <1>4

LEMMA SendViews ==
    ASSUME TypeInv, NEW c \in Handles
    PROVE  (SendWorks => WorksFor(c)) /\ (SendFails => FailsFor(c))
  <1> DEFINE s == Head(todo)
             q == s.what
             v == View(c)
  <1>1. ASSUME SendWorks PROVE WorksFor(c)
    <2>1. s.kind = "send" BY <1>1 DEF SendWorks, Step
    <2>2. /\ conn[Target] = "open" /\ UNCHANGED <<conn, given, lost>> /\ answer' = No
      BY <1>1 DEF SendWorks, No
    <2>3. PICK accepted \in BOOLEAN :
            /\ due' = IF s.answered
                      THEN [due EXCEPT ![Target] = Append(@, [what |-> q, ok |-> accepted])]
                      ELSE due
            /\ Verdict(q, accepted)
      BY <1>1 DEF SendWorks
    <2>4. CASE Target = c
      <3>1. Concerns(s, c) BY <2>1, <2>4 DEF Concerns, Targeted, Target
      <3> DEFINE D == IF s.answered THEN Append(due[c], [what |-> q, ok |-> accepted]) ELSE due[c]
                 w == IF s.answered THEN Queued(v, q, accepted) ELSE v
                 x == Reading(w, No)
                 W(a) == Judged(Reading(IF s.answered THEN Queued(v, q, a) ELSE v, No),
                                q, a, promises)
      <3>2. due'[c] = D BY <2>3, <2>4 DEF TypeInv
      <3>3. w = Seen(conn[c], c \in given, D, c \in lost, done, answer) BY ViewSeen, SeenQueued
      <3>4. x = Seen(conn[c], c \in given, D, c \in lost, done, No)
        <4> HIDE DEF w, D
        <4> QED BY <3>3, SeenReading
      <3>5. View(c)' = Judged(x, q, accepted, promises)
        <4> HIDE DEF x, D
        <4> QED BY <2>2, <2>3, <3>2, <3>4, JudgedView
      <3>6. View(c)' = W(accepted) BY <3>5
      <3>7. WorksHere(s, v, promises) = {W(a) : a \in BOOLEAN}
        <4>1. v.conn = "open" BY <2>2, <2>4 DEF View
        <4> HIDE DEF v
        <4> QED BY <2>1, <4>1 DEF WorksHere, No
      <3> HIDE DEF W, s, v
      <3>8. View(c)' \in WorksHere(s, v, promises) BY <3>6, <3>7
      <3> QED BY <3>1, <3>8 DEF WorksFor, Works, s, v
    <2>5. CASE Target # c
      <3>1. ~Concerns(s, c) BY <2>5 DEF Concerns, Target
      <3> DEFINE x == Reading(v, No)
                 W(a) == Judged(x, q, a, promises)
      <3>2. due'[c] = due[c] BY <2>3, <2>5 DEF TypeInv
      <3>3. x = Seen(conn[c], c \in given, due[c], c \in lost, done, No)
        BY ViewSeen, SeenReading
      <3>4. View(c)' = W(accepted)
        <4> HIDE DEF x
        <4> QED BY <2>2, <2>3, <3>2, <3>3, JudgedView
      <3>5. WorksElsewhere(s, v, promises) = {W(a) : a \in BOOLEAN}
        <4> HIDE DEF v
        <4> QED BY <2>1 DEF WorksElsewhere, No
      <3> HIDE DEF W, s, v
      <3>6. View(c)' \in WorksElsewhere(s, v, promises) BY <3>4, <3>5
      <3> QED BY <3>1, <3>6 DEF WorksFor, Works, s, v
    <2> QED BY <2>4, <2>5
  <1>2. ASSUME SendFails PROVE FailsFor(c)
    <2>1. s.kind = "send" BY <1>2 DEF SendFails, Step
    <2>2. UNCHANGED <<given, done, answer, lost>> BY <1>2 DEF SendFails
    <2>3. CASE Target = c
      <3>1. Concerns(s, c) BY <2>1, <2>3 DEF Concerns, Targeted, Target
      <3>2. View(c)' = IF s.closes THEN EndedIn(v, "closed") ELSE BrokenIn(v)
        BY <1>2, <2>2, <2>3, EndedView, BrokenView DEF SendFails
      <3>3. FailsHere(s, v) = {IF s.closes THEN EndedIn(v, "closed") ELSE BrokenIn(v)}
        BY <2>1 DEF FailsHere
      <3> QED BY <3>1, <3>2, <3>3 DEF FailsFor, Fails
    <2>4. CASE Target # c
      <3>1. ~Concerns(s, c) BY <2>4 DEF Concerns, Target
      <3>2. conn'[c] = conn[c] /\ due'[c] = due[c]
        BY <1>2, <2>4 DEF SendFails, Breaks, Ends, TypeInv
      <3>3. View(c)' = View(c) BY <2>2, <3>2, SameView
      <3> QED BY <2>1, <3>1, <3>3 DEF FailsFor, Fails, FailsElsewhere
    <2> QED BY <2>3, <2>4
  <1> QED BY <1>1, <1>2

LEMMA PushViews ==
    ASSUME TypeInv, NEW c \in Handles, DevicePushes
    PROVE  WorksFor(c)
  <1> DEFINE s == Head(todo)
             q == s.what
             v == View(c)
  <1>1. s.kind = "push" BY DEF DevicePushes, Step
  <1>2. UNCHANGED <<conn, given, answer, lost>> BY DEF DevicePushes
  <1>3. PICK right \in BOOLEAN :
          /\ due' = IF conn[Target] = "open"
                    THEN [due EXCEPT ![Target] = Append(@, [what |-> q, ok |-> right])]
                    ELSE due
          /\ Verdict(q, right)
    BY DEF DevicePushes
  <1>4. CASE Target = c
    <2>1. Concerns(s, c) BY <1>1, <1>4 DEF Concerns, Targeted, Target
    <2> DEFINE D == IF conn[c] = "open" THEN Append(due[c], [what |-> q, ok |-> right]) ELSE due[c]
               x == IF conn[c] = "open" THEN Queued(v, q, right) ELSE v
               W(a) == Judged(IF conn[c] = "open" THEN Queued(v, q, a) ELSE v, q, a, promises)
    <2>2. due'[c] = D BY <1>3, <1>4 DEF TypeInv
    <2>3. x = Seen(conn[c], c \in given, D, c \in lost, done, answer) BY ViewSeen, SeenQueued
    <2>4. View(c)' = Judged(x, q, right, promises)
      <3> HIDE DEF x, D
      <3> QED BY <1>2, <1>3, <2>2, <2>3, JudgedView
    <2>5. View(c)' = W(right) BY <2>4
    <2>6. WorksHere(s, v, promises) = {W(a) : a \in BOOLEAN}
      <3>1. v.conn = conn[c] BY DEF View
      <3> HIDE DEF v
      <3> QED BY <1>1, <3>1 DEF WorksHere
    <2> HIDE DEF W, s, v
    <2>7. View(c)' \in WorksHere(s, v, promises) BY <2>5, <2>6
    <2> QED BY <2>1, <2>7 DEF WorksFor, Works, s, v
  <1>5. CASE Target # c
    <2>1. ~Concerns(s, c) BY <1>5 DEF Concerns, Target
    <2> DEFINE W(a) == Judged(v, q, a, promises)
    <2>2. due'[c] = due[c] BY <1>3, <1>5 DEF TypeInv
    <2>3. v = Seen(conn[c], c \in given, due[c], c \in lost, done, answer) BY ViewSeen
    <2>4. View(c)' = W(right) BY <1>2, <1>3, <2>2, <2>3, JudgedView
    <2>5. WorksElsewhere(s, v, promises) = {W(a) : a \in BOOLEAN}
      <3> HIDE DEF v
      <3> QED BY <1>1 DEF WorksElsewhere
    <2> HIDE DEF W, s, v
    <2>6. View(c)' \in WorksElsewhere(s, v, promises) BY <2>4, <2>5
    <2> QED BY <2>1, <2>6 DEF WorksFor, Works, s, v
  <1> QED BY <1>4, <1>5

LEMMA ReadViews ==
    ASSUME TypeInv, NEW c \in Handles, Target \in Handles
    PROVE  /\ Answered /\ ~failing' => WorksFor(c)
           /\ Answered /\ failing' => FailsFor(c)
           /\ ReadFails => FailsFor(c)
  <1> DEFINE s == Head(todo)
             v == View(c)
             a == answer'
  <1>1. ASSUME Answered
        PROVE  (~failing' => WorksFor(c)) /\ (failing' => FailsFor(c))
    <2>1. s.kind = "read" BY <1>1 DEF Answered, Step
    <2>2. /\ conn[Target] = "open" /\ due[Target] # <<>> /\ due' = [due EXCEPT ![Target] = Tail(@)]
          /\ a = Head(due[Target]).ok /\ UNCHANGED <<conn, given, done, lost>>
      BY <1>1 DEF Answered
    <2>3. a \in BOOLEAN
      <3>1. PICK S : due[Target] \in Seq(S) /\ \A x \in S : x.ok \in BOOLEAN
        BY DEF TypeInv, IsQueue
      <3>2. Head(due[Target]) \in S BY <2>2, <3>1, HeadTailProperties
      <3> QED BY <2>2, <3>1, <3>2
    <2>4. /\ ~failing' => a = Yes \/ ~s.strict
          /\ failing' => a = No /\ s.strict
      <3>1. IF a \/ ~s.strict THEN Goes ELSE Errs BY <1>1 DEF Answered
      <3> QED BY <2>3, <3>1 DEF Goes, Errs, Yes, No
    <2>5. CASE Target = c
      <3>1. Concerns(s, c) BY <2>1, <2>5 DEF Concerns, Targeted, Target
      <3>2. due'[c] = Tail(due[c]) /\ a = Head(due[c]).ok BY <2>2, <2>5 DEF TypeInv
      <3>3. View(c)' = Heard(v)
        <4> HIDE DEF a
        <4>1. Heard(v) = Seen(conn[c], c \in given, Tail(due[c]), c \in lost, done, Head(due[c]).ok)
          BY ViewSeen, SeenHeard
        <4>2. View(c)' = Seen(conn[c], c \in given, Tail(due[c]), c \in lost, done, a)
          BY <2>2, <3>2, ViewSeen DEF a
        <4> QED BY <3>2, <4>1, <4>2
      <3>4. v.conn = "open" /\ v.due = due[c] /\ Answerable(v)
        <4>1. v.conn = conn[c] /\ v.due = due[c] BY DEF View
        <4> HIDE DEF v
        <4> QED BY <2>2, <2>5, <4>1 DEF Answerable
      <3> HIDE DEF v
      <3>5. Head(v.due).ok = a BY <3>2, <3>4
      <3>6. ASSUME ~failing' PROVE View(c)' \in WorksHere(s, v, promises)
        <4>1. Head(v.due).ok \/ ~s.strict BY <2>4, <3>5, <3>6 DEF Yes
        <4>2. WorksHere(s, v, promises) = {Heard(v)} BY <2>1, <3>4, <4>1 DEF WorksHere
        <4> QED BY <3>3, <4>2
      <3>7. ASSUME failing' PROVE View(c)' \in FailsHere(s, v)
        <4>1. ~Head(v.due).ok /\ s.strict BY <2>4, <3>5, <3>7 DEF No
        <4>2. Heard(v) \in FailsHere(s, v) BY <2>1, <3>4, <4>1 DEF FailsHere
        <4> QED BY <3>3, <4>2
      <3> QED BY <3>1, <3>6, <3>7 DEF WorksFor, FailsFor, Works, Fails, v
    <2>6. CASE Target # c
      <3>1. ~Concerns(s, c) BY <2>6 DEF Concerns, Target
      <3>2. due'[c] = due[c] BY <2>2, <2>6 DEF TypeInv
      <3>3. View(c)' = Reading(v, a)
        <4>1. View(c)' = Seen(conn[c], c \in given, due[c], c \in lost, done, a)
          BY <2>2, <3>2, ViewSeen
        <4>2. v = Seen(conn[c], c \in given, due[c], c \in lost, done, answer) BY ViewSeen
        <4> HIDE DEF v, a
        <4>3. Reading(v, a) = Seen(conn[c], c \in given, due[c], c \in lost, done, a)
          BY <4>2, SeenReading
        <4> QED BY <4>1, <4>3
      <3> HIDE DEF v, a
      <3>4. ASSUME ~failing' PROVE View(c)' \in WorksElsewhere(s, v, promises)
        <4>1. a \in IF s.strict THEN {TRUE} ELSE BOOLEAN BY <2>3, <2>4, <3>4 DEF Yes
        <4>2. WorksElsewhere(s, v, promises)
                = {Reading(v, b) : b \in IF s.strict THEN {TRUE} ELSE BOOLEAN}
          BY <2>1 DEF WorksElsewhere
        <4> QED BY <3>3, <4>1, <4>2
      <3>5. ASSUME failing' PROVE View(c)' \in FailsElsewhere(s, v)
        <4>1. a = No /\ s.strict BY <2>4, <3>5
        <4>2. Reading(v, No) \in FailsElsewhere(s, v) BY <2>1, <4>1 DEF FailsElsewhere, No
        <4> QED BY <3>3, <4>1, <4>2
      <3> QED BY <3>1, <3>4, <3>5 DEF WorksFor, FailsFor, Works, Fails, v
    <2> QED BY <2>5, <2>6
  <1>2. ASSUME ReadFails PROVE FailsFor(c)
    <2>1. s.kind = "read" BY <1>2 DEF ReadFails, Step
    <2>2. UNCHANGED <<given, done, answer, lost>> BY <1>2 DEF ReadFails
    <2>3. CASE Target = c
      <3>1. Concerns(s, c) BY <2>1, <2>3 DEF Concerns, Targeted, Target
      <3>2. View(c)' = BrokenIn(v) BY <1>2, <2>2, <2>3, BrokenView DEF ReadFails
      <3> HIDE DEF v
      <3>3. BrokenIn(v) \in FailsHere(s, v) BY <2>1 DEF FailsHere
      <3> QED BY <3>1, <3>2, <3>3 DEF FailsFor, Fails, v
    <2>4. CASE Target # c
      <3>1. ~Concerns(s, c) BY <2>4 DEF Concerns, Target
      <3>2. conn'[c] = conn[c] /\ due'[c] = due[c]
        BY <1>2, <2>4 DEF ReadFails, Breaks, Ends, TypeInv
      <3>3. View(c)' = v BY <2>2, <3>2, SameView
      <3> HIDE DEF v
      <3>4. v \in FailsElsewhere(s, v) BY <2>1 DEF FailsElsewhere
      <3> QED BY <3>1, <3>3, <3>4 DEF FailsFor, Fails, v
    <2> QED BY <2>3, <2>4
  <1> QED BY <1>1, <1>2

----------------------------------------------------------------------------
(* Queues of answers stay queues of answers.                                *)

LEMMA EmptyQueue == IsQueue(<<>>)
  <1> DEFINE S == {}
  <1>1. <<>> \in Seq(S) /\ \A x \in S : x.ok \in BOOLEAN OBVIOUS
  <1> HIDE DEF S
  <1> QED BY <1>1 DEF IsQueue

LEMMA QueueTail ==
    ASSUME NEW q, IsQueue(q), q # <<>>
    PROVE  IsQueue(Tail(q))
  <1>1. PICK S : q \in Seq(S) /\ \A x \in S : x.ok \in BOOLEAN BY DEF IsQueue
  <1>2. Tail(q) \in Seq(S) BY <1>1, TailSeq
  <1> QED BY <1>1, <1>2 DEF IsQueue

LEMMA QueueAppend ==
    ASSUME NEW q, IsQueue(q), NEW x, x.ok \in BOOLEAN
    PROVE  IsQueue(Append(q, x))
  <1>1. PICK S : q \in Seq(S) /\ \A y \in S : y.ok \in BOOLEAN BY DEF IsQueue
  <1> DEFINE T == S \union {x}
  <1>2. \A y \in T : y.ok \in BOOLEAN BY <1>1
  <1>3. x \in T /\ S \subseteq T OBVIOUS
  <1> HIDE DEF T
  <1>4. q \in Seq(T) BY <1>1, <1>3, SeqMonotonic
  <1>5. Append(q, x) \in Seq(T) BY <1>3, <1>4, AppendProperties
  <1> QED BY <1>2, <1>5 DEF IsQueue

LEMMA TypeInit == Init => TypeInv
  <1> SUFFICES ASSUME Init PROVE TypeInv OBVIOUS
  <1>1. \A h \in Handles : due[h] = <<>> BY DEF Init
  <1>2. \A h \in Handles : IsQueue(due[h]) BY <1>1, EmptyQueue
  <1> QED BY <1>2 DEF Init, TypeInv

\* Every action leaves the connections and their queues well formed.
LEMMA TypeStep ==
    ASSUME TypeInv, [Next]_vars
    PROVE  TypeInv'
  <1> DEFINE Shape == /\ conn' = [h \in Handles |-> conn'[h]]
                      /\ due' = [h \in Handles |-> due'[h]]
                      /\ \A h \in Handles : IsQueue(due'[h])
  <1>1. ASSUME NEW h, NEW state, Ends(h, state) PROVE Shape
    <2>1. /\ conn' = [k \in Handles |-> conn'[k]]
          /\ due' = [k \in Handles |-> due'[k]]
          /\ \A k \in Handles : due'[k] = due[k] \/ due'[k] = <<>>
      BY <1>1 DEF Ends, TypeInv
    <2> QED BY <2>1, EmptyQueue DEF TypeInv
  <1>2. ASSUME NEW h, Breaks(h) PROVE Shape
    <2>1. PICK state : state = IF conn[h] = "open" THEN "dead" ELSE conn[h] OBVIOUS
    <2>2. Ends(h, state) BY <1>2, <2>1 DEF Breaks
    <2> QED BY <1>1, <2>2
  <1>3. ASSUME UNCHANGED <<conn, due>> PROVE Shape BY <1>3 DEF TypeInv
  <1>4. ASSUME DialWorks PROVE Shape
    <2>1. /\ conn' = [k \in Handles |-> conn'[k]]
          /\ due' = [k \in Handles |-> due'[k]]
          /\ \A k \in Handles : due'[k] = due[k] \/ due'[k] = <<>>
      BY <1>4 DEF DialWorks, TypeInv
    <2> QED BY <2>1, EmptyQueue DEF TypeInv
  <1>5. ASSUME ProcessEnds PROVE Shape
    <2>1. \A k \in Handles : due'[k] = <<>> BY <1>5 DEF ProcessEnds
    <2> QED BY <1>5, <2>1, EmptyQueue DEF ProcessEnds
  <1>6. ASSUME NEW q, NEW ok \in BOOLEAN, UNCHANGED conn,
               \/ due' = due
               \/ due' = [due EXCEPT ![Target] = Append(@, [what |-> q, ok |-> ok])]
        PROVE  Shape
    <2> DEFINE x == [what |-> q, ok |-> ok]
    <2>1. x.ok \in BOOLEAN OBVIOUS
    <2> HIDE DEF x
    <2>2. /\ due' = [k \in Handles |-> due'[k]]
          /\ \A k \in Handles : due'[k] = due[k] \/ due'[k] = Append(due[k], x)
      BY <1>6 DEF TypeInv, x
    <2>3. ASSUME NEW k \in Handles PROVE IsQueue(due'[k])
      <3>1. IsQueue(due[k]) BY DEF TypeInv
      <3>2. PICK r : r = due[k] OBVIOUS
      <3>3. IsQueue(Append(r, x)) BY <2>1, <3>1, <3>2, QueueAppend
      <3> QED BY <2>2, <3>1, <3>2, <3>3
    <2> QED BY <1>6, <2>2, <2>3 DEF TypeInv
  <1>7. ASSUME Answered PROVE Shape
    <2>1. /\ due' = [k \in Handles |-> due'[k]]
          /\ \A k \in Handles : due'[k] = due[k] \/ (due[k] # <<>> /\ due'[k] = Tail(due[k]))
      BY <1>7 DEF Answered, TypeInv
    <2>2. \A k \in Handles : IsQueue(due'[k]) BY <2>1, QueueTail DEF TypeInv
    <2> QED BY <1>7, <2>1, <2>2 DEF Answered, TypeInv
  <1>8. ASSUME Next PROVE Shape /\ op' = op /\ failing' \in BOOLEAN
    <2> HIDE DEF Shape
    <2>1. CASE DialWorks BY <1>4, <2>1 DEF DialWorks, Step, Goes
    <2>2. CASE DialFails BY <1>3, <2>2 DEF DialFails, Step, Errs
    <2>3. CASE Returns BY <1>3, <2>3 DEF Returns, Step, Goes
    <2>4. CASE HandshakeWorks BY <1>3, <2>4 DEF HandshakeWorks, Step, Goes
    <2>5. CASE HandshakeFails BY <1>2, <2>5 DEF HandshakeFails, Step, Errs
    <2>6. CASE Closes BY <1>1, <2>6 DEF Closes, Step, Goes
    <2>7. CASE ProcessEnds BY <1>5, <2>7 DEF ProcessEnds, Step, Goes
    <2>8. CASE SendWorks
      <3>1. PICK accepted \in BOOLEAN :
              due' = IF Head(todo).answered
                     THEN [due EXCEPT ![Target] =
                             Append(@, [what |-> Head(todo).what, ok |-> accepted])]
                     ELSE due
        BY <2>8 DEF SendWorks
      <3>2. Shape BY <1>6, <2>8, <3>1 DEF SendWorks
      <3> QED BY <2>8, <3>2 DEF SendWorks, Step, Goes
    <2>9. CASE SendFails
      <3>1. Shape BY <1>1, <1>2, <2>9 DEF SendFails
      <3> QED BY <2>9, <3>1 DEF SendFails, Step, Errs
    <2>10. CASE DevicePushes
      <3>1. PICK right \in BOOLEAN :
              due' = IF conn[Target] = "open"
                     THEN [due EXCEPT ![Target] =
                             Append(@, [what |-> Head(todo).what, ok |-> right])]
                     ELSE due
        BY <2>10 DEF DevicePushes
      <3>2. Shape BY <1>6, <2>10, <3>1 DEF DevicePushes
      <3> QED BY <2>10, <3>2 DEF DevicePushes, Step, Goes
    <2>11. CASE Answered BY <1>7, <2>11 DEF Answered, Step, Goes, Errs
    <2>12. CASE ReadFails BY <1>2, <2>12 DEF ReadFails, Step, Errs
    <2>13. CASE LocalWork BY <1>3, <2>13 DEF LocalWork, Step, Goes, Errs
    <2>14. CASE GivesUp BY <1>3, <2>14 DEF GivesUp, Step, Errs
    <2>15. CASE Chooses BY <1>3, <2>15 DEF Chooses, Step, TypeInv
    <2>16. CASE Branches BY <1>3, <2>16 DEF Branches, Step, TypeInv
    <2>17. CASE Enters BY <1>3, <2>17 DEF Enters, Step, TypeInv
    <2>18. CASE LeavesScope BY <1>3, <2>18 DEF LeavesScope, TypeInv
    <2>19. CASE Unwinds BY <1>3, <2>19 DEF Unwinds
    <2>20. CASE ReturnsError BY <1>3, <2>20 DEF ReturnsError, TypeInv
    <2>21. CASE ReturnsNil BY <1>3, <2>21 DEF ReturnsNil, TypeInv
    <2>22. CASE CastWorks BY <1>3, <2>22 DEF CastWorks, Step, Goes
    <2>23. CASE Panics BY <1>3, <2>23 DEF Panics, Step, TypeInv
    <2>24. CASE Hangs BY <1>3, <2>24 DEF Hangs, Step, TypeInv
    <2>25. CASE Returned BY <1>3, <2>25 DEF Returned, vars, TypeInv
    <2> QED
      BY <1>8, <2>1, <2>2, <2>3, <2>4, <2>5, <2>6, <2>7, <2>8, <2>9, <2>10, <2>11, <2>12, <2>13,
         <2>14, <2>15, <2>16, <2>17, <2>18, <2>19, <2>20, <2>21, <2>22, <2>23, <2>24, <2>25
      DEF Next
  <1>9. CASE Next BY <1>8, <1>9 DEF TypeInv
  <1>10. CASE UNCHANGED vars BY <1>10 DEF vars, TypeInv
  <1> QED BY <1>9, <1>10

----------------------------------------------------------------------------
(* The invariant: what is left of the operation is annotated, for every     *)
(* connection and every judgement about the operation, and when it has      *)
(* returned, the judgement is right.                                        *)

Remains(o, c, j, r, v, bad) ==
    Ahead(OutlineFor(o, c), r, JudgedAs(o, c), Operations[o].promises,
          [ok |-> Ending(j), err |-> j.err], v, bad)

Sound(c, j) == /\ result = "running" => Remains(op, c, j, todo, View(c), failing)
               /\ result = "ok" => View(c) \in Ending(j)
               /\ result = "error" => View(c) \in j.err

OutlinesSound == \A c \in Handles : \A j \in OutlineFor(op, c) : Judges(j, op) => Sound(c, j)

KnownConnections == given \subseteq Handles /\ lost \subseteq Handles

IInv == TypeInv /\ KnownConnections /\ OutlinesSound

\* What the assumption says of the outline c is judged by.
LEMMA OutlineFacts ==
    ASSUME NEW o \in DOMAIN Operations, NEW c \in Handles
    PROVE  /\ Follows(OutlineFor(o, c), JudgedAs(o, c), Operations[o].promises)
           /\ Mentions(OutlineFor(o, c)) \subseteq Named(o)
           /\ Named(o) \subseteq Handles
           /\ \E j \in OutlineFor(o, c) : Judges(j, o) /\ Released(j, o, JudgedAs(o, c))
           /\ Nobody \notin Operations[o].returns \union Leaks[o]
           /\ \A q \in Operations[o].promises : \E d \in Named(o) : Promised(o, q, d)
  <1>1. OutlinesOf(o) BY OutlinesHold
  <1>2. JudgedAs(o, c) \in Named(o) \union {Nobody} BY DEF JudgedAs
  <1>3. OutlineHolds(o, JudgedAs(o, c), Named(o)) BY <1>1, <1>2 DEF OutlinesOf
  <1>4. /\ Follows(OutlineFor(o, c), JudgedAs(o, c), Operations[o].promises)
        /\ Mentions(OutlineFor(o, c)) \subseteq Named(o)
        /\ \E j \in OutlineFor(o, c) : Judges(j, o) /\ Released(j, o, JudgedAs(o, c))
    BY <1>3 DEF OutlineHolds, OutlineFor
  <1> QED BY <1>1, <1>4 DEF OutlinesOf

\* A step the outline knows concerns c if it concerns the connection c is
\* judged as, and is on a connection of the catalogue.
LEMMA SameConcern ==
    ASSUME NEW o \in DOMAIN Operations, NEW c \in Handles, NEW s \in Steps(OutlineFor(o, c))
    PROVE  /\ s.kind \in Targeted => s.on \in Handles
           /\ Concerns(s, c) <=> Concerns(s, JudgedAs(o, c))
           /\ s.kind = "read" => (s.on = c <=> s.on = JudgedAs(o, c))
  <1>1. Mentions(OutlineFor(o, c)) \subseteq Named(o) /\ Named(o) \subseteq Handles
    BY OutlineFacts
  <1>2. s.kind \in Targeted => s.on \in Named(o) BY <1>1 DEF Mentions
  <1>3. "read" \in Targeted BY DEF Targeted
  <1>4. CASE c \in Named(o)
    <2>1. JudgedAs(o, c) = c BY <1>4 DEF JudgedAs
    <2> QED BY <1>1, <1>2, <2>1
  <1>5. CASE c \notin Named(o)
    <2>1. JudgedAs(o, c) = Nobody BY <1>5 DEF JudgedAs
    <2>2. Nobody \notin Named(o) BY <1>1, HandlesAssumption
    <2>3. s.kind \in Targeted => s.on # c /\ s.on # Nobody BY <1>2, <1>5, <2>2
    <2> QED BY <1>1, <1>2, <1>3, <2>1, <2>3 DEF Concerns
  <1> QED BY <1>4, <1>5

\* The lemmas on annotations, for a connection and its outline.
LEMMA RemainsStep ==
    ASSUME NEW o \in DOMAIN Operations, NEW c \in Handles, NEW j, NEW r, NEW v,
           Remains(o, c, j, r, v, FALSE), r # <<>>,
           ~Stops(Head(r)), Head(r).kind \notin Structured
    PROVE  /\ Head(r).kind \in Targeted => Head(r).on \in Handles
           /\ Matches(Head(r), v, c)
           /\ \A y \in Works(Head(r), v, c, Operations[o].promises) :
                Remains(o, c, j, Tail(r), y, FALSE)
           /\ \A y \in Fails(Head(r), v, c) : Remains(o, c, j, Tail(r), y, TRUE)
  <1> DEFINE J == OutlineFor(o, c)
             d == JudgedAs(o, c)
             promised == Operations[o].promises
             end == [ok |-> Ending(j), err |-> j.err]
             s == Head(r)
  <1>1. Ahead(J, r, d, promised, end, v, FALSE) BY DEF Remains
  <1>2. s \in Steps(J) /\ Matches(s, v, d)
    <2> HIDE DEF J, d, promised, end
    <2> QED BY <1>1, StepsAhead
  <1>3. /\ \A y \in Works(s, v, d, promised) : Ahead(J, Tail(r), d, promised, end, y, FALSE)
        /\ \A y \in Fails(s, v, d) : Ahead(J, Tail(r), d, promised, end, y, TRUE)
    <2> HIDE DEF J, d, promised, end
    <2> QED BY <1>1, StepsAhead
  <1>4. /\ s.kind \in Targeted => s.on \in Handles
        /\ Concerns(s, c) <=> Concerns(s, d)
        /\ s.kind = "read" => (s.on = c <=> s.on = d)
    BY <1>2, SameConcern
  <1>5. Matches(s, v, c) BY <1>2, <1>4 DEF Matches
  <1>6. Works(s, v, c, promised) = Works(s, v, d, promised) BY <1>4 DEF Works
  <1>7. Fails(s, v, c) = Fails(s, v, d) BY <1>4 DEF Fails
  <1> QED BY <1>3, <1>4, <1>5, <1>6, <1>7 DEF Remains

LEMMA RemainsControl ==
    ASSUME NEW o \in DOMAIN Operations, NEW c \in Handles, NEW j, NEW r, NEW v,
           Remains(o, c, j, r, v, FALSE), r # <<>>
    PROVE  /\ Head(r).kind = "choose" =>
                \A w \in Head(r).from : Remains(o, c, j, w \o Tail(r), v, FALSE)
           /\ Head(r).kind = "branch" =>
                /\ v.answer => Remains(o, c, j, Head(r).yes \o Tail(r), v, FALSE)
                /\ ~v.answer => Remains(o, c, j, Head(r).no \o Tail(r), v, FALSE)
           /\ Head(r).kind = "defer" =>
                Remains(o, c, j, Head(r).body \o <<DeferMark(Head(r))>> \o Tail(r), v, FALSE)
           /\ Head(r).kind = "try" =>
                Remains(o, c, j, Head(r).body \o <<TryMark(Head(r))>> \o Tail(r), v, FALSE)
           /\ Head(r).kind = "finally" =>
                Remains(o, c, j, Try(Head(r).last) \o Tail(r), v, FALSE)
           /\ Head(r).kind = "catch" => Remains(o, c, j, Head(r).yes \o Tail(r), v, FALSE)
  <1> DEFINE J == OutlineFor(o, c)
             d == JudgedAs(o, c)
             promised == Operations[o].promises
             end == [ok |-> Ending(j), err |-> j.err]
  <1>1. Ahead(J, r, d, promised, end, v, FALSE) BY DEF Remains
  <1>2. Follows(J, d, promised) BY OutlineFacts
  <1> HIDE DEF J, d, promised, end
  <1>3. ASSUME Head(r).kind = "choose", NEW w \in Head(r).from
        PROVE  Ahead(J, w \o Tail(r), d, promised, end, v, FALSE)
    BY <1>1, <1>2, <1>3, ChoosesAhead
  <1>4. ASSUME Head(r).kind = "branch"
        PROVE  /\ v.answer => Ahead(J, Head(r).yes \o Tail(r), d, promised, end, v, FALSE)
               /\ ~v.answer => Ahead(J, Head(r).no \o Tail(r), d, promised, end, v, FALSE)
    BY <1>1, <1>2, <1>4, BranchesAhead
  <1>5. /\ Head(r).kind = "defer" =>
             Ahead(J, Head(r).body \o <<DeferMark(Head(r))>> \o Tail(r), d, promised, end, v, FALSE)
        /\ Head(r).kind = "try" =>
             Ahead(J, Head(r).body \o <<TryMark(Head(r))>> \o Tail(r), d, promised, end, v, FALSE)
    BY <1>1, <1>2, EntersAhead
  <1>6. /\ Head(r).kind = "finally" =>
             Ahead(J, Try(Head(r).last) \o Tail(r), d, promised, end, v, FALSE)
        /\ Head(r).kind = "catch" => Ahead(J, Head(r).yes \o Tail(r), d, promised, end, v, FALSE)
    BY <1>1, <1>2, LeavesAhead
  <1> QED BY <1>3, <1>4, <1>5, <1>6 DEF Remains, J, d, promised, end

LEMMA RemainsUnwinding ==
    ASSUME NEW o \in DOMAIN Operations, NEW c \in Handles, NEW j, NEW r, NEW v,
           Remains(o, c, j, r, v, TRUE), NEW k, k = SelectInSeq(r, Stops), k # 0
    PROVE  /\ r[k].kind = "finally" =>
                Remains(o, c, j, Try(r[k].last) \o Fail \o SubSeq(r, k + 1, Len(r)), v, FALSE)
           /\ r[k].kind = "catch" =>
                Remains(o, c, j, r[k].handler \o SubSeq(r, k + 1, Len(r)), v, FALSE)
  <1> DEFINE J == OutlineFor(o, c)
             d == JudgedAs(o, c)
             promised == Operations[o].promises
             end == [ok |-> Ending(j), err |-> j.err]
  <1>1. Ahead(J, r, d, promised, end, v, TRUE) BY DEF Remains
  <1>2. Follows(J, d, promised) BY OutlineFacts
  <1> HIDE DEF J, d, promised, end
  <1>3. /\ r[k].kind = "finally" =>
             Ahead(J, Try(r[k].last) \o Fail \o SubSeq(r, k + 1, Len(r)), d, promised, end, v, FALSE)
        /\ r[k].kind = "catch" =>
             Ahead(J, r[k].handler \o SubSeq(r, k + 1, Len(r)), d, promised, end, v, FALSE)
    BY <1>1, <1>2, UnwindsAhead
  <1> QED BY <1>3 DEF Remains, J, d, promised, end

LEMMA RemainsNothing ==
    ASSUME NEW o, NEW c, NEW j, NEW r, NEW v
    PROVE  /\ Remains(o, c, j, r, v, FALSE) /\ r = <<>> => v \in Ending(j)
           /\ Remains(o, c, j, r, v, TRUE) /\ SelectInSeq(r, Stops) = 0 => v \in j.err
  <1> DEFINE J == OutlineFor(o, c)
             d == JudgedAs(o, c)
             promised == Operations[o].promises
             end == [ok |-> Ending(j), err |-> j.err]
  <1>1. end.ok = Ending(j) /\ end.err = j.err OBVIOUS
  <1>2. ASSUME NEW bad \in BOOLEAN, Remains(o, c, j, r, v, bad)
        PROVE  Ahead(J, r, d, promised, end, v, bad)
    BY <1>2 DEF Remains
  <1> HIDE DEF J, d, promised, end
  <1>3. ASSUME Remains(o, c, j, r, v, FALSE), r = <<>> PROVE v \in Ending(j)
    BY <1>1, <1>2, <1>3, EndsAhead
  <1>4. ASSUME Remains(o, c, j, r, v, TRUE), SelectInSeq(r, Stops) = 0 PROVE v \in j.err
    BY <1>1, <1>2, <1>4, EndsAhead
  <1> QED BY <1>3, <1>4

----------------------------------------------------------------------------
(* The invariant holds at first, and after every step.                      *)

LEMMA SoundInit == Init => OutlinesSound
  <1> SUFFICES ASSUME Init, NEW c \in Handles, NEW j \in OutlineFor(op, c), Judges(j, op)
               PROVE  Sound(c, j)
    BY DEF OutlinesSound
  <1> DEFINE J == OutlineFor(op, c)
             d == JudgedAs(op, c)
             promised == Operations[op].promises
             end == [ok |-> Ending(j), err |-> j.err]
             w == Operations[op].does
             a == <<end>>
  <1>1. op \in DOMAIN Operations /\ todo = w /\ failing = FALSE /\ result = "running"
    BY DEF Init
  <1>2. Follows(J, d, promised) BY <1>1, OutlineFacts
  <1>3. View(c) = Fresh
    <2>1. /\ conn[c] = "none" /\ due[c] = <<>> /\ done = {} /\ answer = No
          /\ (c \in given) = No /\ (c \in lost) = No
      BY DEF Init, No
    <2>2. View(c) = Seen("none", No, <<>>, No, {}, No) BY <2>1, ViewSeen
    <2>3. Fresh = Seen("none", No, <<>>, No, {}, No) BY DEF Fresh, Seen, No
    <2> QED BY <2>2, <2>3
  <1>4. j.does = w /\ Fresh \in j.ok[1] BY DEF Judges
  <1>5. a[1] = end /\ a[1].ok = j.ok[Len(w) + 1] /\ a[1].err = j.err BY <1>4 DEF Ending
  <1>6. j \in J OBVIOUS
  <1> HIDE DEF J, d, promised, end, w, a
  <1>7. Derives(J, w, {Fresh}, a[1].ok, a[1].err) BY <1>4, <1>5, <1>6 DEF Derives
  <1>8. Annotates(a, J, <<>>, d, promised, end)
    <2>1. Len(<<>>) = 0 /\ 0 + 1 = 1 OBVIOUS
    <2>2. a[Len(<<>>) + 1] = end BY <1>5, <2>1
    <2>3. \A i \in 1..Len(<<>>) : PlaceHolds(J, <<>>[i], d, promised, a[i], a[i + 1]) BY <2>1
    <2>4. \A i, k \in 1..(Len(<<>>) + 1) : a[i].err \subseteq a[k].err
      <3>1. \A i \in 1..(Len(<<>>) + 1) : i = 1 BY <2>1
      <3> QED BY <3>1
    <2> QED BY <2>2, <2>3, <2>4 DEF Annotates
  <1>9. Ahead(J, w \o <<>>, d, promised, end, Fresh, FALSE)
    <2>1. PICK r : r = <<>> OBVIOUS
    <2>2. r \in Seq({}) /\ Annotates(a, J, r, d, promised, end) BY <1>8, <2>1
    <2>3. Ahead(J, w \o r, d, promised, end, Fresh, FALSE) BY <1>2, <1>7, <2>2, Prepends
    <2> QED BY <2>1, <2>3
  <1>10. w \in Seq(Steps(J)) BY <1>2, <1>4, <1>6, JudgedSeq
  <1>11. w \o <<>> = w BY <1>10, ConcatEmptySeq
  <1>12. Remains(op, c, j, todo, View(c), failing)
    <2>1. Ahead(J, todo, d, promised, end, View(c), failing) BY <1>1, <1>3, <1>9, <1>11
    <2> QED BY <2>1 DEF Remains, J, d, promised, end
  <1> QED BY <1>1, <1>12 DEF Sound

\* The connection of the step that is next is one of the catalogue's.
LEMMA KnownTarget ==
    ASSUME IInv, result = "running", ~failing, todo # <<>>, Head(todo).kind \in Targeted
    PROVE  Target \in Handles
  <1>1. PICK c \in Handles : TRUE BY HandlesAssumption
  <1>2. op \in DOMAIN Operations /\ failing = FALSE BY DEF IInv, TypeInv
  <1>3. PICK j \in OutlineFor(op, c) : Judges(j, op) BY <1>2, OutlineFacts
  <1>4. Remains(op, c, j, todo, View(c), FALSE) BY <1>2, <1>3 DEF IInv, OutlinesSound, Sound
  <1>5. ~Stops(Head(todo)) /\ Head(todo).kind \notin Structured
    BY DEF Stops, Structured, Targeted
  <1> QED BY <1>2, <1>4, <1>5, RemainsStep DEF Target

\* A step that works, or fails, as an outline says it can.
LEMMA DeviceSound ==
    ASSUME IInv, NEW c \in Handles, NEW j \in OutlineFor(op, c), Judges(j, op),
           result = "running", ~failing, todo # <<>>,
           ~Stops(Head(todo)), Head(todo).kind \notin Structured,
           todo' = Tail(todo), UNCHANGED <<op, result>>, failing' \in BOOLEAN,
           ~failing' => WorksFor(c), failing' => FailsFor(c)
    PROVE  Sound(c, j)'
  <1>1. op \in DOMAIN Operations /\ failing = FALSE BY DEF IInv, TypeInv
  <1>2. Remains(op, c, j, todo, View(c), FALSE) BY <1>1 DEF IInv, OutlinesSound, Sound
  <1>3. /\ \A y \in Works(Head(todo), View(c), c, promises) : Remains(op, c, j, Tail(todo), y, FALSE)
        /\ \A y \in Fails(Head(todo), View(c), c) : Remains(op, c, j, Tail(todo), y, TRUE)
    BY <1>1, <1>2, RemainsStep DEF promises
  <1>4. Remains(op, c, j, Tail(todo), View(c)', failing')
    <2>1. CASE failing' = FALSE BY <1>3, <2>1 DEF WorksFor
    <2>2. CASE failing' = TRUE BY <1>3, <2>2 DEF FailsFor
    <2> QED BY <2>1, <2>2
  <1> QED BY <1>4 DEF Sound

\* A step of control flow.
LEMMA ControlSound ==
    ASSUME NEW c \in Handles, NEW j, UNCHANGED <<op, conn, given, due, done, answer, lost>>,
           result = "running", result' = result, failing' = FALSE,
           Remains(op, c, j, todo', View(c), FALSE)
    PROVE  Sound(c, j)'
  <1>1. View(c)' = View(c) BY DEF View
  <1>2. Remains(op', c, j, todo', View(c)', failing') BY <1>1
  <1> QED BY <1>2 DEF Sound

LEMMA SoundStep == IInv /\ [Next]_vars => OutlinesSound'
  <1> SUFFICES ASSUME IInv, [Next]_vars,
                      NEW c \in Handles, NEW j \in OutlineFor(op', c), Judges(j, op')
               PROVE  Sound(c, j)'
    BY DEF OutlinesSound
  <1> USE DEF Stops, Structured
  <1>1. TypeInv /\ op \in DOMAIN Operations /\ failing \in BOOLEAN BY DEF IInv, TypeInv
  <1>2. TypeInv' /\ failing' \in BOOLEAN
    <2>1. TypeInv' BY <1>1, TypeStep
    <2> QED BY <2>1 DEF TypeInv
  <1>3. op' = op
    <2>1. CASE Next
      BY <2>1 DEF Next, Step, DialWorks, DialFails, Returns, HandshakeWorks, HandshakeFails, Closes,
         ProcessEnds, SendWorks, SendFails, DevicePushes, Answered, ReadFails, LocalWork, GivesUp,
         Chooses, Branches, Enters, LeavesScope, Unwinds, ReturnsError, ReturnsNil, CastWorks,
         Panics, Hangs, Returned, vars
    <2>2. CASE UNCHANGED vars BY <2>2 DEF vars
    <2> QED BY <2>1, <2>2
  <1>4. j \in OutlineFor(op, c) /\ Judges(j, op) BY <1>3
  <1>5. Sound(c, j) BY <1>4 DEF IInv, OutlinesSound
  <1>6. result = "running" /\ ~failing => Remains(op, c, j, todo, View(c), FALSE)
    BY <1>1, <1>5 DEF Sound
  <1>7. ASSUME NEW kind, Step(kind), kind \in Targeted \union {"exit", "local", "fail", "cast"},
               Goes \/ Errs, Goes => WorksFor(c), Errs => FailsFor(c)
        PROVE  Sound(c, j)'
    <2>1. /\ result = "running" /\ ~failing /\ todo # <<>> /\ Head(todo).kind = kind
          /\ op' = op
      BY <1>7 DEF Step
    <2>2. ~Stops(Head(todo)) /\ Head(todo).kind \notin Structured BY <1>7, <2>1 DEF Targeted
    <2>3. todo' = Tail(todo) /\ result' = result BY <1>7 DEF Goes, Errs
    <2>4. (~failing' => WorksFor(c)) /\ (failing' => FailsFor(c)) BY <1>7 DEF Goes, Errs
    <2> QED BY <1>2, <1>4, <2>1, <2>2, <2>3, <2>4, DeviceSound
  <1>8. ASSUME UNCHANGED <<conn, given, due, done, answer, lost>>, result = "running",
               result' = result, failing' = FALSE, Remains(op, c, j, todo', View(c), FALSE)
        PROVE  Sound(c, j)'
    BY <1>3, <1>8, ControlSound
  <1>9. ASSUME result' \in {"hangs", "panic"} PROVE Sound(c, j)' BY <1>9 DEF Sound
  <1>10. ASSUME UNCHANGED vars PROVE Sound(c, j)'
    <2>1. View(c)' = View(c) BY <1>10 DEF vars, View
    <2> QED BY <1>5, <1>10, <2>1 DEF vars, Sound
  <1> HIDE DEF Stops, Structured
  <1>11. CASE DialWorks
    <2>1. WorksFor(c) /\ ~Errs BY <1>1, <1>11, DialViews DEF DialWorks, Goes, Errs
    <2> QED BY <1>7, <1>11, <2>1 DEF DialWorks, Targeted
  <1>12. CASE DialFails
    <2>1. FailsFor(c) /\ ~Goes BY <1>1, <1>12, DialViews DEF DialFails, Goes, Errs
    <2> QED BY <1>7, <1>12, <2>1 DEF DialFails, Targeted
  <1>13. CASE Returns
    <2>1. WorksFor(c) /\ ~Errs BY <1>1, <1>13, GiveViews DEF Returns, Goes, Errs
    <2> QED BY <1>7, <1>13, <2>1 DEF Returns, Targeted
  <1>14. CASE HandshakeWorks
    <2>1. WorksFor(c) /\ ~Errs BY <1>1, <1>14, HandshakeViews DEF HandshakeWorks, Goes, Errs
    <2> QED BY <1>7, <1>14, <2>1 DEF HandshakeWorks, Targeted
  <1>15. CASE HandshakeFails
    <2>1. FailsFor(c) /\ ~Goes BY <1>1, <1>15, HandshakeViews DEF HandshakeFails, Goes, Errs
    <2> QED BY <1>7, <1>15, <2>1 DEF HandshakeFails, Targeted
  <1>16. CASE Closes
    <2>1. WorksFor(c) /\ ~Errs BY <1>1, <1>16, CloseViews DEF Closes, Goes, Errs
    <2> QED BY <1>7, <1>16, <2>1 DEF Closes, Targeted
  <1>17. CASE ProcessEnds
    <2>1. WorksFor(c) /\ ~Errs BY <1>1, <1>17, ExitViews DEF ProcessEnds, Goes, Errs
    <2> QED BY <1>7, <1>17, <2>1 DEF ProcessEnds
  <1>18. CASE SendWorks
    <2>1. WorksFor(c) /\ ~Errs BY <1>1, <1>18, SendViews DEF SendWorks, Goes, Errs
    <2> QED BY <1>7, <1>18, <2>1 DEF SendWorks, Targeted
  <1>19. CASE SendFails
    <2>1. FailsFor(c) /\ ~Goes BY <1>1, <1>19, SendViews DEF SendFails, Goes, Errs
    <2> QED BY <1>7, <1>19, <2>1 DEF SendFails, Targeted
  <1>20. CASE DevicePushes
    <2>1. WorksFor(c) /\ ~Errs BY <1>1, <1>20, PushViews DEF DevicePushes, Goes, Errs
    <2> QED BY <1>7, <1>20, <2>1 DEF DevicePushes, Targeted
  <1>21. CASE Answered \/ ReadFails
    <2>1. Step("read") /\ (Goes \/ Errs) BY <1>21 DEF Answered, ReadFails
    <2>2. Target \in Handles BY <2>1, KnownTarget DEF Step, Targeted
    <2>3. (Goes => WorksFor(c)) /\ (Errs => FailsFor(c))
      <3>1. CASE Answered BY <1>1, <2>2, <3>1, ReadViews DEF Goes, Errs
      <3>2. CASE ReadFails
        <4>1. ~Goes BY <3>2 DEF ReadFails, Goes, Errs
        <4> QED BY <1>1, <2>2, <3>2, <4>1, ReadViews
      <3> QED BY <1>21, <3>1, <3>2
    <2> QED BY <1>7, <2>1, <2>3 DEF Targeted
  <1>22. CASE LocalWork
    <2>1. WorksFor(c) /\ FailsFor(c) BY <1>22, LocalViews
    <2> QED BY <1>7, <1>22, <2>1 DEF LocalWork
  <1>23. CASE GivesUp
    <2>1. FailsFor(c) /\ ~Goes BY <1>23, LocalViews DEF GivesUp, Goes, Errs
    <2> QED BY <1>7, <1>23, <2>1 DEF GivesUp
  <1>24. CASE CastWorks
    <2>1. WorksFor(c) /\ ~Errs BY <1>24, LocalViews DEF CastWorks, Goes, Errs
    <2> QED BY <1>7, <1>24, <2>1 DEF CastWorks
  <1>25. CASE Chooses
    <2>1. PICK w \in Head(todo).from : todo' = w \o Tail(todo) BY <1>25 DEF Chooses
    <2>2. Head(todo).kind = "choose" /\ todo # <<>> /\ result = "running" /\ ~failing
      BY <1>25 DEF Chooses, Step
    <2>3. Remains(op, c, j, w \o Tail(todo), View(c), FALSE)
      BY <1>1, <1>6, <2>2, RemainsControl
    <2> QED BY <1>1, <1>8, <1>25, <2>1, <2>2, <2>3 DEF Chooses
  <1>26. CASE Branches
    <2>1. Head(todo).kind = "branch" /\ todo # <<>> /\ result = "running" /\ ~failing
      BY <1>26 DEF Branches, Step
    <2>2. View(c).answer = answer BY DEF View
    <2>3. /\ answer => Remains(op, c, j, Head(todo).yes \o Tail(todo), View(c), FALSE)
          /\ ~answer => Remains(op, c, j, Head(todo).no \o Tail(todo), View(c), FALSE)
      BY <1>1, <1>6, <2>1, <2>2, RemainsControl
    <2>4. Remains(op, c, j, todo', View(c), FALSE)
      <3>1. todo' = (IF answer THEN Head(todo).yes ELSE Head(todo).no) \o Tail(todo)
        BY <1>26 DEF Branches
      <3>2. CASE answer BY <2>3, <3>1, <3>2
      <3>3. CASE ~answer BY <2>3, <3>1, <3>3
      <3> QED BY <3>2, <3>3
    <2> QED BY <1>1, <1>8, <1>26, <2>1, <2>4 DEF Branches
  <1>27. CASE Enters
    <2>1. todo # <<>> /\ result = "running" /\ ~failing BY <1>27 DEF Enters, Step
    <2>2. /\ Head(todo).kind = "defer" =>
               Remains(op, c, j, Head(todo).body \o <<DeferMark(Head(todo))>> \o Tail(todo),
                       View(c), FALSE)
          /\ Head(todo).kind = "try" =>
               Remains(op, c, j, Head(todo).body \o <<TryMark(Head(todo))>> \o Tail(todo),
                       View(c), FALSE)
      BY <1>1, <1>6, <2>1, RemainsControl
    <2>3. \/ /\ Head(todo).kind = "defer"
             /\ todo' = Head(todo).body \o <<DeferMark(Head(todo))>> \o Tail(todo)
          \/ /\ Head(todo).kind = "try"
             /\ todo' = Head(todo).body \o <<TryMark(Head(todo))>> \o Tail(todo)
      BY <1>27 DEF Enters, Step, DeferMark, TryMark
    <2>4. Remains(op, c, j, todo', View(c), FALSE) BY <2>2, <2>3
    <2> QED BY <1>1, <1>8, <1>27, <2>1, <2>4 DEF Enters
  <1>28. CASE LeavesScope
    <2>1. todo # <<>> /\ result = "running" /\ ~failing BY <1>28 DEF LeavesScope
    <2>2. /\ Head(todo).kind = "finally" =>
               Remains(op, c, j, Try(Head(todo).last) \o Tail(todo), View(c), FALSE)
          /\ Head(todo).kind = "catch" =>
               Remains(op, c, j, Head(todo).yes \o Tail(todo), View(c), FALSE)
      BY <1>1, <1>6, <2>1, RemainsControl
    <2>3. \/ Head(todo).kind = "finally" /\ todo' = Try(Head(todo).last) \o Tail(todo)
          \/ Head(todo).kind = "catch" /\ todo' = Head(todo).yes \o Tail(todo)
      BY <1>28 DEF LeavesScope
    <2>4. Remains(op, c, j, todo', View(c), FALSE) BY <2>2, <2>3
    <2> QED BY <1>1, <1>8, <1>28, <2>1, <2>4 DEF LeavesScope
  <1>29. CASE Unwinds
    <2> DEFINE k == SelectInSeq(todo, Stops)
               beyond == SubSeq(todo, k + 1, Len(todo))
    <2>1. /\ result = "running" /\ failing /\ k # 0 /\ failing' = FALSE
          /\ \/ todo[k].kind = "catch" /\ todo' = todo[k].handler \o beyond
             \/ todo[k].kind = "finally" /\ todo' = Try(todo[k].last) \o Fail \o beyond
          /\ UNCHANGED <<op, conn, given, due, done, answer, lost, result>>
      BY <1>29 DEF Unwinds, Stops
    <2>2. Remains(op, c, j, todo, View(c), TRUE) BY <1>1, <1>5, <2>1 DEF Sound
    <2>3. k = SelectInSeq(todo, Stops) OBVIOUS
    <2> HIDE DEF k
    <2>4. /\ todo[k].kind = "finally" =>
               Remains(op, c, j, Try(todo[k].last) \o Fail \o beyond, View(c), FALSE)
          /\ todo[k].kind = "catch" =>
               Remains(op, c, j, todo[k].handler \o beyond, View(c), FALSE)
      BY <1>1, <2>1, <2>2, <2>3, RemainsUnwinding
    <2>5. Remains(op, c, j, todo', View(c), FALSE) BY <2>1, <2>4
    <2> QED BY <1>8, <2>1, <2>5
  <1>30. CASE ReturnsError
    <2>1. result = "running" /\ failing /\ SelectInSeq(todo, Stops) = 0 /\ result' = "error"
      BY <1>30 DEF ReturnsError, Stops
    <2>2. Remains(op, c, j, todo, View(c), TRUE) BY <1>1, <1>5, <2>1 DEF Sound
    <2>3. View(c) \in j.err BY <2>1, <2>2, RemainsNothing
    <2>4. View(c)' = View(c) BY <1>30 DEF ReturnsError, View
    <2> QED BY <2>1, <2>3, <2>4 DEF Sound
  <1>31. CASE ReturnsNil
    <2>1. result = "running" /\ ~failing /\ todo = <<>> /\ result' = "ok"
      BY <1>31 DEF ReturnsNil
    <2>2. View(c) \in Ending(j) BY <1>6, <2>1, RemainsNothing
    <2>3. View(c)' = View(c) BY <1>31 DEF ReturnsNil, View
    <2> QED BY <2>1, <2>2, <2>3 DEF Sound
  <1>32. CASE Panics BY <1>9, <1>32 DEF Panics
  <1>33. CASE Hangs BY <1>9, <1>33 DEF Hangs
  <1>34. CASE Returned \/ UNCHANGED vars BY <1>10, <1>34 DEF Returned
  <1> QED
    BY <1>11, <1>12, <1>13, <1>14, <1>15, <1>16, <1>17, <1>18, <1>19, <1>20, <1>21, <1>22, <1>23,
       <1>24, <1>25, <1>26, <1>27, <1>28, <1>29, <1>30, <1>31, <1>32, <1>33, <1>34
    DEF Next

LEMMA KnownStep == IInv /\ [Next]_vars => KnownConnections'
  <1> SUFFICES ASSUME IInv, [Next]_vars PROVE KnownConnections' OBVIOUS
  <1>1. KnownConnections BY DEF IInv
  <1>2. CASE DialWorks
    <2>1. Target \in Handles BY <1>2, KnownTarget DEF DialWorks, Step, Targeted
    <2> QED BY <1>1, <1>2, <2>1 DEF DialWorks, KnownConnections
  <1>3. CASE Returns
    <2>1. Target \in Handles BY <1>3, KnownTarget DEF Returns, Step, Targeted
    <2> QED BY <1>1, <1>3, <2>1 DEF Returns, KnownConnections
  <1>4. CASE ProcessEnds BY <1>1, <1>4 DEF ProcessEnds, KnownConnections
  <1>5. ASSUME UNCHANGED <<given, lost>> PROVE KnownConnections'
    BY <1>1, <1>5 DEF KnownConnections
  <1>6. CASE Next /\ ~DialWorks /\ ~Returns /\ ~ProcessEnds
    <2>1. UNCHANGED <<given, lost>>
      BY <1>6 DEF Next, DialFails, HandshakeWorks, HandshakeFails, Closes, SendWorks, SendFails,
         DevicePushes, Answered, ReadFails, LocalWork, GivesUp, Chooses, Branches, Enters,
         LeavesScope, Unwinds, ReturnsError, ReturnsNil, CastWorks, Panics, Hangs, Returned, vars
    <2> QED BY <1>5, <2>1
  <1>7. CASE UNCHANGED vars BY <1>5, <1>7 DEF vars
  <1> QED BY <1>2, <1>3, <1>4, <1>6, <1>7

----------------------------------------------------------------------------
(* What the outlines show of every run of every operation.                  *)

\* While an operation runs, the view of each connection is what every outline
\* of the operation says it can be, and so it is when it has returned.
THEOREM OutlinesAreSound == Spec => []IInv
  <1>1. Init => IInv
    <2>1. Init => KnownConnections BY DEF Init, KnownConnections
    <2> QED BY <2>1, TypeInit, SoundInit DEF IInv
  <1>2. IInv /\ [Next]_vars => IInv'
    <2>1. IInv => TypeInv BY DEF IInv
    <2> QED BY <2>1, TypeStep, KnownStep, SoundStep DEF IInv
  <1> QED BY <1>1, <1>2, PTL DEF Spec

\* Whatever failed before, an operation takes for the answer to a request the
\* answer to that request: there is one, and none is older than it.
THEOREM AnswersAreMatched == Spec => []AnswersMatch
  <1>1. IInv => AnswersMatch
    <2> SUFFICES ASSUME IInv, result = "running", ~failing, todo # <<>>,
                        Head(todo).kind = "read", conn[Target] = "open"
                 PROVE  due[Target] # <<>> /\ Head(due[Target]).what = Head(todo).what
      BY DEF AnswersMatch
    <2>1. Target \in Handles BY KnownTarget DEF Targeted
    <2>2. op \in DOMAIN Operations /\ failing = FALSE BY DEF IInv, TypeInv
    <2>3. PICK c \in Handles : c = Target BY <2>1
    <2>4. PICK j \in OutlineFor(op, c) : Judges(j, op) BY <2>2, OutlineFacts
    <2>5. Remains(op, c, j, todo, View(c), FALSE)
      BY <2>2, <2>4 DEF IInv, OutlinesSound, Sound
    <2>6. ~Stops(Head(todo)) /\ Head(todo).kind \notin Structured BY DEF Stops, Structured
    <2>7. Matches(Head(todo), View(c), c) BY <2>2, <2>5, <2>6, RemainsStep
    <2>8. View(c).conn = conn[c] /\ View(c).due = due[c] BY DEF View
    <2> QED BY <2>3, <2>7, <2>8 DEF Matches, Target
  <1> QED BY <1>1, OutlinesAreSound, PTL

\* An operation that reports success has had the device accept every request
\* its name promises.
THEOREM SuccessMeansAccepted == Spec => []SuccessIsAccepted
  <1>1. IInv => SuccessIsAccepted
    <2> SUFFICES ASSUME IInv, result = "ok", NEW q \in Operations[op].promises
                 PROVE  q \in done
      BY DEF SuccessIsAccepted
    <2>1. op \in DOMAIN Operations BY DEF IInv, TypeInv
    <2>2. PICK h \in Handles : TRUE BY HandlesAssumption
    <2>3. PICK c \in Named(op) : Promised(op, q, c) BY <2>1, OutlineFacts
    <2>4. c \in Handles BY <2>1, OutlineFacts
    <2>5. OutlineFor(op, c) = Outline(op, c) BY DEF OutlineFor, JudgedAs
    <2>6. PICK j \in OutlineFor(op, c) : Judges(j, op) /\ \A v \in Ending(j) : q \in v.done
      BY <2>3, <2>5 DEF Promised
    <2>7. View(c) \in Ending(j) BY <2>4, <2>6 DEF IInv, OutlinesSound, Sound
    <2>8. View(c).done = done BY DEF View
    <2> QED BY <2>6, <2>7, <2>8
  <1> QED BY <1>1, OutlinesAreSound, PTL

\* A connection that a function was given by the function that opened it is
\* closed by it or returned to its caller, whether it succeeds or fails, but for
\* the operations and connections of Leaks.
THEOREM ConnectionsAreReleased == Spec => []ConnectionsReleased
  <1>1. IInv => ConnectionsReleased
    <2> SUFFICES ASSUME IInv, NEW c \in LeftOpen
                 PROVE  /\ result = "ok" => c \in Operations[op].returns \union Leaks[op]
                        /\ result = "error" => c \in Leaks[op]
      BY DEF ConnectionsReleased
    <2>1. op \in DOMAIN Operations BY DEF IInv, TypeInv
    <2>2. c \in Handles BY DEF IInv, KnownConnections, LeftOpen
    <2>3. PICK j \in OutlineFor(op, c) : Judges(j, op) /\ Released(j, op, JudgedAs(op, c))
      BY <2>1, <2>2, OutlineFacts
    <2>4. Sound(c, j) BY <2>2, <2>3 DEF IInv, OutlinesSound
    <2>5. LeftIn(View(c))
      <3> DEFINE v == View(c)
      <3>1. v.conn = conn[c] /\ v.given = (c \in given) /\ v.lost = (c \in lost) BY DEF View
      <3>2. c \in lost \/ (c \in given /\ conn[c] \in {"open", "dead"}) BY DEF LeftOpen, Held
      <3> HIDE DEF v
      <3>3. LeftIn(v) BY <3>1, <3>2 DEF LeftIn, HeldIn
      <3> QED BY <3>3 DEF v
    <2>6. JudgedAs(op, c) \in Operations[op].returns \union Leaks[op] => JudgedAs(op, c) = c
      <3>1. Nobody \notin Operations[op].returns \union Leaks[op] BY <2>1, <2>2, OutlineFacts
      <3> QED BY <3>1 DEF JudgedAs
    <2>7. ASSUME result = "ok" PROVE c \in Operations[op].returns \union Leaks[op]
      <3>1. View(c) \in Ending(j) BY <2>4, <2>7 DEF Sound
      <3>2. JudgedAs(op, c) \in Operations[op].returns \union Leaks[op]
        BY <2>3, <2>5, <3>1 DEF Released
      <3> QED BY <2>6, <3>2
    <2>8. ASSUME result = "error" PROVE c \in Leaks[op]
      <3>1. View(c) \in j.err BY <2>4, <2>8 DEF Sound
      <3>2. JudgedAs(op, c) \in Leaks[op] BY <2>3, <2>5, <3>1 DEF Released
      <3> QED BY <2>6, <3>2
    <2> QED BY <2>7, <2>8
  <1> QED BY <1>1, OutlinesAreSound, PTL
=============================================================================
