------------------------- MODULE HttpStreamsProofs -------------------------
(***************************************************************************)
(* Flow control of an HTTP/2 connection: for any number of streams, frames, *)
(* settings and window sizes, both sides count the same windows, no byte is *)
(* lost from them and the connection's window is never overrun.             *)
(*                                                                          *)
(* The invariants sum over the wire and over the streams.  SumTo is a       *)
(* recursive function; what it computes is proved by induction, with the    *)
(* least number principle of WFMin.                                         *)
(***************************************************************************)
EXTENDS HttpStreams, SequenceTheorems, WellFoundedInduction, TLAPS

----------------------------------------------------------------------------
(* Induction, and the sums it is used for.                                  *)

\* Mathematical induction, about a set instead of a predicate.
LEMMA NatSetInduction ==
    ASSUME NEW S, 0 \in S, \A n \in Nat : n \in S => n + 1 \in S
    PROVE  Nat \subseteq S
  <1> DEFINE T == Nat \ S
             R == OpToRel(<, Nat)
  <1> SUFFICES ASSUME T # {} PROVE FALSE OBVIOUS
  <1>1. \E x \in T : \A y \in T : ~(<<y, x>> \in R)
    <2> HIDE DEF T
    <2>1. T \subseteq Nat BY DEF T
    <2> QED BY <2>1, WFMin, NatLessThanWellFounded
  <1>2. PICK x \in T : \A y \in T : ~(<<y, x>> \in R)
    <2> HIDE DEF T, R
    <2> QED BY <1>1
  <1>3. x \in Nat \ {0} BY Zenon
  <1>4. x - 1 \in Nat /\ (x - 1) + 1 = x BY <1>3
  <1>5. <<x - 1, x>> \in R BY <1>3, <1>4 DEF OpToRel
  <1> HIDE DEF R
  <1>6. x - 1 \notin T BY <1>2, <1>5
  <1>7. x - 1 \in S BY <1>4, <1>6
  <1>8. x \in S BY <1>4, <1>7
  <1> QED BY <1>8

\* s is the function that SumTo defines recursively.
IsSum(s, w, m) == s = [n \in 0..m |-> IF n = 0 THEN 0 ELSE s[n - 1] + w[n]]

LEMMA SumsExist == ASSUME NEW w PROVE \A m \in Nat : \E s : IsSum(s, w, m)
  <1> DEFINE S == {m \in Nat : \E s : IsSum(s, w, m)}
  <1>1. 0 \in S
    <2>1. IsSum([n \in 0..0 |-> 0], w, 0) BY DEF IsSum
    <2> QED BY <2>1
  <1>2. ASSUME NEW m \in Nat, m \in S PROVE m + 1 \in S
    <2>1. PICK s : IsSum(s, w, m) BY <1>2
    <2> DEFINE t == [n \in 0..(m + 1) |-> IF n = m + 1 THEN s[m] + w[m + 1] ELSE s[n]]
    <2>2. \A n \in 0..m : s[n] = IF n = 0 THEN 0 ELSE s[n - 1] + w[n]
      BY <2>1 DEF IsSum
    <2>3. t = [n \in 0..(m + 1) |-> IF n = 0 THEN 0 ELSE t[n - 1] + w[n]]
      BY <2>2
    <2>4. IsSum(t, w, m + 1) BY <2>3 DEF IsSum
    <2> QED BY <2>4
  <1> HIDE DEF S
  <1>3. Nat \subseteq S BY <1>1, <1>2, NatSetInduction
  <1> QED BY <1>3 DEF S

LEMMA SumToIsSum ==
    ASSUME NEW w, NEW m \in Nat PROVE \E s : IsSum(s, w, m) /\ SumTo(w, m) = s[m]
  <1> DEFINE s == CHOOSE s : IsSum(s, w, m)
  <1>1. IsSum(s, w, m) BY SumsExist
  <1>2. SumTo(w, m) = s[m] BY DEF SumTo, IsSum
  <1> QED BY <1>1, <1>2

\* Two such functions agree as far as both are defined.
LEMMA SumsAgree ==
    ASSUME NEW w, NEW m \in Nat, NEW k \in Nat, NEW s, NEW t, IsSum(s, w, m), IsSum(t, w, k)
    PROVE  \A n \in Nat : n <= m /\ n <= k => s[n] = t[n]
  <1> DEFINE S == {n \in Nat : n <= m /\ n <= k => s[n] = t[n]}
  <1>0. /\ \A n \in 0..m : s[n] = IF n = 0 THEN 0 ELSE s[n - 1] + w[n]
        /\ \A n \in 0..k : t[n] = IF n = 0 THEN 0 ELSE t[n - 1] + w[n]
    BY DEF IsSum
  <1>1. 0 \in S BY <1>0
  <1>2. ASSUME NEW n \in Nat, n \in S PROVE n + 1 \in S
    BY <1>0, <1>2
  <1> HIDE DEF S
  <1>3. Nat \subseteq S BY <1>1, <1>2, NatSetInduction
  <1> QED BY <1>3 DEF S

\* The equations of the sum.
LEMMA SumToZero == ASSUME NEW w PROVE SumTo(w, 0) = 0
  <1>1. PICK s : IsSum(s, w, 0) /\ SumTo(w, 0) = s[0] BY SumToIsSum
  <1> QED BY <1>1 DEF IsSum

LEMMA SumToNext ==
    ASSUME NEW w, NEW m \in Nat PROVE SumTo(w, m + 1) = SumTo(w, m) + w[m + 1]
  <1>1. PICK s : IsSum(s, w, m) /\ SumTo(w, m) = s[m] BY SumToIsSum
  <1>2. PICK t : IsSum(t, w, m + 1) /\ SumTo(w, m + 1) = t[m + 1] BY SumToIsSum
  <1>3. s[m] = t[m] BY <1>1, <1>2, SumsAgree
  <1>4. t[m + 1] = t[m] + w[m + 1] BY <1>2 DEF IsSum
  <1> QED BY <1>1, <1>2, <1>3, <1>4

\* A sum of naturals is a natural.
LEMMA SumToNat ==
    ASSUME NEW w, NEW m \in Nat, \A i \in 1..m : w[i] \in Nat PROVE SumTo(w, m) \in Nat
  <1> DEFINE S == {n \in Nat : n <= m => SumTo(w, n) \in Nat}
  <1>1. 0 \in S BY SumToZero
  <1>2. ASSUME NEW n \in Nat, n \in S PROVE n + 1 \in S
    BY <1>2, SumToNext
  <1> HIDE DEF S
  <1>3. Nat \subseteq S BY <1>1, <1>2, NatSetInduction
  <1> QED BY <1>3 DEF S

\* Adding d to one of the terms adds it to the sum.
LEMMA SumToChange ==
    ASSUME NEW w, NEW v, NEW m \in Nat, NEW k \in 1..m, NEW d \in Int,
           \A i \in 1..m : w[i] \in Int /\ v[i] = IF i = k THEN w[i] + d ELSE w[i]
    PROVE  SumTo(w, m) \in Int /\ SumTo(v, m) = SumTo(w, m) + d
  <1> DEFINE S == {n \in Nat : n <= m => /\ SumTo(w, n) \in Int
                                         /\ SumTo(v, n) = SumTo(w, n) + IF k <= n THEN d ELSE 0}
  <1>1. 0 \in S BY SumToZero
  <1>2. ASSUME NEW n \in Nat, n \in S PROVE n + 1 \in S
    <2> SUFFICES ASSUME n + 1 <= m
                 PROVE  /\ SumTo(w, n + 1) \in Int
                        /\ SumTo(v, n + 1) = SumTo(w, n + 1) + IF k <= n + 1 THEN d ELSE 0
      OBVIOUS
    <2>1. SumTo(w, n) \in Int /\ SumTo(v, n) = SumTo(w, n) + IF k <= n THEN d ELSE 0 BY <1>2
    <2>2. SumTo(w, n + 1) = SumTo(w, n) + w[n + 1] BY SumToNext
    <2>3. SumTo(v, n + 1) = SumTo(v, n) + v[n + 1] BY SumToNext
    <2>4. w[n + 1] \in Int /\ v[n + 1] = IF n + 1 = k THEN w[n + 1] + d ELSE w[n + 1] OBVIOUS
    <2> QED BY <2>1, <2>2, <2>3, <2>4
  <1> HIDE DEF S
  <1>3. Nat \subseteq S BY <1>1, <1>2, NatSetInduction
  <1> QED BY <1>3 DEF S

\* The sum depends on the terms only.
LEMMA SumToSame ==
    ASSUME NEW w, NEW v, NEW m \in Nat, \A i \in 1..m : v[i] = w[i]
    PROVE  SumTo(v, m) = SumTo(w, m)
  <1> DEFINE S == {n \in Nat : n <= m => SumTo(v, n) = SumTo(w, n)}
  <1>1. 0 \in S BY SumToZero
  <1>2. ASSUME NEW n \in Nat, n \in S PROVE n + 1 \in S
    BY <1>2, SumToNext
  <1> HIDE DEF S
  <1>3. Nat \subseteq S BY <1>1, <1>2, NatSetInduction
  <1> QED BY <1>3 DEF S

\* Without its first term.
LEMMA SumToShift ==
    ASSUME NEW w, NEW v, NEW m \in Nat, \A i \in 1..(m + 1) : w[i] \in Nat,
           \A i \in 1..m : v[i] = w[i + 1]
    PROVE  SumTo(w, m + 1) = w[1] + SumTo(v, m)
  <1> DEFINE S == {n \in Nat : n <= m => SumTo(w, n + 1) = w[1] + SumTo(v, n)}
  <1>1. 0 \in S
    <2>1. SumTo(w, 0 + 1) = SumTo(w, 0) + w[0 + 1] BY SumToNext
    <2>2. SumTo(w, 0) = 0 /\ SumTo(v, 0) = 0 BY SumToZero
    <2>3. w[1] \in Nat OBVIOUS
    <2> QED BY <2>1, <2>2, <2>3
  <1>2. ASSUME NEW n \in Nat, n \in S PROVE n + 1 \in S
    <2> SUFFICES ASSUME n + 1 <= m
                 PROVE  SumTo(w, (n + 1) + 1) = w[1] + SumTo(v, n + 1)
      OBVIOUS
    <2>1. SumTo(w, n + 1) = w[1] + SumTo(v, n) BY <1>2
    <2>2. SumTo(w, (n + 1) + 1) = SumTo(w, n + 1) + w[(n + 1) + 1] BY SumToNext
    <2>3. SumTo(v, n + 1) = SumTo(v, n) + v[n + 1] BY SumToNext
    <2>4. v[n + 1] = w[(n + 1) + 1] OBVIOUS
    <2>5. \A i \in 1..n : v[i] \in Nat OBVIOUS
    <2>6. SumTo(v, n) \in Nat /\ w[1] \in Nat /\ v[n + 1] \in Nat BY <2>5, SumToNat
    <2> QED BY <2>1, <2>2, <2>3, <2>4, <2>6
  <1> HIDE DEF S
  <1>3. Nat \subseteq S BY <1>1, <1>2, NatSetInduction
  <1> QED BY <1>3 DEF S

----------------------------------------------------------------------------
(* The bytes on the wire.                                                   *)

LEMMA BytesNat ==
    ASSUME NEW f \in Frames, NEW type, NEW of PROVE Bytes(f, type, of) \in Nat
  BY DEF Bytes, Frames

LEMMA BytesOnNat ==
    ASSUME NEW q \in Seq(Frames), NEW type, NEW of PROVE BytesOn(q, type, of) \in Nat
  <1> DEFINE w == [i \in 1..Len(q) |-> Bytes(q[i], type, of)]
  <1>1. \A i \in 1..Len(q) : w[i] \in Nat BY BytesNat
  <1> HIDE DEF w
  <1>2. SumTo(w, Len(q)) \in Nat BY <1>1, SumToNat
  <1> QED BY <1>2 DEF BytesOn, w

LEMMA BytesOnEmpty == ASSUME NEW type, NEW of PROVE BytesOn(<< >>, type, of) = 0
  BY SumToZero DEF BytesOn

LEMMA BytesOnAppend ==
    ASSUME NEW q \in Seq(Frames), NEW f \in Frames, NEW type, NEW of
    PROVE  BytesOn(Append(q, f), type, of) = BytesOn(q, type, of) + Bytes(f, type, of)
  <1> DEFINE n == Len(q)
             w == [i \in 1..n |-> Bytes(q[i], type, of)]
             v == [i \in 1..Len(Append(q, f)) |-> Bytes(Append(q, f)[i], type, of)]
  <1>1. n \in Nat /\ Len(Append(q, f)) = n + 1 OBVIOUS
  <1>2. \A i \in 1..n : v[i] = w[i] OBVIOUS
  <1>3. v[n + 1] = Bytes(f, type, of) OBVIOUS
  <1>4. BytesOn(q, type, of) = SumTo(w, n) BY DEF BytesOn
  <1>5. BytesOn(Append(q, f), type, of) = SumTo(v, n + 1) BY <1>1 DEF BytesOn
  <1> HIDE DEF w, v, n
  <1>6. SumTo(v, n + 1) = SumTo(v, n) + v[n + 1] BY <1>1, SumToNext
  <1>7. SumTo(v, n) = SumTo(w, n) BY <1>1, <1>2, SumToSame
  <1> QED BY <1>3, <1>4, <1>5, <1>6, <1>7

LEMMA BytesOnTail ==
    ASSUME NEW q \in Seq(Frames), q # << >>, NEW type, NEW of
    PROVE  BytesOn(q, type, of) = Bytes(Head(q), type, of) + BytesOn(Tail(q), type, of)
  <1> DEFINE n == Len(Tail(q))
             w == [i \in 1..Len(q) |-> Bytes(q[i], type, of)]
             v == [i \in 1..n |-> Bytes(Tail(q)[i], type, of)]
  <1>1. n \in Nat /\ Len(q) = n + 1 /\ q[1] = Head(q) OBVIOUS
  <1>2. \A i \in 1..n : v[i] = w[i + 1] OBVIOUS
  <1>3. \A i \in 1..(n + 1) : w[i] \in Nat BY <1>1, BytesNat
  <1>4. w[1] = Bytes(Head(q), type, of) BY <1>1
  <1>5. BytesOn(q, type, of) = SumTo(w, n + 1) BY <1>1 DEF BytesOn
  <1>6. BytesOn(Tail(q), type, of) = SumTo(v, n) BY DEF BytesOn
  <1> HIDE DEF w, v, n
  <1>7. SumTo(w, n + 1) = w[1] + SumTo(v, n) BY <1>1, <1>2, <1>3, SumToShift
  <1> QED BY <1>4, <1>5, <1>6, <1>7

----------------------------------------------------------------------------
(* The inductive invariant.                                                 *)

\* A goroutine is inside a call only once its stream is in the table, has bytes
\* reserved only while it writes them, and never more than it has left.
GoroutinesInv ==
    /\ nextStreamId % 2 = 1
    /\ \A s \in Streams :
          /\ user[s].pc = "none" <=> s \notin DOMAIN streams
          /\ Calling(s) => user[s].op \in {"read", "write"}
          /\ user[s].chunk # 0 => user[s].pc \in {"data", "done"}
          /\ user[s].pc = "data" => user[s].chunk <= user[s].left
    /\ connSendWindow >= 0

\* What the peer sends is about streams it knows, or its own; it ends a stream once.
Proper(f) ==
    /\ f.type \in {"data", "reset"} /\ f.stream \notin OtherStreams =>
          /\ f.stream \in DOMAIN streams
          /\ f.type = "reset" \/ f.end => f.stream \in finished
    /\ f.type = "update" => f.stream \in DOMAIN streams \cup {InitStream}
    /\ f.type = "data" => f.padding <= f.length
PeerInv ==
    /\ \A i \in 1..Len(wire) : Proper(wire[i])
    /\ \A s \in DOMAIN streams : streams[s].reset => s \in finished
    /\ finished \subseteq DOMAIN streams

\* There is something to grant back only while somebody is about to.
IncrementsInv ==
    /\ increments.stream \in DOMAIN streams \cup {InitStream}
    /\ increments.conn + increments.onStream > 0 => \E s \in Streams : user[s].pc = "answer"

\* A stream that is not open yet has the windows the peer has announced.
UnopenedInv ==
    \A s \in Streams \ DOMAIN streams :
        /\ credit[s] = announced /\ Pending("update", {s}) = 0
        /\ room[s] = recvWindowSize /\ Pending("data", {s}) = 0

IInv == /\ TypeOK /\ GoroutinesInv /\ PeerInv /\ IncrementsInv /\ UnopenedInv
        /\ SendWindowsHonest /\ ReceiveWindowsReplenished
----------------------------------------------------------------------------
(* What changes the sums.                                                   *)

LEMMA PendingNat == ASSUME TypeOK, NEW type, NEW of PROVE Pending(type, of) \in Nat
  BY BytesOnNat DEF Pending, TypeOK

LEMMA PendingSame ==
    ASSUME UNCHANGED wire, NEW type, NEW of PROVE Pending(type, of)' = Pending(type, of)
  BY DEF Pending

LEMMA PendingSent ==
    ASSUME TypeOK, NEW f \in Frames, wire' = Append(wire, f), NEW type, NEW of
    PROVE  Pending(type, of)' = Pending(type, of) + Bytes(f, type, of)
  BY BytesOnAppend DEF Pending, TypeOK

LEMMA PendingRead ==
    ASSUME TypeOK, wire # << >>, wire' = Tail(wire), NEW type, NEW of
    PROVE  /\ Pending(type, of) = Bytes(Head(wire), type, of) + Pending(type, of)'
           /\ Pending(type, of)' \in Nat /\ Bytes(Head(wire), type, of) \in Nat
  <1>1. wire \in Seq(Frames) /\ Head(wire) \in Frames /\ Tail(wire) \in Seq(Frames)
    BY DEF TypeOK
  <1>2. BytesOn(wire, type, of) = Bytes(Head(wire), type, of) + BytesOn(Tail(wire), type, of)
    BY <1>1, BytesOnTail
  <1>3. BytesOn(Tail(wire), type, of) \in Nat BY <1>1, BytesOnNat
  <1>4. Bytes(Head(wire), type, of) \in Nat BY <1>1, BytesNat
  <1> QED BY <1>2, <1>3, <1>4 DEF Pending

LEMMA ReservedNat == ASSUME TypeOK, NEW s PROVE Reserved(s) \in Nat
  BY DEF TypeOK, Goroutines, Reserved

LEMMA AllReservedNat == ASSUME TypeOK PROVE AllReserved \in Nat
  <1> DEFINE w == [s \in 1..nextStreamId |-> Reserved(s)]
  <1>1. \A i \in 1..nextStreamId : w[i] \in Nat BY ReservedNat
  <1>2. nextStreamId \in Nat BY DEF TypeOK
  <1> HIDE DEF w
  <1>3. SumTo(w, nextStreamId) \in Nat BY <1>1, <1>2, SumToNat
  <1> QED BY <1>3 DEF AllReserved, w

LEMMA AllReservedSame ==
    ASSUME TypeOK, UNCHANGED nextStreamId, \A s \in Streams : user'[s].chunk = user[s].chunk
    PROVE  AllReserved' = AllReserved
  <1> DEFINE w == [s \in 1..nextStreamId |-> Reserved(s)]
             v == [s \in 1..nextStreamId |-> Reserved(s)']
  <1>1. \A i \in 1..nextStreamId : v[i] = w[i] BY DEF Reserved
  <1>2. AllReserved = SumTo(w, nextStreamId) BY DEF AllReserved
  <1>3. AllReserved' = SumTo(v, nextStreamId) BY DEF AllReserved
  <1>4. nextStreamId \in Nat BY DEF TypeOK
  <1> HIDE DEF w, v
  <1> QED BY <1>1, <1>2, <1>3, <1>4, SumToSame

LEMMA AllReservedChange ==
    ASSUME TypeOK, UNCHANGED nextStreamId, NEW s \in DOMAIN streams, NEW d \in Int,
           user'[s].chunk = user[s].chunk + d,
           \A t \in Streams \ {s} : user'[t].chunk = user[t].chunk
    PROVE  AllReserved' = AllReserved + d
  <1> DEFINE w == [t \in 1..nextStreamId |-> Reserved(t)]
             v == [t \in 1..nextStreamId |-> Reserved(t)']
  <1>1. nextStreamId \in Nat /\ s \in Streams /\ s < nextStreamId BY DEF TypeOK
  <1>2. s \in 1..nextStreamId BY <1>1, HttpAssumption
  <1>3. \A i \in 1..nextStreamId : w[i] \in Int /\ v[i] = IF i = s THEN w[i] + d ELSE w[i]
    <2> TAKE i \in 1..nextStreamId
    <2>1. w[i] = Reserved(i) /\ w[i] \in Int BY ReservedNat
    <2>2. v[i] = Reserved(i)' OBVIOUS
    <2> QED BY <1>1, <2>1, <2>2 DEF Reserved
  <1>4. AllReserved = SumTo(w, nextStreamId) BY DEF AllReserved
  <1>5. AllReserved' = SumTo(v, nextStreamId) BY DEF AllReserved
  <1> HIDE DEF w, v
  <1> QED BY <1>1, <1>2, <1>3, <1>4, <1>5, SumToChange

\* The stream that is opened, and what would be the next, have nothing reserved.
LEMMA AllReservedOpen ==
    ASSUME TypeOK, GoroutinesInv, nextStreamId' = nextStreamId + 2,
           \A t \in Streams : user'[t].chunk = user[t].chunk
    PROVE  AllReserved' = AllReserved
  <1> DEFINE n == nextStreamId
             w == [t \in 1..n |-> Reserved(t)]
             v == [t \in 1..(n + 2) |-> Reserved(t)']
  <1>1. n \in Nat BY DEF TypeOK
  <1>2. \A i \in 1..n : v[i] = w[i] BY <1>1 DEF Reserved
  <1>3. \A t : t > n => Reserved(t) = 0
    <2> SUFFICES ASSUME NEW t \in Streams, t > n PROVE user[t].chunk = 0 BY DEF Reserved
    <2>1. t \notin DOMAIN streams BY <1>1, HttpAssumption DEF TypeOK
    <2> QED BY <2>1 DEF GoroutinesInv
  <1>4. v[n + 1] = 0 /\ v[n + 2] = 0
    <2>1. \A t : t > n => Reserved(t)' = 0 BY <1>3 DEF Reserved
    <2>2. n + 1 \in 1..(n + 2) /\ n + 2 \in 1..(n + 2) BY <1>1
    <2>3. \A t \in 1..(n + 2) : t > n => v[t] = 0 BY <2>1
    <2> QED BY <1>1, <2>2, <2>3
  <1>5. AllReserved = SumTo(w, n) BY DEF AllReserved
  <1>6. AllReserved' = SumTo(v, n + 2) BY DEF AllReserved
  <1>7. AllReserved \in Nat BY AllReservedNat
  <1> HIDE DEF w, v
  <1>8. SumTo(v, n) = SumTo(w, n) BY <1>1, <1>2, SumToSame
  <1>9. SumTo(v, n + 1) = SumTo(v, n) + v[n + 1] BY <1>1, SumToNext
  <1>10. SumTo(v, (n + 1) + 1) = SumTo(v, n + 1) + v[(n + 1) + 1] BY <1>1, SumToNext
  <1>11. (n + 1) + 1 = n + 2 BY <1>1
  <1> QED BY <1>4, <1>5, <1>6, <1>7, <1>8, <1>9, <1>10, <1>11

----------------------------------------------------------------------------
(* Every step keeps the invariant.                                          *)

LEMMA ConstantsAreNumbers ==
    /\ defaultWindowSize \in Nat /\ recvWindowSize \in Nat /\ maxFrameSize \in Nat
    /\ FirstWindow \in Nat /\ MaxCalls \in Nat /\ MaxFrames \in Nat
    /\ windowUpdateThreshold \in 1..recvWindowSize
    /\ \A n \in Lengths : n \in Nat \ {0}
    /\ \A n \in InitialWindows \cup Padding : n \in Nat
  BY HttpAssumption

LEMMA ZeroIsNoStream == InitStream \notin Streams
  BY HttpAssumption DEF InitStream, ClientServer

LEMMA OthersApart == \A t \in OtherStreams : t \notin Streams
  BY HttpAssumption

\* The connection and the windows start as NewHttpConnection leaves them.
LEMMA InitInv == ASSUME Init PROVE IInv
  <1> USE HttpAssumption DEF Init, InitStream, ClientServer
  <1>1. TypeOK
    <2>1. user \in [Streams -> Goroutines] BY DEF Goroutines, Places
    <2>2. DOMAIN streams = {s \in Streams : s < nextStreamId}
      <3>1. DOMAIN streams = {} OBVIOUS
      <3>2. \A s \in Streams : ~(s < 1) OBVIOUS
      <3> QED BY <3>1, <3>2
    <2>3. framerReadMu \notin Streams BY ZeroIsNoStream
    <2>4. 0 \in 0..(windowUpdateThreshold - 1) OBVIOUS
    <2> QED BY <2>1, <2>2, <2>3, <2>4 DEF TypeOK, NoIncrements
  <1>2. \A type, of : Pending(type, of) = 0 BY BytesOnEmpty DEF Pending
  <1>3. AllReserved = 0
    <2>1. 1 \in Nat /\ SumTo([s \in 1..1 |-> Reserved(s)], 0 + 1)
                     = SumTo([s \in 1..1 |-> Reserved(s)], 0) + [s \in 1..1 |-> Reserved(s)][0 + 1]
      BY SumToNext
    <2>2. SumTo([s \in 1..1 |-> Reserved(s)], 0) = 0 BY SumToZero
    <2>3. Reserved(1) = 0 BY DEF Reserved
    <2> QED BY <2>1, <2>2, <2>3 DEF AllReserved
  <1>4. GoroutinesInv BY DEF GoroutinesInv, Calling
  <1>5. PeerInv /\ IncrementsInv BY DEF PeerInv, IncrementsInv, NoIncrements
  <1>6. UnopenedInv BY <1>2 DEF UnopenedInv
  <1>7. SendWindowsHonest BY <1>2, <1>3 DEF SendWindowsHonest
  <1>8. ReceiveWindowsReplenished
    <2>1. DOMAIN streams = {} OBVIOUS
    <2>2. connRoom + Pending("data", AllStreams) + connRecvUnacked + increments.conn + forgone = recvWindowSize
      BY <1>2, ConstantsAreNumbers DEF NoIncrements
    <2> QED BY <2>1, <2>2 DEF ReceiveWindowsReplenished
  <1> QED BY <1>1, <1>4, <1>5, <1>6, <1>7, <1>8 DEF IInv

\* What a step of the goroutine of s does to it; the others stay where they are.
Moves(s, g) ==
    /\ user' \in [Streams -> Goroutines]
    /\ user'[s] = g
    /\ \A t \in Streams \ {s} : user'[t] = user[t]

LEMMA UserMoves ==
    ASSUME TypeOK, NEW s \in Streams, NEW g \in Goroutines, user' = [user EXCEPT ![s] = g]
    PROVE  Moves(s, g)
  BY DEF TypeOK, Moves

LEMMA GotoMoves ==
    ASSUME TypeOK, NEW s \in Streams, NEW to \in Places, Goto(s, to)
    PROVE  \E g \in Goroutines :
              /\ Moves(s, g)
              /\ g.pc = to /\ g.op = user[s].op /\ g.left = user[s].left
              /\ g.chunk = user[s].chunk /\ g.calls = user[s].calls
  <1> DEFINE g == [user[s] EXCEPT !.pc = to]
  <1>1. user[s] \in Goroutines BY DEF TypeOK
  <1>2. /\ g \in Goroutines
        /\ g.pc = to /\ g.op = user[s].op /\ g.left = user[s].left
        /\ g.chunk = user[s].chunk /\ g.calls = user[s].calls
    BY <1>1 DEF Goroutines
  <1>3. user' = [user EXCEPT ![s] = g] BY DEF Goto
  <1> HIDE DEF g
  <1>4. Moves(s, g) BY <1>2, <1>3, UserMoves
  <1> QED BY <1>2, <1>4

\* What s may become in a step that touches no window: it takes or leaves the
\* mutex with the place it moves to.
Quiet(s, g) ==
    /\ g.chunk = user[s].chunk
    /\ g.chunk # 0 => g.pc = "done"
    /\ g.pc = "none" <=> user[s].pc = "none"
    /\ g.pc \in {"read", "write", "lock", "frame"} => g.op \in {"read", "write"}
    /\ g.pc \notin {"data", "answer"} /\ user[s].pc # "answer"
    /\ framerReadMu' \in Streams \cup {InitStream}
    /\ framerReadMu' = s <=> g.pc = "frame"
    /\ \A t \in Streams \ {s} : framerReadMu' = t <=> framerReadMu = t

LEMMA QuietInv ==
    ASSUME IInv, NEW s \in Streams, NEW g \in Goroutines, Moves(s, g), Quiet(s, g),
           UNCHANGED <<windows, table, increments, transport, wire, peer>>
    PROVE  IInv'
  <1> USE DEF windows, table, peer
  <1>1. \A type, of : Pending(type, of)' = Pending(type, of) BY PendingSame
  <1>2. \A t \in Streams : user'[t].chunk = user[t].chunk BY DEF Moves, Quiet
  <1>3. TypeOK'
    BY DEF IInv, TypeOK, Moves, Quiet
  <1>4. GoroutinesInv' BY DEF IInv, GoroutinesInv, Calling, Moves, Quiet
  <1>5. PeerInv' BY DEF IInv, PeerInv, Proper
  <1>6. IncrementsInv' BY DEF IInv, IncrementsInv, Moves, Quiet
  <1>7. UnopenedInv' BY <1>1 DEF IInv, UnopenedInv
  <1>8. SendWindowsHonest'
    <2>1. AllReserved' = AllReserved BY <1>2, AllReservedSame DEF IInv
    <2>2. \A t : Reserved(t)' = Reserved(t) BY <1>2 DEF Reserved
    <2> QED BY <1>1, <2>1, <2>2 DEF IInv, SendWindowsHonest
  <1>9. ReceiveWindowsReplenished' BY <1>1 DEF IInv, ReceiveWindowsReplenished
  <1> QED BY <1>3, <1>4, <1>5, <1>6, <1>7, <1>8, <1>9 DEF IInv

LEMMA QuietSteps ==
    ASSUME IInv, NEW s \in Streams,
           \/ WriteHeaders(s) \/ WriteFails(s) \/ Close(s) \/ LockReadSide(s) \/ ReadFrameFails(s)
           \/ \E op \in {"read", "write"}, n \in Lengths : Call(s, op, n)
    PROVE  IInv'
  <1>1. UNCHANGED <<windows, table, increments, transport, wire, peer>>
    BY DEF WriteHeaders, WriteFails, Close, LockReadSide, ReadFrameFails, Call
  <1>2. /\ TypeOK /\ GoroutinesInv /\ user[s] \in Goroutines
        /\ framerReadMu \in Streams \cup {InitStream}
        /\ \A t \in Streams : framerReadMu = t <=> user[t].pc \in {"frame", "answer"}
    BY DEF IInv, TypeOK
  <1>3. /\ user[s].chunk # 0 => user[s].pc \in {"data", "done"}
        /\ Calling(s) => user[s].op \in {"read", "write"}
    BY <1>2 DEF GoroutinesInv
  <1>4. \E g \in Goroutines : Moves(s, g) /\ Quiet(s, g)
    <2>1. CASE WriteHeaders(s)
      <3>1. Goto(s, IF transport = "up" THEN "idle" ELSE "done") BY <2>1 DEF WriteHeaders, Goto
      <3> QED BY <1>2, <1>3, <2>1, <3>1, GotoMoves, ZeroIsNoStream
              DEF WriteHeaders, Quiet, Places
    <2>2. CASE WriteFails(s)
      BY <1>2, <1>3, <2>2, GotoMoves DEF WriteFails, Quiet, Places
    <2>3. CASE Close(s)
      BY <1>2, <1>3, <2>3, GotoMoves DEF Close, Quiet, Places
    <2>4. CASE LockReadSide(s)
      BY <1>2, <1>3, <2>4, GotoMoves, ZeroIsNoStream
      DEF LockReadSide, Quiet, Places, Calling
    <2>5. CASE ReadFrameFails(s)
      BY <1>2, <1>3, <2>5, GotoMoves, ZeroIsNoStream
      DEF ReadFrameFails, UnlockReadSide, Quiet, Places
    <2>6. ASSUME NEW op \in {"read", "write"}, NEW n \in Lengths, Call(s, op, n)
          PROVE  \E g \in Goroutines : Moves(s, g) /\ Quiet(s, g)
      <3> DEFINE g == [pc |-> op, op |-> op, left |-> n, chunk |-> 0, calls |-> user[s].calls + 1]
      <3>1. g \in Goroutines
        BY <1>2, <2>6, HttpAssumption DEF Call, Goroutines, Places
      <3>2. user' = [user EXCEPT ![s] = g] BY <2>6 DEF Call
      <3>3. Quiet(s, g) BY <1>2, <1>3, <2>6 DEF Call, Quiet
      <3> HIDE DEF g
      <3> QED BY <1>2, <3>1, <3>2, <3>3, UserMoves
    <2> QED BY <2>1, <2>2, <2>3, <2>4, <2>5, <2>6
  <1> QED BY <1>1, <1>4, QuietInv

\* A new stream has the windows the peer has announced, and nothing on the wire.
LEMMA OpenInv == ASSUME IInv, NEW s \in Streams, OpenStream(s) PROVE IInv'
  <1> USE DEF windows, peer
  <1>1. UNCHANGED <<framerReadMu, windows, increments, transport, wire, peer>>
    BY DEF OpenStream
  <1>2. /\ TypeOK /\ GoroutinesInv /\ PeerInv /\ IncrementsInv /\ UnopenedInv
        /\ SendWindowsHonest /\ ReceiveWindowsReplenished
    BY DEF IInv
  <1>3. PICK g \in Goroutines :
          Moves(s, g) /\ g.pc = "headers" /\ g.chunk = user[s].chunk /\ user[s].pc = "none"
    BY <1>2, GotoMoves DEF OpenStream, Goto, Places
  <1>4. \A type, of : Pending(type, of)' = Pending(type, of) BY <1>1, PendingSame
  <1>5. s \notin DOMAIN streams /\ user[s].chunk = 0 BY <1>2, <1>3 DEF GoroutinesInv
  <1>6. s = nextStreamId /\ nextStreamId' = nextStreamId + 2 BY DEF OpenStream
  <1>7. /\ DOMAIN streams' = DOMAIN streams \cup {s}
        /\ streams'[s] = NewStreamState
        /\ \A t \in DOMAIN streams : streams'[t] = streams[t]
    BY <1>5 DEF OpenStream
  <1>8. TypeOK'
    <2>1. DOMAIN streams' = {t \in Streams : t < nextStreamId'}
      <3>1. nextStreamId \in Nat /\ DOMAIN streams = {t \in Streams : t < nextStreamId}
        BY <1>2 DEF TypeOK
      <3>2. nextStreamId % 2 = 1 BY <1>2 DEF GoroutinesInv
      <3>3. \A t \in Streams : t \in Nat /\ t % 2 = 1 BY HttpAssumption
      <3>4. nextStreamId + 1 \notin Streams BY <3>1, <3>2, <3>3
      <3>5. \A t \in Streams : t < nextStreamId + 2 <=> t < nextStreamId \/ t = nextStreamId
        BY <3>1, <3>3, <3>4
      <3> QED BY <1>6, <1>7, <3>1, <3>5
    <2>2. NewStreamState \in StreamStates
      BY <1>2, ConstantsAreNumbers DEF NewStreamState, StreamStates, TypeOK
    <2>3. \A t \in DOMAIN streams' : streams'[t] \in StreamStates
      BY <1>2, <1>7, <2>2 DEF TypeOK
    <2>4. \A t \in Streams : framerReadMu' = t <=> user'[t].pc \in {"frame", "answer"}
      BY <1>1, <1>2, <1>3 DEF TypeOK, Moves
    <2>5. nextStreamId' \in Nat BY <1>2, <1>6 DEF TypeOK
    <2> QED BY <1>1, <1>2, <1>3, <2>1, <2>3, <2>4, <2>5 DEF TypeOK, Moves
  <1>9. GoroutinesInv'
    <2>1. nextStreamId' % 2 = 1
      BY <1>2, <1>6 DEF GoroutinesInv, TypeOK
    <2> QED BY <1>1, <1>2, <1>3, <1>5, <1>7, <2>1 DEF GoroutinesInv, Calling, Moves
  <1>10. PeerInv'
    <2>1. \A f : Proper(f) => Proper(f)' BY <1>1, <1>7 DEF Proper
    <2>2. ~NewStreamState.reset BY DEF NewStreamState
    <2> QED BY <1>1, <1>2, <1>7, <2>1, <2>2 DEF PeerInv
  <1>11. IncrementsInv'
    BY <1>1, <1>2, <1>3, <1>7 DEF IncrementsInv, Moves
  <1>12. UnopenedInv' BY <1>1, <1>2, <1>4, <1>7 DEF UnopenedInv
  <1>13. SendWindowsHonest'
    <2>1. AllReserved' = AllReserved
      BY <1>2, <1>3, <1>6, AllReservedOpen DEF Moves
    <2>2. \A t : Reserved(t)' = Reserved(t) BY <1>3 DEF Reserved, Moves
    <2>3. streams'[s].sendWindow = peerInitialWindow /\ Reserved(s) = 0
      BY <1>5, <1>7 DEF NewStreamState, Reserved
    <2>4. credit[s] = announced /\ Pending("update", {s}) = 0 BY <1>2, <1>5 DEF UnopenedInv
    <2>5. peerInitialWindow \in Nat /\ announced \in Nat BY <1>2 DEF TypeOK
    <2>6. connSendWindow' + AllReserved' + Pending("update", {InitStream})' = connCredit'
      BY <1>1, <1>2, <1>4, <2>1 DEF SendWindowsHonest
    <2>7. ASSUME NEW t \in DOMAIN streams'
          PROVE  streams'[t].sendWindow + Reserved(t)' + Pending("update", {t})'
                    + announced' - peerInitialWindow' = credit'[t]
      <3>1. CASE t = s BY <1>1, <1>4, <2>2, <2>3, <2>4, <2>5, <3>1
      <3>2. CASE t \in DOMAIN streams BY <1>1, <1>2, <1>4, <1>7, <2>2, <3>2 DEF SendWindowsHonest
      <3> QED BY <1>7, <3>1, <3>2
    <2> QED BY <2>6, <2>7 DEF SendWindowsHonest
  <1>14. ReceiveWindowsReplenished'
    <2>1. streams'[s].recvUnacked = 0 BY <1>7 DEF NewStreamState
    <2>2. room[s] = recvWindowSize /\ Pending("data", {s}) = 0 BY <1>2, <1>5 DEF UnopenedInv
    <2>3. increments.stream # s
      <3>1. s # InitStream BY ZeroIsNoStream
      <3> QED BY <1>2, <1>5, <3>1 DEF IncrementsInv
    <2>4. recvWindowSize \in Nat BY ConstantsAreNumbers
    <2> SUFFICES ASSUME transport' = "up"
                 PROVE  /\ connRoom' + Pending("data", AllStreams)' + connRecvUnacked'
                              + increments'.conn + forgone' = recvWindowSize
                        /\ \A t \in DOMAIN streams' \ finished' :
                              room'[t] + Pending("data", {t})' + streams'[t].recvUnacked
                                  + (IF increments'.stream = t THEN increments'.onStream ELSE 0)
                                = recvWindowSize
      BY DEF ReceiveWindowsReplenished
    <2>5. connRoom' + Pending("data", AllStreams)' + connRecvUnacked' + increments'.conn + forgone'
            = recvWindowSize
      BY <1>1, <1>2, <1>4 DEF ReceiveWindowsReplenished
    <2>6. ASSUME NEW t \in DOMAIN streams' \ finished'
          PROVE  room'[t] + Pending("data", {t})' + streams'[t].recvUnacked
                    + (IF increments'.stream = t THEN increments'.onStream ELSE 0) = recvWindowSize
      <3>1. CASE t = s BY <1>1, <1>4, <2>1, <2>2, <2>3, <2>4, <3>1
      <3>2. CASE t \in DOMAIN streams
        BY <1>1, <1>2, <1>4, <1>7, <3>2 DEF ReceiveWindowsReplenished
      <3> QED BY <1>7, <3>1, <3>2
    <2> QED BY <2>5, <2>6
  <1> QED BY <1>8, <1>9, <1>10, <1>11, <1>12, <1>13, <1>14 DEF IInv

\* What s may become in any other step, windows aside.
Fits(s, g) ==
    /\ g.pc = "none" <=> user[s].pc = "none"
    /\ g.pc \in {"read", "write", "data", "lock", "frame", "answer"} => g.op \in {"read", "write"}
    /\ g.chunk # 0 => g.pc \in {"data", "done"}
    /\ g.pc = "data" => g.chunk <= g.left
    /\ framerReadMu' \in Streams \cup {InitStream}
    /\ framerReadMu' = s <=> g.pc \in {"frame", "answer"}
    /\ \A t \in Streams \ {s} : framerReadMu' = t <=> framerReadMu = t

LEMMA FitsInv ==
    ASSUME IInv, NEW s \in Streams, NEW g \in Goroutines, Moves(s, g), Fits(s, g),
           UNCHANGED nextStreamId, DOMAIN streams' = DOMAIN streams
    PROVE  /\ framerReadMu' \in Streams \cup {InitStream} /\ user' \in [Streams -> Goroutines]
           /\ \A t \in Streams : framerReadMu' = t <=> user'[t].pc \in {"frame", "answer"}
           /\ connSendWindow' >= 0 => GoroutinesInv'
  <1>1. \A t \in Streams : framerReadMu = t <=> user[t].pc \in {"frame", "answer"}
    BY DEF IInv, TypeOK
  <1>2. GoroutinesInv BY DEF IInv
  <1>3. connSendWindow' >= 0 => GoroutinesInv'
    BY <1>2 DEF GoroutinesInv, Calling, Moves, Fits
  <1> QED BY <1>1, <1>3 DEF Moves, Fits

LEMMA ReservedSame ==
    ASSUME TypeOK, UNCHANGED nextStreamId, \A s \in Streams : user'[s].chunk = user[s].chunk
    PROVE  AllReserved' = AllReserved /\ \A t : Reserved(t)' = Reserved(t)
  BY AllReservedSame DEF Reserved

\* What every call finds: its stream in the table, its own state typed.
LEMMA CallerFacts ==
    ASSUME IInv, NEW s \in Streams, user[s].pc # "none"
    PROVE  /\ s \in DOMAIN streams /\ streams[s] \in StreamStates
           /\ user[s] \in Goroutines
           /\ Calling(s) => user[s].op \in {"read", "write"}
           /\ user[s].chunk # 0 => user[s].pc \in {"data", "done"}
           /\ framerReadMu = s <=> user[s].pc \in {"frame", "answer"}
           /\ framerReadMu \in Streams \cup {InitStream}
  BY DEF IInv, TypeOK, GoroutinesInv

\* Read takes buffered bytes, or goes to wait for more.
LEMMA ReadInv == ASSUME IInv, NEW s \in Streams, Read(s) PROVE IInv'
  <1>1. /\ UNCHANGED <<framerReadMu, windows, nextStreamId, increments, transport, wire, peer>>
        /\ user[s].pc = "read"
    BY DEF Read
  <1>2. /\ TypeOK /\ GoroutinesInv /\ PeerInv /\ IncrementsInv /\ UnopenedInv
        /\ SendWindowsHonest /\ ReceiveWindowsReplenished
    BY DEF IInv
  <1>3. /\ s \in DOMAIN streams /\ streams[s] \in StreamStates /\ user[s] \in Goroutines
        /\ user[s].op \in {"read", "write"} /\ user[s].chunk = 0 /\ framerReadMu # s
    BY <1>1, CallerFacts DEF Calling
  <1>4. CASE streams[s].buf < user[s].left
    <2>1. Goto(s, IF streams[s].reset THEN "done" ELSE "lock") /\ UNCHANGED streams
      BY <1>3, <1>4 DEF Read, StreamStates, Goroutines
    <2>2. UNCHANGED <<windows, table, increments, transport, wire, peer>>
      BY <1>1, <2>1 DEF table
    <2>3. \E g \in Goroutines : Moves(s, g) /\ Quiet(s, g)
      <3>1. framerReadMu \in Streams \cup {InitStream} BY <1>2 DEF TypeOK
      <3> QED BY <1>1, <1>2, <1>3, <2>1, <3>1, GotoMoves DEF Quiet, Places
    <2> QED BY <2>2, <2>3, QuietInv
  <1>5. CASE streams[s].buf >= user[s].left
    <2> USE DEF windows, peer
    <2>1. Goto(s, "idle") /\ streams' = [streams EXCEPT ![s].buf = @ - user[s].left]
      BY <1>5 DEF Read
    <2>2. PICK g \in Goroutines : Moves(s, g) /\ g.pc = "idle" /\ g.chunk = 0
      BY <1>2, <1>3, <2>1, GotoMoves DEF Places
    <2>3. /\ DOMAIN streams' = DOMAIN streams
          /\ \A t \in DOMAIN streams :
                /\ streams'[t] \in StreamStates
                /\ streams'[t].sendWindow = streams[t].sendWindow
                /\ streams'[t].recvUnacked = streams[t].recvUnacked
                /\ streams'[t].reset = streams[t].reset
      <3>1. \A t \in DOMAIN streams : streams[t] \in StreamStates BY <1>2 DEF TypeOK
      <3> QED BY <1>3, <1>5, <2>1, <3>1 DEF StreamStates, Goroutines
    <2>4. Fits(s, g)
      <3>1. framerReadMu \in Streams \cup {InitStream} BY <1>2 DEF TypeOK
      <3> QED BY <1>1, <1>3, <2>2, <3>1 DEF Fits
    <2>5. TypeOK' /\ GoroutinesInv'
      <3>1. connSendWindow' >= 0 BY <1>1, <1>2 DEF GoroutinesInv
      <3> QED BY <1>1, <1>2, <2>2, <2>3, <2>4, <3>1, FitsInv DEF TypeOK
    <2>6. \A type, of : Pending(type, of)' = Pending(type, of) BY <1>1, PendingSame
    <2>7. AllReserved' = AllReserved /\ \A t : Reserved(t)' = Reserved(t)
      BY <1>1, <1>2, <1>3, <2>2, ReservedSame DEF Moves
    <2>8. PeerInv' BY <1>1, <1>2, <2>3 DEF PeerInv, Proper
    <2>9. IncrementsInv' BY <1>1, <1>2, <2>2, <2>3 DEF IncrementsInv, Moves
    <2>10. UnopenedInv' BY <1>1, <1>2, <2>3, <2>6 DEF UnopenedInv
    <2>11. SendWindowsHonest' BY <1>1, <1>2, <2>3, <2>6, <2>7 DEF SendWindowsHonest
    <2>12. ReceiveWindowsReplenished' BY <1>1, <1>2, <2>3, <2>6 DEF ReceiveWindowsReplenished
    <2> QED BY <2>5, <2>8, <2>9, <2>10, <2>11, <2>12 DEF IInv
  <1>6. streams[s].buf \in Nat /\ user[s].left \in Nat BY <1>3 DEF StreamStates, Goroutines
  <1> QED BY <1>4, <1>5, <1>6
\* Reservable is the least of four numbers.
LEMMA LeastOfFour ==
    ASSUME NEW a \in Int, NEW b \in Int, NEW c \in Int, NEW d \in Int
    PROVE  /\ Min({a, b, c, d}) \in {a, b, c, d}
           /\ \A x \in {a, b, c, d} : Min({a, b, c, d}) <= x
  <1>1. \E x \in {a, b, c, d} : \A y \in {a, b, c, d} : x <= y
    <2>1. CASE a <= b /\ a <= c /\ a <= d BY <2>1
    <2>2. CASE b <= a /\ b <= c /\ b <= d BY <2>2
    <2>3. CASE c <= a /\ c <= b /\ c <= d BY <2>3
    <2>4. CASE d <= a /\ d <= b /\ d <= c BY <2>4
    <2> QED BY <2>1, <2>2, <2>3, <2>4
  <1> QED BY <1>1 DEF Min

\* Write reserves from the stream's and the connection's window what it will send.
LEMMA WriteInv == ASSUME IInv, NEW s \in Streams, Write(s) PROVE IInv'
  <1> DEFINE n == Reservable(s)
  <1>1. /\ UNCHANGED <<framerReadMu, nextStreamId, peerInitialWindow, connRecvUnacked, forgone,
                       increments, transport, wire, peer>>
        /\ user[s].pc = "write"
    BY DEF Write
  <1>2. /\ TypeOK /\ GoroutinesInv /\ PeerInv /\ IncrementsInv /\ UnopenedInv
        /\ SendWindowsHonest /\ ReceiveWindowsReplenished
    BY DEF IInv
  <1>3. /\ s \in DOMAIN streams /\ streams[s] \in StreamStates /\ user[s] \in Goroutines
        /\ user[s].op \in {"read", "write"} /\ user[s].chunk = 0 /\ framerReadMu # s
        /\ framerReadMu \in Streams \cup {InitStream}
    BY <1>1, CallerFacts DEF Calling
  <1>4. CASE streams[s].reset \/ n <= 0
    <2>1. /\ Goto(s, IF streams[s].reset THEN "done" ELSE "lock")
          /\ UNCHANGED <<streams, connSendWindow>>
      BY <1>4 DEF Write
    <2>2. UNCHANGED <<windows, table, increments, transport, wire, peer>>
      BY <1>1, <2>1 DEF windows, table
    <2>3. \E g \in Goroutines : Moves(s, g) /\ Quiet(s, g)
      BY <1>1, <1>2, <1>3, <2>1, GotoMoves DEF Quiet, Places
    <2> QED BY <2>2, <2>3, QuietInv
  <1>5. CASE ~(streams[s].reset \/ n <= 0)
    <2> USE DEF peer
    <2>1. /\ user' = [user EXCEPT ![s].pc = "data", ![s].chunk = n]
          /\ streams' = [streams EXCEPT ![s].sendWindow = @ - n]
          /\ connSendWindow' = connSendWindow - n
      BY <1>5 DEF Write
    <2>2. n \in Int /\ n > 0 /\ n <= user[s].left /\ n <= connSendWindow
      <3>1. user[s].left \in Int /\ streams[s].sendWindow \in Int
        BY <1>3 DEF Goroutines, StreamStates
      <3>2. connSendWindow \in Int /\ maxFrameSize \in Int
        BY <1>2, ConstantsAreNumbers DEF TypeOK
      <3>3. n \in Int /\ n <= user[s].left /\ n <= connSendWindow
        <4> DEFINE a == user[s].left
                   c == streams[s].sendWindow
        <4>1. n = Min({a, maxFrameSize, c, connSendWindow}) BY DEF Reservable
        <4> HIDE DEF a, c, n
        <4>2. a \in Int /\ c \in Int BY <3>1 DEF a, c
        <4>3. n \in {a, maxFrameSize, c, connSendWindow} /\ n <= a /\ n <= connSendWindow
          BY <3>2, <4>1, <4>2, LeastOfFour
        <4> QED BY <3>2, <4>2, <4>3 DEF a
      <3> QED BY <1>5, <3>3
    <2> HIDE DEF n
    <2> DEFINE g == [user[s] EXCEPT !.pc = "data", !.chunk = n]
    <2>3. g \in Goroutines /\ g.pc = "data" /\ g.chunk = n /\ n <= g.left
          /\ g.op = user[s].op
      <3>1. n \in Nat BY <2>2
      <3> QED BY <1>3, <2>2, <3>1 DEF Goroutines, Places
    <2>4. user' = [user EXCEPT ![s] = g] BY <1>2, <2>1 DEF TypeOK
    <2> HIDE DEF g
    <2>5. Moves(s, g) BY <1>2, <2>3, <2>4, UserMoves
    <2>6. Fits(s, g) BY <1>1, <1>3, <2>3 DEF Fits
    <2>7. /\ DOMAIN streams' = DOMAIN streams
          /\ \A t \in DOMAIN streams :
                /\ streams'[t] \in StreamStates
                /\ streams'[t].sendWindow = streams[t].sendWindow - IF t = s THEN n ELSE 0
                /\ streams'[t].recvUnacked = streams[t].recvUnacked
                /\ streams'[t].reset = streams[t].reset
      <3>1. \A t \in DOMAIN streams : streams[t] \in StreamStates BY <1>2 DEF TypeOK
      <3> QED BY <1>3, <2>1, <2>2, <3>1 DEF StreamStates
    <2>8. TypeOK' /\ GoroutinesInv'
      <3>1. connSendWindow' >= 0 /\ connSendWindow' \in Int BY SMTT(30), <1>2, <2>1, <2>2 DEF TypeOK
      <3> QED BY <1>1, <1>2, <2>3, <2>5, <2>6, <2>7, <3>1, FitsInv DEF TypeOK
    <2>9. \A type, of : Pending(type, of)' = Pending(type, of) BY <1>1, PendingSame
    <2>10. /\ user'[s].chunk = user[s].chunk + n
           /\ \A t \in Streams \ {s} : user'[t].chunk = user[t].chunk
      BY <1>3, <2>2, <2>3, <2>5 DEF Moves
    <2>11. AllReserved' = AllReserved + n
      BY <1>1, <1>2, <1>3, <2>2, <2>10, AllReservedChange
    <2>12. PeerInv' BY <1>1, <1>2, <2>7 DEF PeerInv, Proper
    <2>13. IncrementsInv' BY <1>1, <1>2, <2>3, <2>5, <2>7 DEF IncrementsInv, Moves
    <2>14. UnopenedInv' BY <1>1, <1>2, <2>7, <2>9 DEF UnopenedInv
    <2>15. SendWindowsHonest'
      <3>1. connSendWindow' + AllReserved' + Pending("update", {InitStream})' = connCredit'
        <4>1. connSendWindow \in Int /\ AllReserved \in Nat /\ Pending("update", {InitStream}) \in Nat
          BY <1>2, AllReservedNat, PendingNat DEF TypeOK
        <4> QED BY <1>1, <1>2, <2>1, <2>2, <2>9, <2>11, <4>1 DEF SendWindowsHonest
      <3>2. ASSUME NEW t \in DOMAIN streams
            PROVE  streams'[t].sendWindow + Reserved(t)' + Pending("update", {t})'
                      + announced' - peerInitialWindow' = credit'[t]
        <4>1. t \in Streams /\ streams[t].sendWindow \in Int
          BY <1>2 DEF TypeOK, StreamStates
        <4>2. Reserved(t)' = Reserved(t) + IF t = s THEN n ELSE 0
          <5>1. user[t] \in Goroutines /\ user[t].chunk \in Nat BY <1>2, <4>1 DEF TypeOK, Goroutines
          <5>2. user'[t].chunk = user[t].chunk + IF t = s THEN n ELSE 0
            BY <2>2, <2>10, <4>1, <5>1
          <5> QED BY <4>1, <5>2 DEF Reserved
        <4>3. Reserved(t) \in Nat /\ Pending("update", {t}) \in Nat
          BY <1>2, ReservedNat, PendingNat
        <4>4. announced \in Nat /\ peerInitialWindow \in Nat BY <1>2 DEF TypeOK
        <4>5. streams'[t].sendWindow + Reserved(t)' = streams[t].sendWindow + Reserved(t)
          BY <2>2, <2>7, <4>1, <4>2, <4>3
        <4>6. streams[t].sendWindow + Reserved(t) + Pending("update", {t})
                + announced - peerInitialWindow = credit[t]
          BY <1>2 DEF SendWindowsHonest
        <4> QED BY <1>1, <2>9, <4>5, <4>6
      <3> QED BY <2>7, <3>1, <3>2 DEF SendWindowsHonest
    <2>16. ReceiveWindowsReplenished' BY <1>1, <1>2, <2>7, <2>9 DEF ReceiveWindowsReplenished
    <2> QED BY <2>8, <2>12, <2>13, <2>14, <2>15, <2>16 DEF IInv
  <1> QED BY <1>4, <1>5

\* What is sent counts on the peer's side, and is no longer reserved.
LEMMA WriteDataInv == ASSUME IInv, NEW s \in Streams, WriteData(s) PROVE IInv'
  <1> DEFINE n == user[s].chunk
             k == user[s].left - n
  <1> USE DEF windows, table
  <1>1. /\ UNCHANGED <<framerReadMu, windows, table, increments, transport, wire, announced, room,
                       connRoom, finished, frames>>
        /\ user[s].pc = "data"
        /\ credit' = [credit EXCEPT ![s] = @ - n] /\ connCredit' = connCredit - n
        /\ user' = [user EXCEPT ![s].pc = IF user[s].left = n THEN "idle" ELSE "write",
                                ![s].left = k, ![s].chunk = 0]
    BY DEF WriteData
  <1>2. /\ TypeOK /\ GoroutinesInv /\ PeerInv /\ IncrementsInv /\ UnopenedInv
        /\ SendWindowsHonest /\ ReceiveWindowsReplenished
    BY DEF IInv
  <1>3. /\ s \in DOMAIN streams /\ user[s] \in Goroutines
        /\ user[s].op \in {"read", "write"} /\ framerReadMu # s
        /\ framerReadMu \in Streams \cup {InitStream}
    BY <1>1, CallerFacts DEF Calling
  <1>4. n \in Nat /\ k \in Nat
    <2>1. n <= user[s].left BY <1>1, <1>2 DEF GoroutinesInv
    <2>2. n \in Nat /\ user[s].left \in Nat BY <1>3 DEF Goroutines
    <2> QED BY <2>1, <2>2
  <1> DEFINE g == [user[s] EXCEPT !.pc = IF user[s].left = n THEN "idle" ELSE "write",
                                  !.left = k, !.chunk = 0]
  <1>5. g \in Goroutines /\ g.pc \in {"idle", "write"} /\ g.chunk = 0 /\ g.op = user[s].op
    <2> HIDE DEF k, n
    <2> QED BY <1>3, <1>4 DEF Goroutines, Places
  <1>6. user' = [user EXCEPT ![s] = g] BY <1>1, <1>2 DEF TypeOK
  <1> HIDE DEF g, k
  <1>7. Moves(s, g) BY <1>2, <1>5, <1>6, UserMoves
  <1>8. Fits(s, g) BY <1>1, <1>3, <1>5 DEF Fits
  <1>9. /\ credit' \in [Streams -> Int] /\ connCredit' \in Int
        /\ \A t \in Streams : credit'[t] = credit[t] - IF t = s THEN n ELSE 0
    <2>1. credit \in [Streams -> Int] /\ connCredit \in Int BY <1>2 DEF TypeOK
    <2> HIDE DEF n
    <2> QED BY <1>1, <1>4, <2>1
  <1>10. TypeOK' /\ GoroutinesInv'
    <2>1. connSendWindow' >= 0 BY <1>1, <1>2 DEF GoroutinesInv
    <2> QED BY <1>1, <1>2, <1>5, <1>7, <1>8, <1>9, <2>1, FitsInv DEF TypeOK
  <1>11. \A type, of : Pending(type, of)' = Pending(type, of) BY <1>1, PendingSame
  <1>12. /\ user'[s].chunk = user[s].chunk + (0 - n)
         /\ \A t \in Streams \ {s} : user'[t].chunk = user[t].chunk
    BY <1>4, <1>5, <1>7 DEF Moves
  <1>13. AllReserved' = AllReserved + (0 - n)
    <2>1. 0 - n \in Int BY <1>4
    <2> QED BY <1>1, <1>2, <1>3, <1>12, <2>1, AllReservedChange
  <1>14. PeerInv' BY <1>1, <1>2 DEF PeerInv, Proper
  <1>15. IncrementsInv' BY <1>1, <1>2, <1>5, <1>7 DEF IncrementsInv, Moves
  <1>16. UnopenedInv'
    <2>1. \A t \in Streams \ DOMAIN streams : credit'[t] = credit[t]
      BY SMTT(30), <1>2, <1>3, <1>9 DEF TypeOK
    <2> QED BY <1>1, <1>2, <1>11, <2>1 DEF UnopenedInv
  <1>17. SendWindowsHonest'
    <2>1. connSendWindow' + AllReserved' + Pending("update", {InitStream})' = connCredit'
      <3>1. /\ connSendWindow \in Int /\ AllReserved \in Nat /\ connCredit \in Int
            /\ Pending("update", {InitStream}) \in Nat
        BY <1>2, AllReservedNat, PendingNat DEF TypeOK
      <3> QED BY <1>1, <1>2, <1>4, <1>11, <1>13, <3>1 DEF SendWindowsHonest
    <2>2. ASSUME NEW t \in DOMAIN streams
          PROVE  streams'[t].sendWindow + Reserved(t)' + Pending("update", {t})'
                    + announced' - peerInitialWindow' = credit'[t]
      <3>1. t \in Streams /\ streams[t].sendWindow \in Int /\ credit[t] \in Int
        BY <1>2 DEF TypeOK, StreamStates
      <3>2. Reserved(t)' = Reserved(t) - IF t = s THEN n ELSE 0
        <4>1. user[t] \in Goroutines /\ user[t].chunk \in Nat BY <1>2, <3>1 DEF TypeOK, Goroutines
        <4>2. user'[t].chunk = user[t].chunk - IF t = s THEN n ELSE 0
          BY <1>4, <1>12, <3>1, <4>1
        <4> QED BY <3>1, <4>2 DEF Reserved
      <3>3. Reserved(t) \in Nat /\ Pending("update", {t}) \in Nat
        BY <1>2, ReservedNat, PendingNat
      <3>4. announced \in Nat /\ peerInitialWindow \in Nat BY <1>2 DEF TypeOK
      <3>5. streams[t].sendWindow + Reserved(t) + Pending("update", {t})
              + announced - peerInitialWindow = credit[t]
        BY <1>2 DEF SendWindowsHonest
      <3>6. credit'[t] = credit[t] - IF t = s THEN n ELSE 0 BY <1>9, <3>1
      <3> QED BY <1>1, <1>4, <1>11, <3>1, <3>2, <3>3, <3>4, <3>5, <3>6
    <2> QED BY <1>1, <2>1, <2>2 DEF SendWindowsHonest
  <1>18. ReceiveWindowsReplenished' BY <1>1, <1>2, <1>11 DEF ReceiveWindowsReplenished
  <1> QED BY <1>10, <1>14, <1>15, <1>16, <1>17, <1>18 DEF IInv
\* The frame in hand is one of the peer's; nobody else is about to answer one.
LEMMA FrameInHand ==
    ASSUME IInv, NEW s \in Streams, user[s].pc = "frame", wire # << >>, wire' = Tail(wire)
    PROVE  /\ Head(wire) \in Frames /\ Proper(Head(wire)) /\ wire' \in Seq(Frames)
           /\ \A i \in 1..Len(wire') : Proper(wire'[i])
           /\ increments.conn = 0 /\ increments.onStream = 0
  <1>1. wire \in Seq(Frames) BY DEF IInv, TypeOK
  <1>2. \A i \in 1..Len(wire) : Proper(wire[i]) BY DEF IInv, PeerInv
  <1>3. Head(wire) \in Frames /\ wire' \in Seq(Frames) /\ Head(wire) = wire[1] BY <1>1
  <1>4. 1 \in 1..Len(wire) /\ Len(wire') = Len(wire) - 1 BY <1>1
  <1>5. \A i \in 1..Len(wire') : i + 1 \in 1..Len(wire) /\ wire'[i] = wire[i + 1]
    BY <1>1, <1>4
  <1>6. Proper(Head(wire)) BY <1>2, <1>3, <1>4
  <1>7. \A i \in 1..Len(wire') : Proper(wire'[i]) BY <1>2, <1>5
  <1>8. increments.conn = 0 /\ increments.onStream = 0
    <2>1. \A t \in Streams : user[t].pc # "answer" BY ZeroIsNoStream DEF IInv, TypeOK
    <2>2. increments.conn \in Nat /\ increments.onStream \in Nat BY DEF IInv, TypeOK
    <2> QED BY <2>1, <2>2 DEF IInv, IncrementsInv
  <1> QED BY <1>3, <1>6, <1>7, <1>8

\* The reader of a frame answers it or lets the next one in.
LEMMA ReaderMoves ==
    ASSUME IInv, NEW s \in Streams, ReadFrame(s), DOMAIN streams' = DOMAIN streams,
           connSendWindow' >= 0
    PROVE  /\ framerReadMu' \in Streams \cup {InitStream} /\ user' \in [Streams -> Goroutines]
           /\ \A t \in Streams : framerReadMu' = t <=> user'[t].pc \in {"frame", "answer"}
           /\ GoroutinesInv'
           /\ NeedsAnswer(Head(wire)) => \E t \in Streams : user'[t].pc = "answer"
           /\ AllReserved' = AllReserved /\ \A t : Reserved(t)' = Reserved(t)
  <1>1. user[s].pc = "frame" /\ UNCHANGED nextStreamId BY DEF ReadFrame
  <1>2. /\ s \in DOMAIN streams /\ user[s] \in Goroutines
        /\ user[s].op \in {"read", "write"} /\ user[s].chunk = 0 /\ framerReadMu = s
    BY <1>1, CallerFacts DEF Calling
  <1>3. TypeOK BY DEF IInv
  <1>4. \/ NeedsAnswer(Head(wire)) /\ Goto(s, "answer") /\ UNCHANGED framerReadMu
        \/ ~NeedsAnswer(Head(wire)) /\ Goto(s, user[s].op) /\ framerReadMu' = InitStream
    BY DEF ReadFrame, UnlockReadSide
  <1>5. PICK g \in Goroutines :
          /\ Moves(s, g) /\ g.chunk = 0 /\ g.op = user[s].op
          /\ \/ NeedsAnswer(Head(wire)) /\ g.pc = "answer" /\ UNCHANGED framerReadMu
             \/ /\ ~NeedsAnswer(Head(wire)) /\ g.pc = user[s].op
                /\ framerReadMu' = InitStream
    <2>1. CASE NeedsAnswer(Head(wire)) BY <1>2, <1>3, <1>4, <2>1, GotoMoves DEF Places
    <2>2. CASE ~NeedsAnswer(Head(wire))
      <3>1. user[s].op \in Places BY <1>2 DEF Places
      <3> QED BY <1>2, <1>3, <1>4, <2>2, <3>1, GotoMoves
    <2> QED BY <2>1, <2>2
  <1>6. Fits(s, g) BY <1>1, <1>2, <1>5, ZeroIsNoStream DEF Fits
  <1>7. \A t \in Streams : user'[t].chunk = user[t].chunk BY <1>2, <1>5 DEF Moves
  <1>8. NeedsAnswer(Head(wire)) => user'[s].pc = "answer" BY <1>5 DEF Moves
  <1> QED BY <1>1, <1>3, <1>5, <1>6, <1>7, <1>8, FitsInv, ReservedSame

\* GrantedBack splits what is not acknowledged yet.
LEMMA GrantedBackSplits ==
    ASSUME NEW n \in Nat
    PROVE  /\ GrantedBack(n) \in Nat
           /\ n - GrantedBack(n) \in 0..(windowUpdateThreshold - 1)
  BY HttpAssumption DEF GrantedBack

\* DATA: the connection and the stream count it, or grant it back.
LEMMA DataInv ==
    ASSUME IInv, NEW s \in Streams, ReadFrame(s), Data(Head(wire)) PROVE IInv'
  <1> DEFINE f == Head(wire)
             q == f.stream
             si == StreamIncrement(f)
             cb == connRecvUnacked + f.length
             ua == IF streams[q].reset \/ f.end THEN streams[q].recvUnacked
                   ELSE streams[q].recvUnacked + f.length
  <1> USE DEF peer
  <1>1. /\ user[s].pc = "frame" /\ wire # << >> /\ wire' = Tail(wire)
        /\ UNCHANGED <<nextStreamId, transport, peer, peerInitialWindow, connSendWindow, forgone>>
        /\ f.type = "data" /\ q \in DOMAIN streams
        /\ streams' = [streams EXCEPT ![q].buf = @ + f.length - f.padding,
                                      ![q].recvUnacked = ua - si]
        /\ connRecvUnacked' = cb - GrantedBack(cb)
        /\ increments' = [stream |-> q, conn |-> GrantedBack(cb), onStream |-> si]
    BY DEF ReadFrame, Data, ConnectionBytes
  <1>2. /\ TypeOK /\ GoroutinesInv /\ PeerInv /\ IncrementsInv /\ UnopenedInv
        /\ SendWindowsHonest /\ ReceiveWindowsReplenished
    BY DEF IInv
  <1>3. /\ f \in Frames /\ Proper(f) /\ wire' \in Seq(Frames)
        /\ \A i \in 1..Len(wire') : Proper(wire'[i])
        /\ increments.conn = 0 /\ increments.onStream = 0
    BY <1>1, FrameInHand
  <1>4. /\ q \in DOMAIN streams /\ q \in Streams /\ streams[q] \in StreamStates
        /\ f.padding <= f.length
        /\ f.end => q \in finished
        /\ f.length \in Nat /\ f.padding \in Nat
    <2>1. q \in Streams /\ streams[q] \in StreamStates BY <1>1, <1>2 DEF TypeOK
    <2>2. f.length \in Nat /\ f.padding \in Nat BY <1>3 DEF Frames
    <2>3. q \notin OtherStreams BY <2>1, OthersApart
    <2> QED BY <1>1, <1>3, <2>1, <2>2, <2>3 DEF Proper
  <1>5. /\ ua \in Nat /\ si \in Nat /\ ua - si \in 0..(windowUpdateThreshold - 1)
        /\ q \notin finished => ua = streams[q].recvUnacked + f.length
    <2>1. streams[q].recvUnacked \in Nat
          /\ streams[q].recvUnacked \in 0..(windowUpdateThreshold - 1)
      BY <1>4 DEF StreamStates
    <2>2. CASE streams[q].reset \/ f.end
      <3>1. q \in finished
        <4>1. streams[q].reset => q \in finished BY <1>2, <1>4 DEF PeerInv
        <4> QED BY <1>4, <2>2, <4>1
      <3>2. si = 0 /\ ua = streams[q].recvUnacked BY <2>2 DEF StreamIncrement
      <3> QED BY <2>1, <3>1, <3>2
    <2>3. CASE ~(streams[q].reset \/ f.end)
      <3>1. si = GrantedBack(ua) /\ ua = streams[q].recvUnacked + f.length
        BY <2>3 DEF StreamIncrement
      <3>2. ua \in Nat BY <1>4, <2>1, <3>1
      <3> HIDE DEF ua, si
      <3>3. si \in Nat /\ ua - si \in 0..(windowUpdateThreshold - 1)
        BY <3>1, <3>2, GrantedBackSplits
      <3> QED BY <3>1, <3>2, <3>3
    <2> QED BY <2>2, <2>3
  <1>6. cb \in Nat /\ GrantedBack(cb) \in Nat /\ connRecvUnacked' \in 0..(windowUpdateThreshold - 1)
    <2>1. connRecvUnacked \in Nat BY <1>2 DEF TypeOK
    <2>2. cb \in Nat BY <1>4, <2>1
    <2> HIDE DEF cb
    <2> QED BY <1>1, <2>2, GrantedBackSplits
  <1> HIDE DEF si, ua
  <1>7. /\ DOMAIN streams' = DOMAIN streams
        /\ \A t \in DOMAIN streams :
              /\ streams'[t] \in StreamStates
              /\ streams'[t].sendWindow = streams[t].sendWindow
              /\ streams'[t].recvUnacked = IF t = q THEN ua - si ELSE streams[t].recvUnacked
              /\ streams'[t].reset = streams[t].reset
    <2>1. \A t \in DOMAIN streams : streams[t] \in StreamStates BY <1>2 DEF TypeOK
    <2>2. streams[q].buf + f.length - f.padding \in Nat BY <1>4 DEF StreamStates
    <2>3. /\ q \in DOMAIN streams
          /\ streams' = [streams EXCEPT ![q].buf = @ + f.length - f.padding,
                                        ![q].recvUnacked = ua - si]
      BY <1>1, <1>4
    <2>4. ua - si \in 0..(windowUpdateThreshold - 1) BY <1>5
    <2> DEFINE b == streams[q].buf + f.length - f.padding
               r == ua - si
    <2>5. /\ streams' = [streams EXCEPT ![q] = [streams[q] EXCEPT !.buf = b, !.recvUnacked = r]]
          /\ b \in Nat
      BY <2>2, <2>3
    <2> HIDE DEF f, b, r, q
    <2>6. r \in 0..(windowUpdateThreshold - 1) BY <2>4 DEF r
    <2>7. /\ streams'[q] = [streams[q] EXCEPT !.buf = b, !.recvUnacked = r]
          /\ streams[q] \in StreamStates
      BY <2>1, <2>3, <2>5
    <2>8. /\ streams'[q] \in StreamStates /\ streams'[q].sendWindow = streams[q].sendWindow
          /\ streams'[q].recvUnacked = r /\ streams'[q].reset = streams[q].reset
      BY ZenonT(30), <2>5, <2>6, <2>7 DEF StreamStates
    <2>9. \A t \in DOMAIN streams \ {q} : streams'[t] = streams[t] BY <2>5
    <2>10. DOMAIN streams' = DOMAIN streams BY <2>5
    <2> QED BY <2>1, <2>8, <2>9, <2>10 DEF r
  <1>8. /\ framerReadMu' \in Streams \cup {InitStream} /\ user' \in [Streams -> Goroutines]
        /\ \A t \in Streams : framerReadMu' = t <=> user'[t].pc \in {"frame", "answer"}
        /\ GoroutinesInv'
        /\ NeedsAnswer(f) => \E t \in Streams : user'[t].pc = "answer"
        /\ AllReserved' = AllReserved /\ \A t : Reserved(t)' = Reserved(t)
    <2>1. connSendWindow' >= 0 BY SMTT(30), <1>1, <1>2 DEF GoroutinesInv
    <2> QED BY <1>7, <2>1, ReaderMoves
  <1>9. TypeOK'
    <2>1. increments' \in [stream : Streams \cup {InitStream}, conn : Nat, onStream : Nat]
      <3> HIDE DEF f, cb
      <3> QED BY <1>1, <1>4, <1>5, <1>6
    <2> QED BY <1>1, <1>2, <1>3, <1>6, <1>7, <1>8, <2>1 DEF TypeOK
  <1>10. PeerInv'
    <2>1. \A x : Proper(x) => Proper(x)' BY <1>1, <1>7 DEF Proper
    <2> QED BY <1>1, <1>2, <1>3, <1>7, <2>1 DEF PeerInv
  <1>11. IncrementsInv'
    <2>1. NeedsAnswer(f) <=> increments'.conn + increments'.onStream > 0
      BY <1>1 DEF NeedsAnswer
    <2>2. increments'.stream \in DOMAIN streams' BY <1>1, <1>4, <1>7
    <2> QED BY <1>8, <2>1, <2>2 DEF IncrementsInv
  <1>12. \A of : Pending("update", of)' = Pending("update", of)
    <2> TAKE of
    <2>1. Bytes(f, "update", of) = 0 BY <1>1 DEF Bytes
    <2>2. Pending("update", of) = Bytes(f, "update", of) + Pending("update", of)'
          /\ Pending("update", of)' \in Nat
      BY <1>1, <1>2, PendingRead
    <2> QED BY <2>1, <2>2
  <1>13. \A of : /\ Pending("data", of) = Pending("data", of)' + IF q \in of THEN f.length ELSE 0
                 /\ Pending("data", of)' \in Nat
    <2> TAKE of
    <2>1. Bytes(f, "data", of) = IF q \in of THEN f.length ELSE 0 BY <1>1 DEF Bytes
    <2>2. /\ Pending("data", of) = Bytes(f, "data", of) + Pending("data", of)'
          /\ Pending("data", of)' \in Nat /\ Bytes(f, "data", of) \in Nat
      BY <1>1, <1>2, PendingRead
    <2> HIDE DEF f
    <2> QED BY <1>4, <2>1, <2>2
  <1> HIDE DEF f
  <1>14. UnopenedInv'
    <2>1. \A t \in Streams \ DOMAIN streams : Pending("data", {t})' = Pending("data", {t})
      BY <1>4, <1>13
    <2>2. DOMAIN streams' = DOMAIN streams BY <1>7
    <2>3. credit' = credit /\ announced' = announced /\ room' = room BY <1>1
    <2> QED BY <1>2, <1>12, <2>1, <2>2, <2>3 DEF UnopenedInv
  <1>15. SendWindowsHonest' BY <1>1, <1>2, <1>7, <1>8, <1>12 DEF SendWindowsHonest
  <1>16. ReceiveWindowsReplenished'
    <2> SUFFICES ASSUME transport = "up"
                 PROVE  /\ connRoom' + Pending("data", AllStreams)' + connRecvUnacked'
                              + increments'.conn + forgone' = recvWindowSize
                        /\ \A t \in DOMAIN streams' \ finished' :
                              room'[t] + Pending("data", {t})' + streams'[t].recvUnacked
                                  + (IF increments'.stream = t THEN increments'.onStream ELSE 0)
                                = recvWindowSize
      BY <1>1 DEF ReceiveWindowsReplenished
    <2>1. connRoom' + Pending("data", AllStreams)' + connRecvUnacked' + increments'.conn + forgone'
            = recvWindowSize
      <3>1. connRoom + Pending("data", AllStreams) + connRecvUnacked + increments.conn + forgone
              = recvWindowSize
        BY <1>2 DEF ReceiveWindowsReplenished
      <3>2. Pending("data", AllStreams) = Pending("data", AllStreams)' + f.length
            /\ Pending("data", AllStreams)' \in Nat
        BY <1>4, <1>13 DEF AllStreams
      <3>3. connRecvUnacked' + increments'.conn = connRecvUnacked + f.length BY <1>1, <1>6
      <3>4. connRoom \in Nat /\ connRecvUnacked \in Nat /\ forgone \in Nat BY <1>2 DEF TypeOK
      <3>5. connRecvUnacked' \in Nat /\ increments'.conn \in Nat BY <1>1, <1>6
      <3> QED BY SMTT(30), <1>1, <1>3, <1>4, <3>1, <3>2, <3>3, <3>4, <3>5
    <2>2. ASSUME NEW t \in DOMAIN streams \ finished
          PROVE  room'[t] + Pending("data", {t})' + streams'[t].recvUnacked
                    + (IF increments'.stream = t THEN increments'.onStream ELSE 0) = recvWindowSize
      <3>1. room[t] + Pending("data", {t}) + streams[t].recvUnacked = recvWindowSize
        <4>1. /\ room[t] + Pending("data", {t}) + streams[t].recvUnacked
                    + (IF increments.stream = t THEN increments.onStream ELSE 0) = recvWindowSize
          BY <1>2 DEF ReceiveWindowsReplenished
        <4>2. t \in Streams BY <1>2 DEF TypeOK
        <4>3. room[t] \in Nat /\ streams[t].recvUnacked \in Nat
          BY <1>2, <4>2 DEF TypeOK, StreamStates
        <4>4. Pending("data", {t}) \in Nat BY <1>2, PendingNat
        <4> QED BY <1>3, <4>1, <4>3, <4>4
      <3>2. t \in Streams /\ room[t] \in Nat /\ streams[t].recvUnacked \in Nat
        BY <1>2 DEF TypeOK, StreamStates
      <3>3. CASE t = q
        <4>1. Pending("data", {t}) = Pending("data", {t})' + f.length
              /\ Pending("data", {t})' \in Nat
          BY <1>13, <3>3
        <4>2. streams'[t].recvUnacked = ua - si /\ ua = streams[t].recvUnacked + f.length
          BY <1>5, <1>7, <3>3
        <4>3. increments'.stream = t /\ increments'.onStream = si BY <1>1, <3>3
        <4>4. room'[t] = room[t] /\ f.length \in Nat /\ ua \in Nat /\ si \in Nat
          BY <1>1, <1>4, <1>5
        <4> HIDE DEF q
        <4> QED BY <3>1, <3>2, <4>1, <4>2, <4>3, <4>4
      <3>4. CASE t # q
        <4>1. Pending("data", {t}) = Pending("data", {t})' /\ Pending("data", {t})' \in Nat
          BY <1>13, <3>4
        <4>2. streams'[t].recvUnacked = streams[t].recvUnacked BY <1>7, <3>4
        <4>3. increments'.stream # t BY <1>1, <3>4
        <4> QED BY <1>1, <3>1, <3>2, <4>1, <4>2, <4>3
      <3> QED BY <3>3, <3>4
    <2> QED BY <1>1, <1>7, <2>1, <2>2
  <1> QED BY <1>8, <1>9, <1>10, <1>11, <1>14, <1>15, <1>16 DEF IInv
\* What a frame of one kind leaves of the bytes of the others.
LEMMA PendingOther ==
    ASSUME TypeOK, wire # << >>, wire' = Tail(wire), NEW type, Head(wire).type # type, NEW of
    PROVE  Pending(type, of)' = Pending(type, of)
  <1>1. Bytes(Head(wire), type, of) = 0 BY DEF Bytes
  <1>2. /\ Pending(type, of) = Bytes(Head(wire), type, of) + Pending(type, of)'
        /\ Pending(type, of)' \in Nat
    BY PendingRead
  <1> QED BY <1>1, <1>2

\* The other frames: what is left to show is what they do to the send windows.
LEMMA ControlFrameInv ==
    ASSUME IInv, NEW s \in Streams, ReadFrame(s), Head(wire).type # "data",
           UNCHANGED <<connRecvUnacked, forgone, increments>>,
           peerInitialWindow' \in Nat, connSendWindow' \in Int, connSendWindow' >= 0,
           DOMAIN streams' = DOMAIN streams,
           \A t \in DOMAIN streams :
               /\ streams'[t] \in StreamStates
               /\ streams'[t].recvUnacked = streams[t].recvUnacked
               /\ streams'[t].reset => t \in finished,
           \A t \in Streams \ DOMAIN streams :
               Pending("update", {t})' = Pending("update", {t}),
           AllReserved' = AllReserved /\ (\A t : Reserved(t)' = Reserved(t))
               => SendWindowsHonest'
    PROVE  IInv'
  <1> USE DEF peer
  <1>1. /\ user[s].pc = "frame" /\ wire # << >> /\ wire' = Tail(wire)
        /\ UNCHANGED <<nextStreamId, transport, peer>>
    BY DEF ReadFrame
  <1>2. /\ TypeOK /\ GoroutinesInv /\ PeerInv /\ IncrementsInv /\ UnopenedInv
        /\ SendWindowsHonest /\ ReceiveWindowsReplenished
    BY DEF IInv
  <1>3. /\ wire' \in Seq(Frames) /\ \A i \in 1..Len(wire') : Proper(wire'[i])
        /\ increments.conn = 0 /\ increments.onStream = 0
    BY <1>1, FrameInHand
  <1>4. /\ framerReadMu' \in Streams \cup {InitStream} /\ user' \in [Streams -> Goroutines]
        /\ \A t \in Streams : framerReadMu' = t <=> user'[t].pc \in {"frame", "answer"}
        /\ GoroutinesInv'
        /\ AllReserved' = AllReserved /\ \A t : Reserved(t)' = Reserved(t)
    BY ReaderMoves
  <1>5. \A of : Pending("data", of)' = Pending("data", of) BY <1>1, <1>2, PendingOther
  <1>6. TypeOK' BY <1>1, <1>2, <1>3, <1>4 DEF TypeOK
  <1>7. PeerInv'
    <2>1. \A x : Proper(x) => Proper(x)' BY <1>1 DEF Proper
    <2> QED BY <1>1, <1>2, <1>3, <2>1 DEF PeerInv
  <1>8. IncrementsInv' BY <1>2, <1>3 DEF IncrementsInv
  <1>9. UnopenedInv' BY <1>1, <1>2, <1>5 DEF UnopenedInv
  <1>10. SendWindowsHonest' BY <1>4
  <1>11. ReceiveWindowsReplenished' BY <1>1, <1>2, <1>5 DEF ReceiveWindowsReplenished
  <1> QED BY <1>4, <1>6, <1>7, <1>8, <1>9, <1>10, <1>11 DEF IInv

\* SETTINGS: every open stream's window moves with the initial window.
LEMMA SettingsInv ==
    ASSUME IInv, NEW s \in Streams, ReadFrame(s), Settings(Head(wire)) PROVE IInv'
  <1> DEFINE v == Head(wire).length
  <1>1. /\ user[s].pc = "frame" /\ wire # << >> /\ wire' = Tail(wire)
        /\ Head(wire).type = "settings"
        /\ UNCHANGED <<peer, connSendWindow, connRecvUnacked, forgone, increments>>
        /\ peerInitialWindow' = v
        /\ streams' = [t \in DOMAIN streams |->
                         [streams[t] EXCEPT !.sendWindow = @ + v - peerInitialWindow]]
    BY DEF ReadFrame, Settings, WithInitialWindow
  <1>2. TypeOK /\ GoroutinesInv /\ PeerInv /\ SendWindowsHonest BY DEF IInv
  <1>3. v \in Nat BY <1>1, FrameInHand DEF Frames
  <1> HIDE DEF v
  <1>4. peerInitialWindow \in Nat /\ connSendWindow \in Int /\ connSendWindow >= 0
        /\ \A t \in DOMAIN streams : streams[t] \in StreamStates
    BY <1>2 DEF TypeOK, GoroutinesInv
  <1>5. /\ DOMAIN streams' = DOMAIN streams
        /\ \A t \in DOMAIN streams :
              /\ streams'[t] \in StreamStates
              /\ streams'[t].sendWindow = streams[t].sendWindow + v - peerInitialWindow
              /\ streams'[t].recvUnacked = streams[t].recvUnacked
              /\ streams'[t].reset = streams[t].reset
    BY SMTT(30), <1>1, <1>3, <1>4 DEF StreamStates
  <1>6. \A of : Pending("update", of)' = Pending("update", of) BY <1>1, <1>2, PendingOther
  <1>7. ASSUME AllReserved' = AllReserved, \A t : Reserved(t)' = Reserved(t)
        PROVE  SendWindowsHonest'
    <2>1. announced' = announced /\ credit' = credit /\ connCredit' = connCredit
      BY <1>1 DEF peer
    <2>2. connSendWindow' + AllReserved' + Pending("update", {InitStream})' = connCredit'
      BY <1>1, <1>2, <1>6, <1>7, <2>1 DEF SendWindowsHonest
    <2>3. ASSUME NEW t \in DOMAIN streams
          PROVE  streams'[t].sendWindow + Reserved(t)' + Pending("update", {t})'
                    + announced' - peerInitialWindow' = credit'[t]
      <3>1. streams[t].sendWindow + Reserved(t) + Pending("update", {t})
              + announced - peerInitialWindow = credit[t]
        BY <1>2 DEF SendWindowsHonest
      <3>2. Reserved(t) \in Nat /\ Pending("update", {t}) \in Nat /\ announced \in Nat
        BY <1>2, ReservedNat, PendingNat DEF TypeOK
      <3>3. streams[t].sendWindow \in Int BY <1>4 DEF StreamStates
      <3>4. /\ streams'[t].sendWindow = streams[t].sendWindow + v - peerInitialWindow
            /\ peerInitialWindow' = v /\ Reserved(t)' = Reserved(t)
            /\ Pending("update", {t})' = Pending("update", {t})
        BY <1>1, <1>5, <1>6, <1>7
      <3> QED BY <1>3, <1>4, <2>1, <3>1, <3>2, <3>3, <3>4
    <2> QED BY <1>5, <2>2, <2>3 DEF SendWindowsHonest
  <1>8. \A t \in DOMAIN streams : streams'[t].reset => t \in finished
    BY <1>2, <1>5 DEF PeerInv
  <1> QED BY <1>1, <1>3, <1>4, <1>5, <1>6, <1>7, <1>8, ControlFrameInv

\* WINDOW_UPDATE: what was granted on the wire is now granted here.
LEMMA WindowUpdateInv ==
    ASSUME IInv, NEW s \in Streams, ReadFrame(s), WindowUpdate(Head(wire)) PROVE IInv'
  <1> DEFINE q == Head(wire).stream
             n == Head(wire).length
             m == IF q = InitStream THEN n ELSE 0
  <1>1. /\ user[s].pc = "frame" /\ wire # << >> /\ wire' = Tail(wire)
        /\ Head(wire).type = "update"
        /\ UNCHANGED <<peer, peerInitialWindow, connRecvUnacked, forgone, increments>>
        /\ connSendWindow' = IF q = InitStream THEN connSendWindow + n ELSE connSendWindow
        /\ streams' = IF q = InitStream THEN streams
                      ELSE [streams EXCEPT ![q].sendWindow = @ + n]
    BY DEF ReadFrame, WindowUpdate
  <1>2. TypeOK /\ GoroutinesInv /\ PeerInv /\ SendWindowsHonest BY DEF IInv
  <1>3. n \in Nat /\ q \in DOMAIN streams \cup {InitStream}
    BY <1>1, FrameInHand DEF Frames, Proper
  <1>4. peerInitialWindow \in Nat /\ connSendWindow \in Int /\ connSendWindow >= 0
        /\ \A t \in DOMAIN streams : streams[t] \in StreamStates
    BY <1>2 DEF TypeOK, GoroutinesInv
  <1>5. InitStream \notin DOMAIN streams BY <1>2, ZeroIsNoStream DEF TypeOK
  <1>6. \A of : /\ Pending("update", of) = Pending("update", of)' + IF q \in of THEN n ELSE 0
                /\ Pending("update", of)' \in Nat
    <2> TAKE of
    <2>1. Bytes(Head(wire), "update", of) = IF q \in of THEN n ELSE 0 BY <1>1 DEF Bytes
    <2>2. /\ Pending("update", of) = Bytes(Head(wire), "update", of) + Pending("update", of)'
          /\ Pending("update", of)' \in Nat
      BY <1>1, <1>2, PendingRead
    <2> HIDE DEF q, n
    <2> QED BY <1>3, <2>1, <2>2
  <1> HIDE DEF q, n
  <1>7. /\ DOMAIN streams' = DOMAIN streams
        /\ \A t \in DOMAIN streams :
              /\ streams'[t] \in StreamStates
              /\ streams'[t].sendWindow = streams[t].sendWindow + IF t = q THEN n ELSE 0
              /\ streams'[t].recvUnacked = streams[t].recvUnacked
              /\ streams'[t].reset = streams[t].reset
    <2>1. CASE q = InitStream BY <1>1, <1>4, <1>5, <2>1 DEF StreamStates
    <2>2. CASE q # InitStream
      <3> DEFINE x == [streams[q] EXCEPT !.sendWindow = @ + n]
      <3>1. q \in DOMAIN streams /\ streams' = [streams EXCEPT ![q] = x] BY <1>1, <1>3, <2>2
      <3>2. /\ x \in StreamStates /\ x.sendWindow = streams[q].sendWindow + n
            /\ x.recvUnacked = streams[q].recvUnacked /\ x.reset = streams[q].reset
        BY <1>3, <1>4, <3>1 DEF StreamStates
      <3>3. \A t \in DOMAIN streams : streams[t].sendWindow \in Int BY <1>4 DEF StreamStates
      <3> HIDE DEF x
      <3> QED BY <1>4, <3>1, <3>2, <3>3
    <2> QED BY <2>1, <2>2
  <1>8. connSendWindow' \in Int /\ connSendWindow' >= 0 BY <1>1, <1>3, <1>4
  <1>9. \A t \in Streams \ DOMAIN streams : Pending("update", {t})' = Pending("update", {t})
    <2>1. \A t \in Streams \ DOMAIN streams : q # t BY <1>3, ZeroIsNoStream
    <2> QED BY <1>6, <2>1
  <1>10. ASSUME AllReserved' = AllReserved, \A t : Reserved(t)' = Reserved(t)
         PROVE  SendWindowsHonest'
    <2>1. announced' = announced /\ credit' = credit /\ connCredit' = connCredit
      BY <1>1 DEF peer
    <2>2. connSendWindow' + AllReserved' + Pending("update", {InitStream})' = connCredit'
      <3>1. connSendWindow' + Pending("update", {InitStream})'
              = connSendWindow + Pending("update", {InitStream})
        BY <1>1, <1>3, <1>4, <1>6
      <3>2. connSendWindow + AllReserved + Pending("update", {InitStream}) = connCredit
        BY <1>2 DEF SendWindowsHonest
      <3>3. AllReserved \in Nat /\ Pending("update", {InitStream}) \in Nat
            /\ Pending("update", {InitStream})' \in Nat
        BY <1>2, <1>6, AllReservedNat, PendingNat
      <3> QED BY <1>4, <1>8, <1>10, <2>1, <3>1, <3>2, <3>3
    <2>3. ASSUME NEW t \in DOMAIN streams
          PROVE  streams'[t].sendWindow + Reserved(t)' + Pending("update", {t})'
                    + announced' - peerInitialWindow' = credit'[t]
      <3>1. streams[t].sendWindow + Reserved(t) + Pending("update", {t})
              + announced - peerInitialWindow = credit[t]
        BY <1>2 DEF SendWindowsHonest
      <3>2. Reserved(t) \in Nat /\ Pending("update", {t}) \in Nat /\ announced \in Nat
        BY <1>2, ReservedNat, PendingNat DEF TypeOK
      <3>3. streams[t].sendWindow \in Int BY <1>4 DEF StreamStates
      <3>4. Pending("update", {t}) = Pending("update", {t})' + (IF t = q THEN n ELSE 0)
            /\ Pending("update", {t})' \in Nat
        BY <1>6
      <3>5. streams'[t].sendWindow = streams[t].sendWindow + IF t = q THEN n ELSE 0 BY <1>7
      <3>6. peerInitialWindow' = peerInitialWindow BY <1>1
      <3> QED BY <1>3, <1>4, <1>10, <2>1, <3>1, <3>2, <3>3, <3>4, <3>5, <3>6
    <2> QED BY <1>7, <2>2, <2>3 DEF SendWindowsHonest
  <1>11. \A t \in DOMAIN streams : streams'[t].reset => t \in finished
    BY <1>2, <1>7 DEF PeerInv
  <1> QED BY <1>1, <1>4, <1>7, <1>8, <1>9, <1>10, <1>11, ControlFrameInv

\* RST_STREAM: the peer had ended the stream when it sent the frame.
LEMMA RSTStreamInv ==
    ASSUME IInv, NEW s \in Streams, ReadFrame(s), RSTStream(Head(wire)) PROVE IInv'
  <1> DEFINE q == Head(wire).stream
  <1>1. /\ user[s].pc = "frame" /\ wire # << >> /\ wire' = Tail(wire)
        /\ Head(wire).type = "reset" /\ q \in DOMAIN streams
        /\ UNCHANGED <<peer, windows, increments>>
        /\ streams' = [streams EXCEPT ![q].reset = TRUE]
    BY DEF ReadFrame, RSTStream
  <1>2. TypeOK /\ GoroutinesInv /\ PeerInv /\ SendWindowsHonest BY DEF IInv
  <1>3. q \in DOMAIN streams /\ q \in finished
    <2>1. q \notin OtherStreams BY <1>1, <1>2, OthersApart DEF TypeOK
    <2> QED BY <1>1, <2>1, FrameInHand DEF Proper
  <1> HIDE DEF q
  <1>4. peerInitialWindow \in Nat /\ connSendWindow \in Int /\ connSendWindow >= 0
        /\ \A t \in DOMAIN streams : streams[t] \in StreamStates
    BY <1>2 DEF TypeOK, GoroutinesInv
  <1>5. /\ DOMAIN streams' = DOMAIN streams
        /\ \A t \in DOMAIN streams :
              /\ streams'[t] \in StreamStates
              /\ streams'[t].sendWindow = streams[t].sendWindow
              /\ streams'[t].recvUnacked = streams[t].recvUnacked
              /\ t # q => streams'[t].reset = streams[t].reset
    BY <1>1, <1>3, <1>4 DEF StreamStates
  <1>6. \A of : Pending("update", of)' = Pending("update", of) BY <1>1, <1>2, PendingOther
  <1>7. ASSUME AllReserved' = AllReserved, \A t : Reserved(t)' = Reserved(t)
        PROVE  SendWindowsHonest'
    BY <1>1, <1>2, <1>5, <1>6, <1>7 DEF SendWindowsHonest, windows, peer
  <1>8. \A t \in DOMAIN streams : streams'[t].reset => t \in finished
    BY <1>2, <1>3, <1>5 DEF PeerInv
  <1>9. UNCHANGED <<peerInitialWindow, connSendWindow, connRecvUnacked, forgone>>
    BY <1>1 DEF windows
  <1> QED BY <1>1, <1>4, <1>5, <1>6, <1>7, <1>8, <1>9, ControlFrameInv
\* Data of a stream nobody knows: what would be granted back is forgone.
LEMMA UnknownStreamInv == ASSUME IInv, NEW s \in Streams, UnknownStream(s) PROVE IInv'
  <1> DEFINE f == Head(wire)
             cb == connRecvUnacked + f.length
  <1> USE DEF windows, table, peer
  <1>1. /\ user[s].pc = "frame" /\ wire # << >> /\ wire' = Tail(wire)
        /\ f.type \in {"data", "reset"} /\ f.stream \notin DOMAIN streams
        /\ \/ /\ f.type = "data"
              /\ connRecvUnacked' = cb - GrantedBack(cb)
              /\ forgone' = forgone + GrantedBack(cb)
           \/ f.type = "reset" /\ UNCHANGED <<connRecvUnacked, forgone>>
        /\ UNCHANGED <<peerInitialWindow, connSendWindow, table, increments, transport, peer>>
        /\ Goto(s, "done") /\ framerReadMu' = InitStream
    BY DEF UnknownStream, UnlockReadSide, ConnectionBytes
  <1>2. /\ TypeOK /\ GoroutinesInv /\ PeerInv /\ IncrementsInv /\ UnopenedInv
        /\ SendWindowsHonest /\ ReceiveWindowsReplenished
    BY DEF IInv
  <1>3. /\ f \in Frames /\ Proper(f) /\ wire' \in Seq(Frames)
        /\ \A i \in 1..Len(wire') : Proper(wire'[i])
        /\ increments.conn = 0 /\ increments.onStream = 0
    BY <1>1, FrameInHand
  <1>4. f.stream \in OtherStreams /\ f.stream \notin Streams /\ f.length \in Nat
    BY <1>1, <1>3, OthersApart DEF Proper, Frames
  <1>5. /\ connRecvUnacked' \in 0..(windowUpdateThreshold - 1) /\ forgone' \in Nat
        /\ connRecvUnacked' + forgone'
              = connRecvUnacked + forgone + IF f.type = "data" THEN f.length ELSE 0
    <2>1. connRecvUnacked \in 0..(windowUpdateThreshold - 1) /\ forgone \in Nat
      BY <1>2 DEF TypeOK
    <2>2. connRecvUnacked \in Nat /\ cb \in Nat BY <1>4, <2>1, HttpAssumption
    <2>3. GrantedBack(cb) \in Nat /\ cb - GrantedBack(cb) \in 0..(windowUpdateThreshold - 1)
      <3> HIDE DEF cb
      <3> QED BY <2>2, GrantedBackSplits
    <2>4. CASE f.type = "data" BY <1>1, <1>4, <2>1, <2>2, <2>3, <2>4
    <2>5. CASE f.type = "reset" BY <1>1, <2>1, <2>2, <2>5
    <2> QED BY <1>1, <2>4, <2>5
  <1>6. s \in DOMAIN streams /\ user[s].chunk = 0 /\ framerReadMu = s
    BY <1>1, CallerFacts
  <1>7. PICK g \in Goroutines : Moves(s, g) /\ g.pc = "done" /\ g.chunk = 0
    BY <1>1, <1>2, <1>6, GotoMoves DEF Places
  <1>8. Fits(s, g) BY <1>1, <1>6, <1>7, ZeroIsNoStream DEF Fits
  <1>9. /\ framerReadMu' \in Streams \cup {InitStream} /\ user' \in [Streams -> Goroutines]
        /\ \A t \in Streams : framerReadMu' = t <=> user'[t].pc \in {"frame", "answer"}
        /\ GoroutinesInv'
    <2>1. connSendWindow' >= 0 BY <1>1, <1>2 DEF GoroutinesInv
    <2> QED BY <1>1, <1>7, <1>8, <2>1, FitsInv
  <1>10. AllReserved' = AllReserved /\ \A t : Reserved(t)' = Reserved(t)
    BY <1>1, <1>2, <1>6, <1>7, ReservedSame DEF Moves
  <1>11. \A of : Pending("update", of)' = Pending("update", of)
    BY <1>1, <1>2, PendingOther
  <1>12. /\ \A t \in Streams : Pending("data", {t})' = Pending("data", {t})
         /\ Pending("data", AllStreams)
               = Pending("data", AllStreams)' + IF f.type = "data" THEN f.length ELSE 0
         /\ Pending("data", AllStreams)' \in Nat
    <2>1. \A of : /\ Pending("data", of) = Bytes(f, "data", of) + Pending("data", of)'
                  /\ Pending("data", of)' \in Nat
      BY <1>1, <1>2, PendingRead
    <2>2. \A t \in Streams : Bytes(f, "data", {t}) = 0 BY <1>4 DEF Bytes
    <2>3. Bytes(f, "data", AllStreams) = IF f.type = "data" THEN f.length ELSE 0
      BY <1>4 DEF Bytes, AllStreams
    <2> HIDE DEF f
    <2>4. \A t \in Streams : Pending("data", {t})' = Pending("data", {t})
      <3> TAKE t \in Streams
      <3>1. /\ Pending("data", {t}) = Bytes(f, "data", {t}) + Pending("data", {t})'
            /\ Pending("data", {t})' \in Nat
        BY <2>1
      <3> QED BY <2>2, <3>1
    <2>5. /\ Pending("data", AllStreams) = Bytes(f, "data", AllStreams) + Pending("data", AllStreams)'
          /\ Pending("data", AllStreams)' \in Nat
      BY <2>1
    <2> QED BY <1>4, <2>3, <2>4, <2>5
  <1> HIDE DEF f, cb
  <1>13. TypeOK' BY <1>1, <1>2, <1>3, <1>5, <1>9 DEF TypeOK
  <1>14. PeerInv'
    <2>1. \A x : Proper(x) => Proper(x)' BY <1>1 DEF Proper
    <2> QED BY <1>1, <1>2, <1>3, <2>1 DEF PeerInv
  <1>15. IncrementsInv' BY <1>1, <1>2, <1>3 DEF IncrementsInv
  <1>16. UnopenedInv' BY <1>1, <1>2, <1>11, <1>12 DEF UnopenedInv
  <1>17. SendWindowsHonest' BY <1>1, <1>2, <1>10, <1>11 DEF SendWindowsHonest
  <1>18. ReceiveWindowsReplenished'
    <2> SUFFICES ASSUME transport = "up"
                 PROVE  /\ connRoom' + Pending("data", AllStreams)' + connRecvUnacked'
                              + increments'.conn + forgone' = recvWindowSize
                        /\ \A t \in DOMAIN streams' \ finished' :
                              room'[t] + Pending("data", {t})' + streams'[t].recvUnacked
                                  + (IF increments'.stream = t THEN increments'.onStream ELSE 0)
                                = recvWindowSize
      BY <1>1 DEF ReceiveWindowsReplenished
    <2>1. connRoom' + Pending("data", AllStreams)' + connRecvUnacked' + increments'.conn
            + forgone' = recvWindowSize
      <3>1. connRoom + Pending("data", AllStreams) + connRecvUnacked + increments.conn
              + forgone = recvWindowSize
        BY <1>2 DEF ReceiveWindowsReplenished
      <3>2. connRoom \in Nat /\ connRecvUnacked \in Nat /\ forgone \in Nat
        BY <1>2 DEF TypeOK
      <3>3. connRecvUnacked' \in Nat BY <1>5
      <3>4. connRoom' = connRoom /\ increments'.conn = 0 /\ increments.conn = 0
        BY <1>1, <1>3
      <3> DEFINE d == IF f.type = "data" THEN f.length ELSE 0
      <3>5. d \in Nat BY <1>4
      <3>6. connRecvUnacked' + forgone' = connRecvUnacked + forgone + d BY <1>5
      <3>7. /\ Pending("data", AllStreams) = Pending("data", AllStreams)' + d
            /\ Pending("data", AllStreams)' \in Nat
        BY <1>12
      <3>8. forgone' \in Nat BY <1>5
      <3> DEFINE P == Pending("data", AllStreams)
      <3>9. connRoom + P + connRecvUnacked + forgone = recvWindowSize /\ P \in Nat
        BY <1>2, <3>1, <3>2, <3>4, PendingNat
      <3>10. P = Pending("data", AllStreams)' + d BY <3>7
      <3> HIDE DEF d, P
      <3>11. connRoom + Pending("data", AllStreams)' + (connRecvUnacked' + forgone')
               = recvWindowSize
        BY <3>2, <3>5, <3>6, <3>7, <3>9, <3>10
      <3> QED BY <3>2, <3>3, <3>4, <3>7, <3>8, <3>11
    <2>2. DOMAIN streams \subseteq Streams BY <1>2 DEF TypeOK
    <2> QED BY <1>1, <1>2, <1>12, <2>1, <2>2 DEF ReceiveWindowsReplenished
  <1> QED BY <1>9, <1>13, <1>14, <1>15, <1>16, <1>17, <1>18 DEF IInv

\* GOAWAY: it carries no window; its reader is done.
LEMMA GoAwayInv == ASSUME IInv, NEW s \in Streams, GoAway(s) PROVE IInv'
  <1> USE DEF windows, table, peer
  <1>1. /\ user[s].pc = "frame" /\ wire # << >> /\ wire' = Tail(wire)
        /\ Head(wire).type = "goaway"
        /\ UNCHANGED <<windows, table, increments, transport, peer>>
        /\ Goto(s, "done") /\ framerReadMu' = InitStream
    BY DEF GoAway, UnlockReadSide
  <1>2. /\ TypeOK /\ GoroutinesInv /\ PeerInv /\ IncrementsInv /\ UnopenedInv
        /\ SendWindowsHonest /\ ReceiveWindowsReplenished
    BY DEF IInv
  <1>3. /\ wire' \in Seq(Frames) /\ \A i \in 1..Len(wire') : Proper(wire'[i])
        /\ increments.conn = 0 /\ increments.onStream = 0
    BY <1>1, FrameInHand
  <1>4. s \in DOMAIN streams /\ user[s].chunk = 0 /\ framerReadMu = s
    BY <1>1, CallerFacts
  <1>5. PICK g \in Goroutines : Moves(s, g) /\ g.pc = "done" /\ g.chunk = 0
    BY <1>1, <1>2, <1>4, GotoMoves DEF Places
  <1>6. Fits(s, g) BY <1>1, <1>4, <1>5, ZeroIsNoStream DEF Fits
  <1>7. /\ framerReadMu' \in Streams \cup {InitStream} /\ user' \in [Streams -> Goroutines]
        /\ \A t \in Streams : framerReadMu' = t <=> user'[t].pc \in {"frame", "answer"}
        /\ GoroutinesInv'
    <2>1. connSendWindow' >= 0 BY <1>1, <1>2 DEF GoroutinesInv
    <2> QED BY <1>1, <1>5, <1>6, <2>1, FitsInv
  <1>8. AllReserved' = AllReserved /\ \A t : Reserved(t)' = Reserved(t)
    BY <1>1, <1>2, <1>4, <1>5, ReservedSame DEF Moves
  <1>9. \A of : /\ Pending("data", of)' = Pending("data", of)
                /\ Pending("update", of)' = Pending("update", of)
    BY <1>1, <1>2, PendingOther
  <1>10. TypeOK' BY <1>1, <1>2, <1>3, <1>7 DEF TypeOK
  <1>11. PeerInv'
    <2>1. \A x : Proper(x) => Proper(x)' BY <1>1 DEF Proper
    <2> QED BY <1>1, <1>2, <1>3, <2>1 DEF PeerInv
  <1>12. IncrementsInv' BY <1>1, <1>2, <1>3 DEF IncrementsInv
  <1>13. UnopenedInv' BY <1>1, <1>2, <1>9 DEF UnopenedInv
  <1>14. SendWindowsHonest' BY <1>1, <1>2, <1>8, <1>9 DEF SendWindowsHonest
  <1>15. ReceiveWindowsReplenished' BY <1>1, <1>2, <1>9 DEF ReceiveWindowsReplenished
  <1> QED BY <1>7, <1>10, <1>11, <1>12, <1>13, <1>14, <1>15 DEF IInv

\* The peer gets back what the frame used up, and nobody else has anything to grant.
LEMMA AnswerInv == ASSUME IInv, NEW s \in Streams, Answer(s) PROVE IInv'
  <1> USE DEF windows, table
  <1>1. /\ user[s].pc = "answer"
        /\ UNCHANGED <<windows, table, transport, wire, announced, credit, connCredit, finished,
                       frames>>
        /\ increments' = NoIncrements /\ framerReadMu' = InitStream
        /\ \/ /\ transport = "up" /\ Goto(s, user[s].op)
              /\ connRoom' = connRoom + increments.conn
              /\ room' = [t \in Streams |->
                    room[t] + IF t = increments.stream THEN increments.onStream ELSE 0]
           \/ transport # "up" /\ Goto(s, "done") /\ UNCHANGED <<room, connRoom>>
    BY DEF Answer, UnlockReadSide
  <1>2. /\ TypeOK /\ GoroutinesInv /\ PeerInv /\ IncrementsInv /\ UnopenedInv
        /\ SendWindowsHonest /\ ReceiveWindowsReplenished
    BY DEF IInv
  <1>3. /\ s \in DOMAIN streams /\ user[s].op \in {"read", "write"}
        /\ user[s].chunk = 0 /\ framerReadMu = s
    BY <1>1, CallerFacts DEF Calling
  <1>4. PICK g \in Goroutines :
          Moves(s, g) /\ g.pc \in {"read", "write", "done"} /\ g.chunk = 0 /\ g.op = user[s].op
    BY <1>1, <1>2, <1>3, GotoMoves DEF Places
  <1>5. Fits(s, g) BY <1>1, <1>3, <1>4, ZeroIsNoStream DEF Fits
  <1>6. /\ framerReadMu' \in Streams \cup {InitStream} /\ user' \in [Streams -> Goroutines]
        /\ \A t \in Streams : framerReadMu' = t <=> user'[t].pc \in {"frame", "answer"}
        /\ GoroutinesInv'
    <2>1. connSendWindow' >= 0 BY <1>1, <1>2 DEF GoroutinesInv
    <2> QED BY <1>1, <1>4, <1>5, <2>1, FitsInv
  <1>7. AllReserved' = AllReserved /\ \A t : Reserved(t)' = Reserved(t)
    BY <1>1, <1>2, <1>3, <1>4, ReservedSame DEF Moves
  <1>8. \A type, of : Pending(type, of)' = Pending(type, of) BY <1>1, PendingSame
  <1>9. /\ increments.conn \in Nat /\ increments.onStream \in Nat /\ connRoom \in Nat
        /\ room \in [Streams -> Nat]
    BY <1>2 DEF TypeOK
  <1>10. room' \in [Streams -> Nat] /\ connRoom' \in Nat BY <1>1, <1>9
  <1>11. NoIncrements.conn = 0 /\ NoIncrements.onStream = 0 /\ NoIncrements.stream = InitStream
    BY DEF NoIncrements
  <1>12. TypeOK'
    <2>1. increments' \in [stream : Streams \cup {InitStream}, conn : Nat, onStream : Nat]
      BY <1>1 DEF NoIncrements
    <2> QED BY <1>1, <1>2, <1>6, <1>10, <2>1 DEF TypeOK
  <1>13. PeerInv'
    <2>1. \A x : Proper(x) => Proper(x)' BY <1>1 DEF Proper
    <2> QED BY <1>1, <1>2, <2>1 DEF PeerInv
  <1>14. IncrementsInv' BY <1>1, <1>11 DEF IncrementsInv
  <1>15. UnopenedInv'
    <2>1. \A t \in Streams \ DOMAIN streams : room'[t] = room[t]
      BY <1>1, <1>2, <1>9, ZeroIsNoStream DEF IncrementsInv
    <2> QED BY <1>1, <1>2, <1>8, <2>1 DEF UnopenedInv
  <1>16. SendWindowsHonest' BY <1>1, <1>2, <1>7, <1>8 DEF SendWindowsHonest
  <1>17. ReceiveWindowsReplenished'
    <2> SUFFICES ASSUME transport = "up"
                 PROVE  /\ connRoom' + Pending("data", AllStreams)' + connRecvUnacked'
                              + increments'.conn + forgone' = recvWindowSize
                        /\ \A t \in DOMAIN streams' \ finished' :
                              room'[t] + Pending("data", {t})' + streams'[t].recvUnacked
                                  + (IF increments'.stream = t THEN increments'.onStream ELSE 0)
                                = recvWindowSize
      BY <1>1 DEF ReceiveWindowsReplenished
    <2>1. connRoom' + Pending("data", AllStreams)' + connRecvUnacked' + increments'.conn + forgone'
            = recvWindowSize
      <3>1. connRoom + Pending("data", AllStreams) + connRecvUnacked + increments.conn + forgone
              = recvWindowSize
        BY <1>2 DEF ReceiveWindowsReplenished
      <3>2. Pending("data", AllStreams) \in Nat /\ connRecvUnacked \in Nat /\ forgone \in Nat
        BY <1>2, PendingNat DEF TypeOK
      <3>3. forgone' = forgone BY <1>1
      <3> QED BY <1>1, <1>8, <1>9, <1>11, <3>1, <3>2, <3>3
    <2>2. ASSUME NEW t \in DOMAIN streams \ finished
          PROVE  room'[t] + Pending("data", {t})' + streams'[t].recvUnacked
                    + (IF increments'.stream = t THEN increments'.onStream ELSE 0) = recvWindowSize
      <3>1. t \in Streams /\ streams[t].recvUnacked \in Nat
        BY <1>2 DEF TypeOK, StreamStates
      <3>2. Pending("data", {t}) \in Nat BY <1>2, PendingNat
      <3>3. room[t] + Pending("data", {t}) + streams[t].recvUnacked
              + (IF increments.stream = t THEN increments.onStream ELSE 0) = recvWindowSize
        BY <1>2 DEF ReceiveWindowsReplenished
      <3>4. room'[t] = room[t] + IF t = increments.stream THEN increments.onStream ELSE 0
        BY <1>1, <3>1
      <3>5. (IF increments'.stream = t THEN increments'.onStream ELSE 0) = 0
        BY <1>1, <1>11
      <3>6. room[t] \in Nat BY <1>9, <3>1
      <3> QED BY <1>1, <1>8, <1>9, <3>1, <3>2, <3>3, <3>4, <3>5, <3>6
    <2> QED BY <1>1, <2>1, <2>2
  <1> QED BY <1>6, <1>12, <1>13, <1>14, <1>15, <1>16, <1>17 DEF IInv
\* A frame joins the others on the wire; here nothing changes yet.
LEMMA Transmitted ==
    ASSUME IInv, NEW f \in Frames, Transmit(f), finished \subseteq finished',
           finished' \subseteq DOMAIN streams, Proper(f)', announced' \in Nat,
           credit' \in [Streams -> Int], connCredit' \in Int,
           room' \in [Streams -> Nat], connRoom' \in Nat
    PROVE  /\ TypeOK' /\ GoroutinesInv' /\ PeerInv' /\ IncrementsInv'
           /\ UNCHANGED <<framerReadMu, windows, table, user, increments, transport>>
           /\ transport = "up"
           /\ \A t : Reserved(t)' = Reserved(t)
           /\ AllReserved' = AllReserved
           /\ \A type, of : Pending(type, of)' = Pending(type, of) + Bytes(f, type, of)
  <1> USE DEF windows, table
  <1>1. /\ UNCHANGED <<framerReadMu, windows, table, user, increments, transport>>
        /\ transport = "up" /\ wire' = Append(wire, f)
        /\ frames < MaxFrames /\ frames' = frames + 1
    BY DEF Transmit
  <1>2. TypeOK /\ GoroutinesInv /\ PeerInv /\ IncrementsInv BY DEF IInv
  <1>3. wire \in Seq(Frames) /\ frames \in 0..MaxFrames /\ MaxFrames \in Nat
    BY <1>2, HttpAssumption DEF TypeOK
  <1>4. wire' \in Seq(Frames) /\ frames' \in 0..MaxFrames BY <1>1, <1>3
  <1>5. TypeOK'
    <2>1. finished' \subseteq Streams BY <1>2 DEF TypeOK
    <2> QED BY <1>1, <1>2, <1>4, <2>1 DEF TypeOK
  <1>6. GoroutinesInv' BY <1>1, <1>2 DEF GoroutinesInv, Calling
  <1>7. PeerInv'
    <2>1. \A x : Proper(x) => Proper(x)' BY <1>1 DEF Proper
    <2>2. \A i \in 1..Len(wire') : wire'[i] = f \/ (i \in 1..Len(wire) /\ wire'[i] = wire[i])
      BY <1>1, <1>3
    <2>3. (\A i \in 1..Len(wire) : Proper(wire[i]))'
      BY <1>2, <2>1, <2>2 DEF PeerInv, Proper
    <2> QED BY <1>1, <1>2, <2>3 DEF PeerInv
  <1>8. IncrementsInv' BY <1>1, <1>2 DEF IncrementsInv
  <1>9. AllReserved' = AllReserved /\ \A t : Reserved(t)' = Reserved(t)
    BY <1>1, <1>2, ReservedSame
  <1>10. \A type, of : Pending(type, of)' = Pending(type, of) + Bytes(f, type, of)
    BY <1>1, <1>2, PendingSent
  <1> QED BY <1>1, <1>5, <1>6, <1>7, <1>8, <1>9, <1>10

\* What the peer may send is on the wire instead.
LEMMA PeerSendsDataInv ==
    ASSUME IInv, NEW s \in Streams, NEW n \in Lengths, NEW padding \in Padding,
           NEW end \in BOOLEAN, PeerSendsData(s, n, padding, end)
    PROVE  IInv'
  <1> DEFINE f == [Frame("data", s, n) EXCEPT !.padding = padding, !.end = end]
  <1> USE DEF windows, table
  <1>1. /\ padding <= n /\ user[s].pc # "none" /\ s \notin finished
        /\ n <= room[s] /\ n <= connRoom
        /\ room' = [room EXCEPT ![s] = @ - n] /\ connRoom' = connRoom - n
        /\ finished' = IF end THEN finished \cup {s} ELSE finished
        /\ Transmit(f) /\ UNCHANGED <<announced, credit, connCredit>>
    BY DEF PeerSendsData, Known
  <1>2. /\ TypeOK /\ GoroutinesInv /\ PeerInv /\ IncrementsInv /\ UnopenedInv
        /\ SendWindowsHonest /\ ReceiveWindowsReplenished
    BY DEF IInv
  <1>3. s \in DOMAIN streams BY <1>1, CallerFacts
  <1>4. n \in Nat /\ padding \in Nat BY ConstantsAreNumbers
  <1>5. f.type = "data" /\ f.stream = s /\ f.length = n /\ f.padding = padding /\ f.end = end
        /\ f \in Frames
    BY <1>4 DEF Frame, Frames, AllStreams
  <1> HIDE DEF f
  <1>6. /\ room' \in [Streams -> Nat] /\ connRoom' \in Nat
        /\ \A t \in Streams : room'[t] = room[t] - IF t = s THEN n ELSE 0
    <2>1. room \in [Streams -> Nat] /\ connRoom \in Nat BY <1>2 DEF TypeOK
    <2> QED BY <1>1, <1>4, <2>1
  <1>7. /\ finished \subseteq finished' /\ finished' \subseteq DOMAIN streams
        /\ end => s \in finished'
    BY <1>1, <1>2, <1>3 DEF PeerInv
  <1>8. Proper(f)'
    <2>1. streams' = streams BY <1>1 DEF Transmit
    <2> QED BY <1>1, <1>3, <1>5, <1>7, <2>1 DEF Proper
  <1>9. /\ TypeOK' /\ GoroutinesInv' /\ PeerInv' /\ IncrementsInv'
        /\ UNCHANGED <<framerReadMu, windows, table, user, increments, transport>>
        /\ transport = "up"
        /\ \A t : Reserved(t)' = Reserved(t)
        /\ AllReserved' = AllReserved
        /\ \A type, of : Pending(type, of)' = Pending(type, of) + Bytes(f, type, of)
    <2>1. announced \in Nat /\ credit \in [Streams -> Int] /\ connCredit \in Int
      BY <1>2 DEF TypeOK
    <2>2. announced' \in Nat /\ credit' \in [Streams -> Int] /\ connCredit' \in Int
      BY <1>1, <2>1
    <2> QED BY <1>1, <1>5, <1>6, <1>7, <1>8, <2>2, Transmitted
  <1>10. \A of : Pending("update", of)' = Pending("update", of)
    <2> TAKE of
    <2>1. Bytes(f, "update", of) = 0 BY <1>5 DEF Bytes
    <2>2. Pending("update", of) \in Nat BY <1>2, PendingNat
    <2> QED BY <1>9, <2>1, <2>2
  <1>11. \A of : /\ Pending("data", of)' = Pending("data", of) + IF s \in of THEN n ELSE 0
                 /\ Pending("data", of) \in Nat
    BY <1>2, <1>5, <1>9, PendingNat DEF Bytes
  <1>12. UnopenedInv'
    <2>1. \A t \in Streams \ DOMAIN streams :
            room'[t] = room[t] /\ Pending("data", {t})' = Pending("data", {t})
      <3> TAKE t \in Streams \ DOMAIN streams
      <3>1. t # s /\ room[t] \in Nat BY <1>2, <1>3 DEF TypeOK
      <3> QED BY <1>6, <1>11, <3>1
    <2> QED BY <1>1, <1>2, <1>9, <1>10, <2>1 DEF UnopenedInv
  <1>13. SendWindowsHonest' BY <1>1, <1>2, <1>9, <1>10 DEF SendWindowsHonest
  <1>14. ReceiveWindowsReplenished'
    <2>1. connRoom' + Pending("data", AllStreams)' + connRecvUnacked' + increments'.conn + forgone'
            = recvWindowSize
      <3>1. connRoom + Pending("data", AllStreams) + connRecvUnacked + increments.conn + forgone
              = recvWindowSize
        BY <1>2, <1>9 DEF ReceiveWindowsReplenished
      <3>2. /\ connRecvUnacked \in Nat /\ increments.conn \in Nat /\ connRoom \in Nat
            /\ forgone \in Nat
        BY <1>2 DEF TypeOK
      <3>3. Pending("data", AllStreams)' = Pending("data", AllStreams) + n
            /\ Pending("data", AllStreams) \in Nat
        BY <1>11 DEF AllStreams
      <3>4. /\ connRecvUnacked' = connRecvUnacked /\ increments' = increments
            /\ forgone' = forgone
        BY <1>9
      <3> QED BY <1>1, <1>4, <3>1, <3>2, <3>3, <3>4
    <2>2. ASSUME NEW t \in DOMAIN streams \ finished
          PROVE  room'[t] + Pending("data", {t})' + streams'[t].recvUnacked
                    + (IF increments'.stream = t THEN increments'.onStream ELSE 0) = recvWindowSize
      <3>1. room[t] + Pending("data", {t}) + streams[t].recvUnacked
              + (IF increments.stream = t THEN increments.onStream ELSE 0) = recvWindowSize
        BY <1>2, <1>9 DEF ReceiveWindowsReplenished
      <3>2. t \in Streams /\ streams[t].recvUnacked \in Nat /\ room[t] \in Nat
        BY <1>2 DEF TypeOK, StreamStates
      <3>3. Pending("data", {t})' = Pending("data", {t}) + (IF s = t THEN n ELSE 0)
            /\ Pending("data", {t}) \in Nat
        BY <1>11
      <3>4. room'[t] = room[t] - IF t = s THEN n ELSE 0 BY <1>6, <3>2
      <3>5. streams' = streams /\ increments' = increments BY <1>9
      <3> DEFINE i == IF increments.stream = t THEN increments.onStream ELSE 0
      <3>6. i \in Nat BY <1>2 DEF TypeOK
      <3> QED
        <4>1. room[t] + Pending("data", {t}) + streams[t].recvUnacked + i = recvWindowSize
          BY <3>1
        <4> HIDE DEF i
        <4>2. room'[t] + Pending("data", {t})' = room[t] + Pending("data", {t})
          BY <1>4, <3>2, <3>3, <3>4
        <4>3. room'[t] + Pending("data", {t})' + streams'[t].recvUnacked + i = recvWindowSize
          BY <3>2, <3>5, <3>6, <4>1, <4>2
        <4> QED BY <3>5, <4>3 DEF i
    <2>3. \A t \in DOMAIN streams' \ finished' : t \in DOMAIN streams \ finished
      BY <1>7, <1>9
    <2> QED BY <2>1, <2>2, <2>3 DEF ReceiveWindowsReplenished
  <1> QED BY <1>9, <1>12, <1>13, <1>14 DEF IInv

\* On streams of its own it spends the connection's window, and no stream's.
LEMMA PeerSendsElsewhereInv ==
    ASSUME IInv, NEW t \in OtherStreams, NEW n \in Lengths, PeerSendsElsewhere(t, n)
    PROVE  IInv'
  <1> DEFINE f == Frame("data", t, n)
  <1> USE DEF windows, table
  <1>1. /\ n <= connRoom /\ connRoom' = connRoom - n
        /\ Transmit(f) /\ UNCHANGED <<announced, credit, connCredit, room, finished>>
    BY DEF PeerSendsElsewhere
  <1>2. /\ TypeOK /\ GoroutinesInv /\ PeerInv /\ IncrementsInv /\ UnopenedInv
        /\ SendWindowsHonest /\ ReceiveWindowsReplenished
    BY DEF IInv
  <1>3. n \in Nat /\ t \notin Streams BY ConstantsAreNumbers, OthersApart
  <1>4. f.type = "data" /\ f.stream = t /\ f.length = n /\ f.padding = 0 /\ f \in Frames
    BY <1>3 DEF Frame, Frames, AllStreams
  <1> HIDE DEF f
  <1>5. connRoom \in Nat /\ connRoom' \in Nat
    <2>1. connRoom \in Nat BY <1>2 DEF TypeOK
    <2> QED BY <1>1, <1>3, <2>1
  <1>6. Proper(f)' BY <1>3, <1>4 DEF Proper
  <1>7. /\ TypeOK' /\ GoroutinesInv' /\ PeerInv' /\ IncrementsInv'
        /\ UNCHANGED <<framerReadMu, windows, table, user, increments, transport>>
        /\ transport = "up"
        /\ \A x : Reserved(x)' = Reserved(x)
        /\ AllReserved' = AllReserved
        /\ \A type, of : Pending(type, of)' = Pending(type, of) + Bytes(f, type, of)
    <2>1. /\ announced \in Nat /\ credit \in [Streams -> Int] /\ connCredit \in Int
          /\ room \in [Streams -> Nat]
      BY <1>2 DEF TypeOK
    <2>2. /\ announced' \in Nat /\ credit' \in [Streams -> Int] /\ connCredit' \in Int
          /\ room' \in [Streams -> Nat]
      BY <1>1, <2>1
    <2>3. finished \subseteq finished' /\ finished' \subseteq DOMAIN streams
      BY <1>1, <1>2 DEF PeerInv
    <2> QED BY <1>1, <1>4, <1>5, <1>6, <2>2, <2>3, Transmitted
  <1>8. \A of : Pending("update", of)' = Pending("update", of)
    <2> TAKE of
    <2>1. Bytes(f, "update", of) = 0 BY <1>4 DEF Bytes
    <2>2. Pending("update", of) \in Nat BY <1>2, PendingNat
    <2> QED BY <1>7, <2>1, <2>2
  <1>9. \A of : /\ Pending("data", of)' = Pending("data", of) + IF t \in of THEN n ELSE 0
                /\ Pending("data", of) \in Nat
    BY <1>2, <1>4, <1>7, PendingNat DEF Bytes
  <1>10. \A x \in Streams : Pending("data", {x})' = Pending("data", {x})
    BY <1>3, <1>9
  <1>11. UnopenedInv' BY <1>1, <1>2, <1>7, <1>8, <1>10 DEF UnopenedInv
  <1>12. SendWindowsHonest' BY <1>1, <1>2, <1>7, <1>8 DEF SendWindowsHonest
  <1>13. ReceiveWindowsReplenished'
    <2>1. connRoom' + Pending("data", AllStreams)' + connRecvUnacked' + increments'.conn
            + forgone' = recvWindowSize
      <3>1. connRoom + Pending("data", AllStreams) + connRecvUnacked + increments.conn
              + forgone = recvWindowSize
        BY <1>2, <1>7 DEF ReceiveWindowsReplenished
      <3>2. connRecvUnacked \in Nat /\ increments.conn \in Nat /\ forgone \in Nat
        BY <1>2 DEF TypeOK
      <3>3. Pending("data", AllStreams)' = Pending("data", AllStreams) + n
            /\ Pending("data", AllStreams) \in Nat
        BY <1>9 DEF AllStreams
      <3>4. /\ connRecvUnacked' = connRecvUnacked /\ increments' = increments
            /\ forgone' = forgone
        BY <1>7
      <3> QED BY <1>1, <1>3, <1>5, <3>1, <3>2, <3>3, <3>4
    <2>2. DOMAIN streams \subseteq Streams BY <1>2 DEF TypeOK
    <2> QED BY <1>1, <1>2, <1>7, <1>10, <2>1, <2>2 DEF ReceiveWindowsReplenished
  <1> QED BY <1>7, <1>11, <1>12, <1>13 DEF IInv

\* The other frames of the peer: what is left to show is what they do to its
\* count of our windows.
LEMMA PeerControlInv ==
    ASSUME IInv, NEW f \in Frames, Transmit(f), f.type # "data", UNCHANGED <<room, connRoom>>,
           finished \subseteq finished', finished' \subseteq DOMAIN streams,
           Proper(f)', announced' \in Nat, credit' \in [Streams -> Int], connCredit' \in Int,
           \A t \in Streams \ DOMAIN streams :
               credit'[t] = announced' /\ Bytes(f, "update", {t}) = 0,
           \A t \in DOMAIN streams :
               credit'[t] = credit[t] + Bytes(f, "update", {t}) + announced' - announced,
           connCredit' = connCredit + Bytes(f, "update", {InitStream})
    PROVE  IInv'
  <1> USE DEF windows, table
  <1>1. /\ TypeOK /\ UnopenedInv /\ SendWindowsHonest /\ ReceiveWindowsReplenished
    BY DEF IInv
  <1>2. /\ TypeOK' /\ GoroutinesInv' /\ PeerInv' /\ IncrementsInv'
        /\ UNCHANGED <<framerReadMu, windows, table, user, increments, transport>>
        /\ transport = "up"
        /\ \A t : Reserved(t)' = Reserved(t)
        /\ AllReserved' = AllReserved
        /\ \A type, of : Pending(type, of)' = Pending(type, of) + Bytes(f, type, of)
    <2>1. room \in [Streams -> Nat] /\ connRoom \in Nat BY <1>1 DEF TypeOK
    <2>2. room' \in [Streams -> Nat] /\ connRoom' \in Nat BY <2>1
    <2> QED BY <2>2, Transmitted
  <1>3. \A of : Pending("data", of)' = Pending("data", of)
    <2> TAKE of
    <2>1. Bytes(f, "data", of) = 0 BY DEF Bytes
    <2>2. Pending("data", of) \in Nat BY <1>1, PendingNat
    <2> QED BY <1>2, <2>1, <2>2
  <1>4. \A of : /\ Pending("update", of)' = Pending("update", of) + Bytes(f, "update", of)
                /\ Pending("update", of) \in Nat /\ Bytes(f, "update", of) \in Nat
    BY <1>1, <1>2, PendingNat, BytesNat
  <1>5. UnopenedInv'
    <2>1. \A t \in Streams \ DOMAIN streams : Pending("update", {t})' = Pending("update", {t})
      BY <1>4
    <2> QED BY <1>1, <1>2, <1>3, <2>1 DEF UnopenedInv
  <1>6. SendWindowsHonest'
    <2>1. connSendWindow' + AllReserved' + Pending("update", {InitStream})' = connCredit'
      <3>1. connSendWindow + AllReserved + Pending("update", {InitStream}) = connCredit
        BY <1>1 DEF SendWindowsHonest
      <3>2. connSendWindow \in Int /\ AllReserved \in Nat BY <1>1, AllReservedNat DEF TypeOK
      <3> QED BY <1>2, <1>4, <3>1, <3>2
    <2>2. ASSUME NEW t \in DOMAIN streams
          PROVE  streams'[t].sendWindow + Reserved(t)' + Pending("update", {t})'
                    + announced' - peerInitialWindow' = credit'[t]
      <3>1. streams[t].sendWindow + Reserved(t) + Pending("update", {t})
              + announced - peerInitialWindow = credit[t]
        BY <1>1 DEF SendWindowsHonest
      <3>2. streams[t].sendWindow \in Int /\ Reserved(t) \in Nat
        BY <1>1, ReservedNat DEF TypeOK, StreamStates
      <3>3. announced \in Nat /\ peerInitialWindow \in Nat BY <1>1 DEF TypeOK
      <3>4. credit'[t] = credit[t] + Bytes(f, "update", {t}) + announced' - announced OBVIOUS
      <3>5. /\ streams' = streams /\ peerInitialWindow' = peerInitialWindow
            /\ Reserved(t)' = Reserved(t)
        BY <1>2
      <3>6. /\ Pending("update", {t})' = Pending("update", {t}) + Bytes(f, "update", {t})
            /\ Pending("update", {t}) \in Nat /\ Bytes(f, "update", {t}) \in Nat
        BY <1>4
      <3> QED BY <3>1, <3>2, <3>3, <3>4, <3>5, <3>6
    <2> QED BY <1>2, <2>1, <2>2 DEF SendWindowsHonest
  <1>7. ReceiveWindowsReplenished' BY <1>1, <1>2, <1>3 DEF ReceiveWindowsReplenished
  <1> QED BY <1>2, <1>5, <1>6, <1>7 DEF IInv
\* WINDOW_UPDATE of the peer, for a stream it knows or for the connection.
LEMMA PeerGrantsInv ==
    ASSUME IInv, NEW s \in Streams \cup {InitStream}, NEW n \in Lengths, PeerGrants(s, n)
    PROVE  IInv'
  <1> DEFINE f == Frame("update", s, n)
  <1>1. /\ \/ s = InitStream /\ connCredit' = connCredit + n /\ UNCHANGED credit
           \/ /\ s # InitStream /\ user[s].pc # "none"
              /\ credit' = [credit EXCEPT ![s] = @ + n] /\ UNCHANGED connCredit
        /\ Transmit(f) /\ UNCHANGED <<announced, room, connRoom, finished>>
    BY DEF PeerGrants, Known
  <1>2. TypeOK /\ UnopenedInv /\ PeerInv BY DEF IInv
  <1>3. n \in Nat BY ConstantsAreNumbers
  <1>4. f \in Frames /\ f.type = "update" /\ f.stream = s /\ f.length = n
    BY <1>3 DEF Frame, Frames, AllStreams
  <1> HIDE DEF f
  <1>5. s \in DOMAIN streams \cup {InitStream} BY <1>1, CallerFacts
  <1>6. InitStream \notin Streams BY ZeroIsNoStream
  <1>7. \A t : Bytes(f, "update", {t}) = IF t = s THEN n ELSE 0 BY <1>4 DEF Bytes
  <1>8. credit \in [Streams -> Int] /\ connCredit \in Int /\ announced \in Nat
    BY <1>2 DEF TypeOK
  <1>9. Proper(f)'
    <2>1. streams' = streams BY <1>1 DEF Transmit, table
    <2> QED BY <1>4, <1>5, <2>1 DEF Proper
  <1>10. finished' = finished /\ finished \subseteq DOMAIN streams BY <1>1, <1>2 DEF PeerInv
  <1>11. DOMAIN streams \subseteq Streams BY <1>2 DEF TypeOK
  <1>12. /\ credit' \in [Streams -> Int] /\ connCredit' \in Int /\ announced' \in Nat
         /\ connCredit' = connCredit + Bytes(f, "update", {InitStream})
         /\ \A t \in DOMAIN streams :
              credit'[t] = credit[t] + Bytes(f, "update", {t}) + announced' - announced
    <2>1. CASE s = InitStream
      <3>1. UNCHANGED <<credit, announced>> /\ connCredit' = connCredit + n
        BY <1>1, <2>1
      <3>2. \A t \in DOMAIN streams : Bytes(f, "update", {t}) = 0 /\ credit[t] \in Int
        BY <1>6, <1>7, <1>8, <1>11, <2>1
      <3>3. Bytes(f, "update", {InitStream}) = n BY <1>7, <2>1
      <3> QED BY <1>3, <1>8, <3>1, <3>2, <3>3
    <2>2. CASE s # InitStream
      <3>1. /\ UNCHANGED <<connCredit, announced>>
            /\ credit' = [credit EXCEPT ![s] = @ + n] /\ s \in Streams
        BY <1>1, <2>2
      <3>2. Bytes(f, "update", {InitStream}) = 0 BY <1>7, <2>2
      <3>3. \A t \in DOMAIN streams :
              credit'[t] = credit[t] + Bytes(f, "update", {t}) + announced' - announced
        BY <1>3, <1>7, <1>8, <1>11, <3>1
      <3> QED BY <1>3, <1>8, <3>1, <3>2, <3>3
    <2> QED BY <2>1, <2>2
  <1>13. \A t \in Streams \ DOMAIN streams :
           credit'[t] = announced' /\ Bytes(f, "update", {t}) = 0
    <2> TAKE t \in Streams \ DOMAIN streams
    <2>1. t # s BY <1>5, <1>6
    <2>2. credit'[t] = credit[t] BY <1>1, <1>8, <2>1
    <2> QED BY <1>1, <1>2, <1>7, <2>1, <2>2 DEF UnopenedInv
  <1> QED BY <1>1, <1>4, <1>9, <1>10, <1>12, <1>13, PeerControlInv

\* SETTINGS of the peer: every stream's window moves, whether open or not yet.
LEMMA PeerAnnouncesInv ==
    ASSUME IInv, NEW v \in InitialWindows, PeerAnnounces(v) PROVE IInv'
  <1> DEFINE f == Frame("settings", InitStream, v)
  <1>1. /\ announced' = v /\ credit' = [s \in Streams |-> credit[s] + v - announced]
        /\ Transmit(f) /\ UNCHANGED <<connCredit, room, connRoom, finished>>
    BY DEF PeerAnnounces
  <1>2. TypeOK /\ UnopenedInv /\ PeerInv BY DEF IInv
  <1>3. v \in Nat BY ConstantsAreNumbers
  <1>4. f \in Frames /\ f.type = "settings" BY <1>3 DEF Frame, Frames, AllStreams
  <1> HIDE DEF f
  <1>5. \A t : Bytes(f, "update", {t}) = 0 BY <1>4 DEF Bytes
  <1>6. /\ credit \in [Streams -> Int] /\ connCredit \in Int /\ announced \in Nat
        /\ DOMAIN streams \subseteq Streams
    BY <1>2 DEF TypeOK
  <1>7. Proper(f)' BY <1>4 DEF Proper
  <1>8. finished' = finished /\ finished \subseteq DOMAIN streams BY <1>1, <1>2 DEF PeerInv
  <1>9. /\ credit' \in [Streams -> Int] /\ connCredit' \in Int /\ announced' \in Nat
        /\ connCredit' = connCredit + Bytes(f, "update", {InitStream})
        /\ \A t \in DOMAIN streams :
              credit'[t] = credit[t] + Bytes(f, "update", {t}) + announced' - announced
    <2>1. \A t \in Streams : credit'[t] = credit[t] + v - announced /\ credit[t] \in Int
      BY <1>1, <1>6
    <2>2. credit' \in [Streams -> Int] BY <1>1, <1>3, <1>6
    <2>3. connCredit' = connCredit + Bytes(f, "update", {InitStream})
      <3>1. Bytes(f, "update", {InitStream}) = 0 /\ connCredit' = connCredit BY <1>1, <1>5
      <3> QED BY <1>6, <3>1
    <2>4. ASSUME NEW t \in DOMAIN streams
          PROVE  credit'[t] = credit[t] + Bytes(f, "update", {t}) + announced' - announced
      <3>1. Bytes(f, "update", {t}) = 0 /\ t \in Streams BY <1>5, <1>6
      <3> QED BY <1>1, <1>3, <1>6, <2>1, <3>1
    <2> QED BY <1>1, <1>3, <1>6, <2>2, <2>3, <2>4
  <1>10. \A t \in Streams \ DOMAIN streams :
           credit'[t] = announced' /\ Bytes(f, "update", {t}) = 0
    <2> TAKE t \in Streams \ DOMAIN streams
    <2>1. credit[t] = announced BY <1>2 DEF UnopenedInv
    <2>2. credit'[t] = credit[t] + v - announced BY <1>1
    <2>3. credit'[t] = v BY <1>3, <1>6, <2>1, <2>2
    <2>4. Bytes(f, "update", {t}) = 0 BY <1>5
    <2> QED BY <1>1, <2>3, <2>4
  <1> QED BY <1>1, <1>4, <1>7, <1>8, <1>9, <1>10, PeerControlInv

\* RST_STREAM and GOAWAY of the peer carry no window.
LEMMA PeerEndsInv ==
    ASSUME IInv,
           \/ PeerGoesAway \/ \E s \in Streams : PeerResets(s)
           \/ \E t \in OtherStreams : PeerResetsElsewhere(t)
    PROVE  IInv'
  <1>1. TypeOK /\ UnopenedInv /\ PeerInv BY DEF IInv
  <1>2. /\ credit \in [Streams -> Int] /\ connCredit \in Int /\ announced \in Nat
        /\ DOMAIN streams \subseteq Streams /\ finished \subseteq DOMAIN streams
    BY <1>1 DEF TypeOK, PeerInv
  <1>3. PICK f \in Frames :
          /\ f.type \in {"reset", "goaway"} /\ Transmit(f)
          /\ UNCHANGED <<announced, credit, connCredit, room, connRoom>>
          /\ finished \subseteq finished' /\ finished' \subseteq DOMAIN streams
          /\ f.type = "reset" => f.stream \in finished' \cup OtherStreams
    <2>1. ASSUME NEW s \in Streams, PeerResets(s)
          PROVE  /\ Frame("reset", s, 0) \in Frames /\ Frame("reset", s, 0).type = "reset"
                 /\ Frame("reset", s, 0).stream = s /\ Transmit(Frame("reset", s, 0))
                 /\ UNCHANGED <<announced, credit, connCredit, room, connRoom>>
                 /\ finished' = finished \cup {s} /\ s \in DOMAIN streams
      <3>1. user[s].pc # "none" BY <2>1 DEF PeerResets, Known
      <3>2. s \in DOMAIN streams BY <3>1, CallerFacts
      <3>3. Frame("reset", s, 0) \in Frames /\ Frame("reset", s, 0).type = "reset"
            /\ Frame("reset", s, 0).stream = s
        BY DEF Frame, Frames, AllStreams
      <3> QED BY <2>1, <3>2, <3>3 DEF PeerResets
    <2>2. ASSUME PeerGoesAway
          PROVE  /\ Frame("goaway", InitStream, 0) \in Frames
                 /\ Frame("goaway", InitStream, 0).type = "goaway"
                 /\ Transmit(Frame("goaway", InitStream, 0))
                 /\ UNCHANGED <<announced, credit, connCredit, room, connRoom, finished>>
      BY <2>2 DEF PeerGoesAway, Frame, Frames
    <2>3. ASSUME NEW t \in OtherStreams, PeerResetsElsewhere(t)
          PROVE  /\ Frame("reset", t, 0) \in Frames /\ Frame("reset", t, 0).type = "reset"
                 /\ Frame("reset", t, 0).stream = t /\ Transmit(Frame("reset", t, 0))
                 /\ UNCHANGED <<announced, credit, connCredit, room, connRoom, finished>>
      BY <2>3 DEF PeerResetsElsewhere, Frame, Frames, AllStreams
    <2>4. CASE PeerGoesAway BY <1>2, <2>2, <2>4
    <2>5. CASE \E s \in Streams : PeerResets(s) BY <1>2, <2>1, <2>5
    <2>6. CASE \E t \in OtherStreams : PeerResetsElsewhere(t) BY <1>2, <2>3, <2>6
    <2> QED BY <2>4, <2>5, <2>6
  <1>4. \A t : Bytes(f, "update", {t}) = 0 BY <1>3 DEF Bytes
  <1>5. Proper(f)'
    <2>1. streams' = streams BY <1>3 DEF Transmit, table
    <2> QED BY <1>2, <1>3, <2>1 DEF Proper
  <1>6. /\ credit' \in [Streams -> Int] /\ connCredit' \in Int /\ announced' \in Nat
        /\ connCredit' = connCredit + Bytes(f, "update", {InitStream})
        /\ \A t \in DOMAIN streams :
              credit'[t] = credit[t] + Bytes(f, "update", {t}) + announced' - announced
    <2>1. credit' = credit /\ connCredit' = connCredit /\ announced' = announced BY <1>3
    <2>2. connCredit' = connCredit + Bytes(f, "update", {InitStream})
      <3>1. Bytes(f, "update", {InitStream}) = 0 BY <1>4
      <3> QED BY <1>2, <2>1, <3>1
    <2>3. ASSUME NEW t \in DOMAIN streams
          PROVE  credit'[t] = credit[t] + Bytes(f, "update", {t}) + announced' - announced
      <3>1. Bytes(f, "update", {t}) = 0 /\ credit[t] \in Int BY <1>2, <1>4
      <3> QED BY <1>2, <2>1, <3>1
    <2> QED BY <1>2, <2>1, <2>2, <2>3
  <1>7. \A t \in Streams \ DOMAIN streams :
          credit'[t] = announced' /\ Bytes(f, "update", {t}) = 0
    BY <1>1, <1>3, <1>4 DEF UnopenedInv
  <1> QED BY <1>3, <1>5, <1>6, <1>7, PeerControlInv

\* A step that leaves everything alone but, perhaps, loses the connection.
LEMMA LostInv ==
    ASSUME IInv, ConnectionLost \/ UNCHANGED vars PROVE IInv'
  <1> USE DEF windows, table, peer
  <1>1. /\ UNCHANGED <<framerReadMu, windows, table, user, increments, wire, peer>>
        /\ transport' \in {"up", "lost"}
        /\ transport' = "up" => transport = "up"
    BY DEF ConnectionLost, vars, IInv, TypeOK
  <1>2. \A type, of : Pending(type, of)' = Pending(type, of) BY <1>1, PendingSame
  <1>3. TypeOK' BY <1>1 DEF IInv, TypeOK
  <1>4. AllReserved' = AllReserved /\ \A t : Reserved(t)' = Reserved(t)
    BY <1>1, ReservedSame DEF IInv
  <1>5. GoroutinesInv' BY <1>1 DEF IInv, GoroutinesInv, Calling
  <1>6. PeerInv' BY <1>1 DEF IInv, PeerInv, Proper
  <1>7. IncrementsInv' BY <1>1 DEF IInv, IncrementsInv
  <1>8. UnopenedInv' BY <1>1, <1>2 DEF IInv, UnopenedInv
  <1>9. SendWindowsHonest' BY <1>1, <1>2, <1>4 DEF IInv, SendWindowsHonest
  <1>10. ReceiveWindowsReplenished' BY <1>1, <1>2 DEF IInv, ReceiveWindowsReplenished
  <1> QED BY <1>3, <1>5, <1>6, <1>7, <1>8, <1>9, <1>10 DEF IInv

----------------------------------------------------------------------------
(* The theorems.                                                            *)

\* The invariant is inductive, for any streams, windows and frame sizes.
LEMMA Invariant == Spec => []IInv
  <1>1. Init => IInv BY InitInv
  <1>2. IInv /\ [Next]_vars => IInv'
    <2> SUFFICES ASSUME IInv, [Next]_vars PROVE IInv' OBVIOUS
    <2>1. ASSUME NEW s \in Streams,
                 \/ OpenStream(s) \/ Close(s) \/ UserStep(s)
                 \/ \E op \in {"read", "write"}, n \in Lengths : Call(s, op, n)
          PROVE  IInv'
      <3>1. CASE OpenStream(s) BY <3>1, OpenInv
      <3>2. CASE Close(s) \/ \E op \in {"read", "write"}, n \in Lengths : Call(s, op, n)
        BY <3>2, QuietSteps
      <3>3. CASE UserStep(s)
        <4>1. CASE WriteHeaders(s) \/ WriteFails(s) \/ LockReadSide(s) \/ ReadFrameFails(s)
          BY <4>1, QuietSteps
        <4>2. CASE Read(s) BY <4>2, ReadInv
        <4>3. CASE Write(s) BY <4>3, WriteInv
        <4>4. CASE WriteData(s) BY <4>4, WriteDataInv
        <4>5. CASE GoAway(s) BY <4>5, GoAwayInv
        <4>6. CASE ReadFrame(s)
          <5>1. Data(Head(wire)) \/ Settings(Head(wire)) \/ WindowUpdate(Head(wire))
                \/ RSTStream(Head(wire))
            BY <4>6 DEF ReadFrame
          <5> QED BY <4>6, <5>1, DataInv, SettingsInv, WindowUpdateInv, RSTStreamInv
        <4>7. CASE Answer(s) BY <4>7, AnswerInv
        <4>8. CASE UnknownStream(s) BY <4>8, UnknownStreamInv
        <4> QED BY <3>3, <4>1, <4>2, <4>3, <4>4, <4>5, <4>6, <4>7, <4>8 DEF UserStep
      <3> QED BY <2>1, <3>1, <3>2, <3>3
    <2>2. CASE PeerStep
      BY <2>2, PeerSendsDataInv, PeerSendsElsewhereInv, PeerGrantsInv, PeerAnnouncesInv,
         PeerEndsInv DEF PeerStep
    <2>3. CASE ConnectionLost \/ UNCHANGED vars BY <2>3, LostInv
    <2> QED BY <2>1, <2>2, <2>3 DEF Next
  <1> QED BY <1>1, <1>2, PTL DEF Spec

\* Type correctness, the owner of the read side among it.
THEOREM TypeCorrect == Spec => []TypeOK
  <1>1. IInv => TypeOK BY DEF IInv
  <1> QED BY <1>1, Invariant, PTL

\* http.go, reserve, addSendWindow and updateInitialWindow: however streams share
\* the connection's window, and whatever settings and updates are on the way,
\* what a stream and the connection may still send is what the peer has granted.
THEOREM WindowsAreHonest == Spec => []SendWindowsHonest
  <1>1. IInv => SendWindowsHonest BY DEF IInv
  <1> QED BY <1>1, Invariant, PTL

\* http.go, Stream: writes honor the peer's flow-control window: the streams of a
\* connection, however many, never send more than the peer has granted it.
THEOREM ConnectionWindowIsHonored == Spec => []ConnectionWindowHonored
  <1>1. IInv => ConnectionWindowHonored
    <2> SUFFICES ASSUME IInv PROVE ConnectionWindowHonored OBVIOUS
    <2>1. connSendWindow >= 0 /\ connSendWindow \in Int
      BY DEF IInv, GoroutinesInv, TypeOK
    <2>2. AllReserved \in Nat /\ Pending("update", {InitStream}) \in Nat
      BY AllReservedNat, PendingNat DEF IInv
    <2>3. connSendWindow + AllReserved + Pending("update", {InitStream}) = connCredit
      BY DEF IInv, SendWindowsHonest
    <2> QED BY <2>1, <2>2, <2>3 DEF ConnectionWindowHonored
  <1> QED BY <1>1, Invariant, PTL

\* http.go, ackReceived: no byte of the windows granted to the peer is lost: it
\* is on the wire, waits for the threshold, or the peer has it back.  Frames of an
\* unknown stream cost the connection's window the increment due with them, and
\* only that.
THEOREM WindowsAreReplenished == Spec => []ReceiveWindowsReplenished
  <1>1. IInv => ReceiveWindowsReplenished BY DEF IInv
  <1> QED BY <1>1, Invariant, PTL
=============================================================================
