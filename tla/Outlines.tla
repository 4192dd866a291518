------------------------------ MODULE Outlines ------------------------------
(***************************************************************************)
(* Proof outlines for the operations of DeviceCalls, one per operation and  *)
(* connection.  An outline says of every script a function of the operation *)
(* consists of what can be true of the connection before each step, after   *)
(* the last, and when an error leaves the script.  A script is judged       *)
(* without a look at what follows it, and a connection without a look at    *)
(* the others: a step on another one may fail or work, whatever its state.  *)
(*                                                                         *)
(* Outline, a constant, gives the outlines; OutlinesHold says that they are *)
(* right.  It is a finite check, script by script, and no state of          *)
(* DeviceCalls is looked at; DeviceCallsProofs shows that it suffices.      *)
(***************************************************************************)
EXTENDS DeviceCalls

CONSTANTS Outline(_, _),   \* operation, connection -> the judgements of its outline
          Nobody           \* stands for all connections an operation does not name

ASSUME HandlesAssumption == Handles # {} /\ Nobody \notin Handles

----------------------------------------------------------------------------
(* What an outline sees of a state, on behalf of the connection c.          *)

View(c) == [conn |-> conn[c], given |-> c \in given, due |-> due[c], lost |-> c \in lost,
            done |-> done, answer |-> answer]

Fresh == [conn |-> "none", given |-> FALSE, due |-> <<>>, lost |-> FALSE,
          done |-> {}, answer |-> FALSE]

HeldIn(v) == v.conn \in {"open", "dead"}
LeftIn(v) == v.lost \/ (v.given /\ HeldIn(v))
Answerable(v) == v.conn = "open" /\ v.due # <<>>

Reading(v, verdict) == [v EXCEPT !.answer = verdict]
Awaiting(v, answers) == [v EXCEPT !.due = answers]
EndedIn(v, state) == Awaiting([v EXCEPT !.conn = IF @ = "none" THEN @ ELSE state], <<>>)
BrokenIn(v) == EndedIn(v, IF v.conn = "open" THEN "dead" ELSE v.conn)
Judged(v, q, accepted, promised) ==
    [v EXCEPT !.done = IF accepted THEN @ \union ({q} \cap promised) ELSE @]
Queued(v, q, accepted) == Awaiting(v, Append(v.due, [what |-> q, ok |-> accepted]))
Heard(v) == Reading(Awaiting(v, Tail(v.due)), Head(v.due).ok)
Opened(v) == [conn |-> "open", given |-> FALSE, due |-> <<>>, lost |-> LeftIn(v),
              done |-> v.done, answer |-> FALSE]
Exited(v) == [conn |-> "closed", given |-> v.given, due |-> <<>>, lost |-> FALSE,
              done |-> v.done, answer |-> v.answer]

----------------------------------------------------------------------------
(* The views a step can lead to: a step on the connection itself, when it   *)
(* works and when it fails, and a step on another connection or on none.    *)

Targeted == {"open", "give", "tls", "close", "send", "push", "read"}
Concerns(s, c) == s.kind \in Targeted /\ s.on = c

WorksHere(s, v, promised) ==
  CASE s.kind = "open" -> {Opened(v)}
    [] s.kind = "give" -> {[v EXCEPT !.given = TRUE]}
    [] s.kind = "tls" -> {x \in {v} : x.conn = "open"}
    [] s.kind = "close" -> {Reading(EndedIn(v, "closed"), FALSE)}
    [] s.kind = "send" ->
         IF v.conn # "open" THEN {}
         ELSE {Judged(Reading(IF s.answered THEN Queued(v, s.what, a) ELSE v, FALSE),
                      s.what, a, promised) : a \in BOOLEAN}
    [] s.kind = "push" ->
         {Judged(IF v.conn = "open" THEN Queued(v, s.what, a) ELSE v, s.what, a, promised)
            : a \in BOOLEAN}
    [] s.kind = "read" ->
         IF Answerable(v) /\ (Head(v.due).ok \/ ~s.strict)
         THEN {Heard(v)} ELSE {}

FailsHere(s, v) ==
  CASE s.kind = "open" -> {v}
    [] s.kind = "tls" -> {BrokenIn(v)}
    [] s.kind = "send" -> {IF s.closes THEN EndedIn(v, "closed") ELSE BrokenIn(v)}
    [] s.kind = "read" ->
         {BrokenIn(v)} \union
           (IF Answerable(v) /\ s.strict /\ ~Head(v.due).ok THEN {Heard(v)} ELSE {})
    [] OTHER -> {}

WorksElsewhere(s, v, promised) ==
  CASE s.kind \in {"open", "close"} -> {Reading(v, FALSE)}
    [] s.kind \in {"give", "tls", "local"} -> {v}
    [] s.kind = "exit" -> {Exited(v)}
    [] s.kind = "send" -> {Judged(Reading(v, FALSE), s.what, a, promised) : a \in BOOLEAN}
    [] s.kind = "push" -> {Judged(v, s.what, a, promised) : a \in BOOLEAN}
    [] s.kind = "read" -> {Reading(v, a) : a \in IF s.strict THEN {TRUE} ELSE BOOLEAN}
    [] s.kind = "cast" -> {x \in {v} : s.what \in x.done}
    [] OTHER -> {}

FailsElsewhere(s, v) ==
  CASE s.kind \in {"open", "tls", "send", "local", "fail"} -> {v}
    [] s.kind = "read" -> {v} \union (IF s.strict THEN {Reading(v, FALSE)} ELSE {})
    [] OTHER -> {}

Works(s, v, c, promised) ==
    IF Concerns(s, c) THEN WorksHere(s, v, promised) ELSE WorksElsewhere(s, v, promised)
Fails(s, v, c) == IF Concerns(s, c) THEN FailsHere(s, v) ELSE FailsElsewhere(s, v)

\* An answer is read from c only when it is the answer to the right request.
Matches(s, v, c) ==
    s.kind = "read" /\ s.on = c /\ v.conn = "open"
      => v.due # <<>> /\ Head(v.due).what = s.what

----------------------------------------------------------------------------
(* Judgements.  j in J says: if the script j.does begins in a view of       *)
(* j.ok[1], then step i begins in one of j.ok[i], the script ends in one of *)
(* j.ok[Len(j.does) + 1], and an error leaves it in one of j.err.           *)

\* J judges script, begun in a view of P, to end in M, or with an error in E.
Derives(J, script, P, M, E) ==
    P = {} \/ \E j \in J : /\ j.does = script
                           /\ P \subseteq j.ok[1]
                           /\ j.ok[Len(script) + 1] \subseteq M
                           /\ j.err \subseteq E

\* J judges the scope s, whose body is script: worked runs when that has worked
\* and failed when it has not.
DerivesScope(J, script, worked, failed, P, M, E) ==
    P = {} \/ \E j \in J : /\ j.does = script
                           /\ P \subseteq j.ok[1]
                           /\ Derives(J, worked, j.ok[Len(script) + 1], M, E)
                           /\ Derives(J, failed, j.err, M, E)

\* The step s, begun in a view of P, leads to M, or with an error to E.
StepHolds(J, s, c, promised, P, M, E) ==
  CASE s.kind = "choose" -> \A script \in s.from : Derives(J, script, P, M, E)
    [] s.kind = "branch" -> /\ Derives(J, s.yes, {v \in P : v.answer}, M, E)
                            /\ Derives(J, s.no, {v \in P : ~v.answer}, M, E)
    [] s.kind = "defer" ->
         DerivesScope(J, s.body, Try(s.last), Try(s.last) \o Fail, P, M, E)
    [] s.kind = "try" -> DerivesScope(J, s.body, s.yes, s.handler, P, M, E)
    [] OTHER -> \A v \in P : /\ Matches(s, v, c)
                             /\ Works(s, v, c, promised) \subseteq M
                             /\ Fails(s, v, c) \subseteq E

Steps(J) == UNION {{j.does[i] : i \in 1..Len(j.does)} : j \in J}
Mentions(J) == {s.on : s \in {t \in Steps(J) : t.kind \in Targeted}}

\* Every judgement of J is a sequence of steps, none of them one of the marks
\* DeviceCalls puts at the end of a scope, and follows from those of J.
Follows(J, c, promised) ==
    \A j \in J :
      /\ j.does \in Seq({j.does[i] : i \in 1..Len(j.does)})
      /\ \A i \in 1..Len(j.does) :
           /\ j.does[i].kind \notin {"finally", "catch"}
           /\ StepHolds(J, j.does[i], c, promised, j.ok[i], j.ok[i + 1], j.err)

----------------------------------------------------------------------------
(* The outlines of an operation.                                            *)

\* The connections the operation o names; any other is judged by the outline
\* of Nobody.
Named(o) == Mentions(Outline(o, Nobody))
JudgedAs(o, c) == IF c \in Named(o) THEN c ELSE Nobody
OutlineFor(o, c) == Outline(o, JudgedAs(o, c))

\* A judgement about the whole operation.
Judges(j, o) == j.does = Operations[o].does /\ Fresh \in j.ok[1]
Ending(j) == j.ok[Len(j.does) + 1]

\* At the end of the operation c has been closed, or is excused.
Released(j, o, c) ==
    /\ \A v \in Ending(j) : LeftIn(v) => c \in Operations[o].returns \union Leaks[o]
    /\ \A v \in j.err : LeftIn(v) => c \in Leaks[o]

OutlineHolds(o, c, named) ==
    LET J == Outline(o, c)
    IN /\ Follows(J, c, Operations[o].promises)
       /\ Mentions(J) \subseteq named
       /\ \E j \in J : Judges(j, o) /\ Released(j, o, c)

\* The outline of one connection shows that the device has accepted q.
Promised(o, q, c) ==
    \E j \in Outline(o, c) : Judges(j, o) /\ \A v \in Ending(j) : q \in v.done

OutlinesOf(o) ==
    LET named == Named(o)
    IN /\ named \subseteq Handles
       /\ Nobody \notin Operations[o].returns \union Leaks[o]
       /\ \A c \in named \union {Nobody} : OutlineHolds(o, c, named)
       /\ \A q \in Operations[o].promises : \E c \in named : Promised(o, q, c)

\* Every operation of the catalogue has outlines, and they are right.
ASSUME OutlinesHold == \A o \in DOMAIN Operations : OutlinesOf(o)
=============================================================================
