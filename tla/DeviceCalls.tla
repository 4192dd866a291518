---------------------------- MODULE DeviceCalls ----------------------------
(***************************************************************************)
(* Runs one operation of the catalogue (a script, see Scripts) against a    *)
(* device.  The operation talks to the device over connections it opens     *)
(* itself; requests on a connection are answered in order; the device may   *)
(* accept or refuse each of them, and every connection may break at every   *)
(* step.  Exchanges with a deadline (a DTX call, an awaited event) are      *)
(* written with the failure they may end in; any other waits until the      *)
(* device answers or the connection breaks.                                 *)
(***************************************************************************)
EXTENDS Scripts, FiniteSets, SequencesExt

CONSTANTS Operations,   \* operation -> what it does, promises and returns
          Handles,      \* the names scripts give to their connections
          Leaks         \* operation -> connections some path is known to leave open

VARIABLES op,        \* the operation
          todo,      \* what is left of its script
          failing,   \* whether an error is on its way up the call stack
          conn,      \* the state of each connection, as this side sees it
          given,     \* connections whose opening function has returned them
          due,       \* requests of a connection whose answers are unread
          done,      \* what the device has accepted of the operation's promises
          answer,    \* whether the answer read last was an acceptance
          lost,      \* connections nobody has a reference to any more
          result     \* "running", "ok", "error", "panic" or "hangs"

vars == <<op, todo, failing, conn, given, due, done, answer, lost, result>>

Init == /\ op \in DOMAIN Operations
        /\ todo = Operations[op].does
        /\ failing = FALSE
        /\ conn = [c \in Handles |-> "none"]
        /\ due = [c \in Handles |-> <<>>]
        /\ given = {} /\ done = {} /\ lost = {} /\ answer = FALSE
        /\ result = "running"

Step(kind) == /\ result = "running" /\ ~failing
              /\ todo # <<>> /\ Head(todo).kind = kind
              /\ UNCHANGED op
Target == Head(todo).on
Goes == todo' = Tail(todo) /\ failing' = FALSE /\ UNCHANGED result
Errs == todo' = Tail(todo) /\ failing' = TRUE /\ UNCHANGED result
Held(c) == conn[c] \in {"open", "dead"}

\* The verdict on a request is remembered if anything depends on it.
Verdict(q, accepted) ==
    done' = IF accepted THEN done \union ({q} \cap Operations[op].promises) ELSE done

\* c is of no use any more, neither are the answers on their way.
Ends(c, state) == /\ conn' = [conn EXCEPT ![c] = IF @ = "none" THEN @ ELSE state]
                  /\ due' = [due EXCEPT ![c] = <<>>]
Breaks(c) == Ends(c, IF conn[c] = "open" THEN "dead" ELSE conn[c])

----------------------------------------------------------------------------
(* Connections.  A break is noticed by the next call on the connection.     *)

DialWorks == /\ Step("open") /\ Goes
             /\ lost' = IF Held(Target) /\ Target \in given THEN lost \union {Target} ELSE lost
             /\ conn' = [conn EXCEPT ![Target] = "open"]
             /\ due' = [due EXCEPT ![Target] = <<>>]
             /\ given' = given \ {Target}
             /\ answer' = FALSE /\ UNCHANGED done

DialFails == Step("open") /\ Errs /\ UNCHANGED <<conn, given, due, done, answer, lost>>

Returns == /\ Step("give") /\ Goes
           /\ given' = given \union {Target}
           /\ UNCHANGED <<conn, due, done, answer, lost>>

HandshakeWorks == /\ Step("tls") /\ conn[Target] = "open" /\ Goes
                  /\ UNCHANGED <<conn, given, due, done, answer, lost>>

HandshakeFails == /\ Step("tls") /\ Errs /\ Breaks(Target)
                  /\ UNCHANGED <<given, done, answer, lost>>

\* Mutant: the connection is forgotten, its socket stays open.
ForgetsSocket == /\ Step("close") /\ Goes /\ answer' = FALSE
                 /\ UNCHANGED <<conn, due, given, done, lost>>
Closes == /\ Step("close") /\ Goes
          /\ Ends(Target, "closed") /\ answer' = FALSE
          /\ UNCHANGED <<given, done, lost>>

ProcessEnds == /\ Step("exit") /\ Goes
               /\ conn' = [c \in Handles |-> "closed"]
               /\ due' = [c \in Handles |-> <<>>]
               /\ lost' = {}
               /\ UNCHANGED <<given, done, answer>>

----------------------------------------------------------------------------
(* Requests and answers.                                                    *)

SendWorks == /\ Step("send") /\ conn[Target] = "open" /\ Goes
             /\ \E accepted \in BOOLEAN :
                  /\ due' = IF Head(todo).answered
                            THEN [due EXCEPT ![Target] =
                                    Append(@, [what |-> Head(todo).what, ok |-> accepted])]
                            ELSE due
                  /\ Verdict(Head(todo).what, accepted)
             /\ answer' = FALSE /\ UNCHANGED <<conn, given, lost>>

DevicePushes == /\ Step("push") /\ Goes
                /\ \E right \in BOOLEAN :
                     /\ due' = IF conn[Target] = "open"
                               THEN [due EXCEPT ![Target] =
                                       Append(@, [what |-> Head(todo).what, ok |-> right])]
                               ELSE due
                     /\ Verdict(Head(todo).what, right)
                /\ UNCHANGED <<conn, given, answer, lost>>

SendFails == /\ Step("send") /\ Errs
             /\ IF Head(todo).closes THEN Ends(Target, "closed") ELSE Breaks(Target)
             /\ UNCHANGED <<given, done, answer, lost>>

\* Mutant: a refusal is taken like any other answer, whoever reads it.
TakesRefusals == /\ Step("read") /\ conn[Target] = "open" /\ due[Target] # <<>>
                 /\ due' = [due EXCEPT ![Target] = Tail(@)]
                 /\ answer' = Head(due[Target]).ok
                 /\ Goes /\ UNCHANGED <<conn, given, done, lost>>
Answered == /\ Step("read") /\ conn[Target] = "open" /\ due[Target] # <<>>
            /\ due' = [due EXCEPT ![Target] = Tail(@)]
            /\ answer' = Head(due[Target]).ok
            /\ IF answer' \/ ~Head(todo).strict THEN Goes ELSE Errs
            /\ UNCHANGED <<conn, given, done, lost>>

\* Mutant: the connection is used again, and the answer comes later.
StaysUsable == /\ Step("read") /\ Errs
               /\ UNCHANGED <<conn, given, due, done, answer, lost>>
ReadFails == /\ Step("read") /\ Errs /\ Breaks(Target)
             /\ UNCHANGED <<given, done, answer, lost>>

----------------------------------------------------------------------------
(* Control flow of the functions.                                           *)

LocalWork == /\ Step("local") /\ (Goes \/ Errs)
             /\ UNCHANGED <<conn, given, due, done, answer, lost>>

Hangs == /\ Step("hang") /\ result' = "hangs"
         /\ UNCHANGED <<todo, failing, conn, given, due, done, answer, lost>>

GivesUp == Step("fail") /\ Errs /\ UNCHANGED <<conn, given, due, done, answer, lost>>

Chooses == /\ Step("choose")
           /\ \E script \in Head(todo).from : todo' = script \o Tail(todo)
           /\ UNCHANGED <<failing, conn, given, due, done, answer, lost, result>>

Branches == /\ Step("branch")
            /\ todo' = (IF answer THEN Head(todo).yes ELSE Head(todo).no) \o Tail(todo)
            /\ UNCHANGED <<failing, conn, given, due, done, answer, lost, result>>

\* A scope is entered: its end is marked with what has to run there.
Enters == /\ \/ /\ Step("defer")
                /\ todo' = Head(todo).body \o <<[kind |-> "finally", last |-> Head(todo).last]>>
                             \o Tail(todo)
             \/ /\ Step("try")
                /\ todo' = Head(todo).body \o <<[kind |-> "catch", yes |-> Head(todo).yes,
                                                     handler |-> Head(todo).handler]>> \o Tail(todo)
          /\ UNCHANGED <<failing, conn, given, due, done, answer, lost, result>>

\* A function that has not failed runs what it deferred, and what it prepared
\* for success.
LeavesScope == /\ result = "running" /\ ~failing /\ todo # <<>>
               /\ \/ Head(todo).kind = "finally" /\ todo' = Try(Head(todo).last) \o Tail(todo)
                  \/ Head(todo).kind = "catch" /\ todo' = Head(todo).yes \o Tail(todo)
               /\ UNCHANGED <<op, failing, conn, given, due, done, answer, lost, result>>

\* An error passes over everything up to the next handler or deferred call.
\* The deferred call runs, its own error is dropped, and the error goes on.
Unwinds ==
    LET Stops(s) == s.kind \in {"finally", "catch"}
        k == SelectInSeq(todo, Stops)
        beyond == SubSeq(todo, k + 1, Len(todo))
    IN /\ result = "running" /\ failing /\ k # 0 /\ failing' = FALSE
       /\ \/ todo[k].kind = "catch" /\ todo' = todo[k].handler \o beyond
          \/ todo[k].kind = "finally" /\ todo' = Try(todo[k].last) \o Fail \o beyond
       /\ UNCHANGED <<op, conn, given, due, done, answer, lost, result>>

ReturnsError ==
    LET Stops(s) == s.kind \in {"finally", "catch"}
    IN /\ result = "running" /\ failing /\ SelectInSeq(todo, Stops) = 0
       /\ result' = "error"
       /\ UNCHANGED <<op, todo, failing, conn, given, due, done, answer, lost>>

ReturnsNil == /\ result = "running" /\ ~failing /\ todo = <<>>
              /\ result' = "ok"
              /\ UNCHANGED <<op, todo, failing, conn, given, due, done, answer, lost>>

\* A type assertion fails, or a nil connection is closed: the process ends.
CastWorks == /\ Step("cast") /\ Head(todo).what \in done /\ Goes
             /\ UNCHANGED <<conn, given, due, done, answer, lost>>
Panics == /\ \/ Step("panic")
             \/ Step("cast") /\ Head(todo).what \notin done
          /\ result' = "panic"
          /\ UNCHANGED <<todo, failing, conn, given, due, done, answer, lost>>

Returned == result # "running" /\ UNCHANGED vars

Next == \/ DialWorks \/ DialFails \/ Returns \/ HandshakeWorks \/ HandshakeFails
        \/ Closes \/ ProcessEnds \/ SendWorks \/ SendFails \/ DevicePushes \/ Answered \/ ReadFails
        \/ LocalWork \/ GivesUp \/ Chooses \/ Branches \/ Enters \/ LeavesScope
        \/ Unwinds \/ ReturnsError \/ ReturnsNil \/ CastWorks \/ Panics \/ Hangs
        \/ Returned

Spec == Init /\ [][Next]_vars

----------------------------------------------------------------------------
(* What the catalogue promises.                                             *)

\* Whatever failed before, an operation takes for the answer to a request the
\* answer to that request: no reply an earlier call left unread on the
\* connection is mistaken for it.  The clients compare no identifiers.
AnswersMatch ==
    result = "running" /\ ~failing /\ todo # <<>> /\ Head(todo).kind = "read"
        /\ conn[Target] = "open"
      => due[Target] # <<>> /\ Head(due[Target]).what = Head(todo).what

\* An operation that reports success has had the device accept every request
\* its name promises.
SuccessIsAccepted ==
    result = "ok" => Operations[op].promises \subseteq done

\* A function that was given a connection by the function that opened it closes
\* it or returns it to its caller, whether it succeeds or fails, but for the
\* operations and connections of Leaks.  Connections that an opening function
\* leaves open when it fails half-way (a start of a service, a TLS handshake)
\* were given to nobody: this says nothing of them.
LeftOpen == {c \in given : Held(c)} \union lost
ConnectionsReleased ==
    /\ result = "ok" => LeftOpen \subseteq Operations[op].returns \union Leaks[op]
    /\ result = "error" => LeftOpen \subseteq Leaks[op]
=============================================================================
