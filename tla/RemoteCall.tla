------------------------------ MODULE RemoteCall ------------------------------
(***************************************************************************)
(* What a remote procedure call over a shared connection promises: a       *)
(* caller has at most one call open, a call ends once, and it ends either  *)
(* with the answer the remote side gave to that very call or with an       *)
(* error.  The remote side may answer late, after the call has failed, and *)
(* may never answer.                                                       *)
(***************************************************************************)
EXTENDS Naturals

CONSTANTS Callers,   \* the goroutines that issue calls
          Failed     \* the outcome of a call that ended with an error

VARIABLES calls,     \* calls[c]: how many calls c has started
          open,      \* open[c]: c is inside a call
          answered,  \* the calls <<c, n>> the remote side has answered
          outcome    \* outcome[c]: how c's last finished call ended

vars == <<calls, open, answered, outcome>>

Init ==
    /\ calls = [c \in Callers |-> 0]
    /\ open = [c \in Callers |-> FALSE]
    /\ answered = {}
    /\ outcome = [c \in Callers |-> Failed]

Start(c) ==
    /\ ~open[c]
    /\ calls' = [calls EXCEPT ![c] = @ + 1]
    /\ open' = [open EXCEPT ![c] = TRUE]
    /\ UNCHANGED <<answered, outcome>>

Answer(c) ==
    /\ \E n \in 1..calls[c] :
          /\ <<c, n>> \notin answered
          /\ answered' = answered \cup {<<c, n>>}
    /\ UNCHANGED <<calls, open, outcome>>

Return(c) ==
    /\ open[c]
    /\ <<c, calls[c]>> \in answered
    /\ open' = [open EXCEPT ![c] = FALSE]
    /\ outcome' = [outcome EXCEPT ![c] = <<c, calls[c]>>]
    /\ UNCHANGED <<calls, answered>>

Fail(c) ==
    /\ open[c]
    /\ open' = [open EXCEPT ![c] = FALSE]
    /\ outcome' = [outcome EXCEPT ![c] = Failed]
    /\ UNCHANGED <<calls, answered>>

Next == \E c \in Callers : Start(c) \/ Answer(c) \/ Return(c) \/ Fail(c)

Spec == Init /\ [][Next]_vars
===============================================================================
