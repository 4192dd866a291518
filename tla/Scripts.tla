------------------------------ MODULE Scripts ------------------------------
(***************************************************************************)
(* The vocabulary in which the catalogue modules write down what a Go       *)
(* function of this repository does to a device: a script is a sequence of  *)
(* steps.  DeviceCalls runs scripts against a device that may answer,       *)
(* refuse or vanish at every step.                                          *)
(*                                                                          *)
(* A function that returns (x, err) and whose callers write                 *)
(*     if err != nil { return err }                                         *)
(* is simply concatenated: a failing step ends the script, and only the     *)
(* deferred closes and the handlers that are still ahead are looked at.     *)
(***************************************************************************)
EXTENDS Naturals, Sequences

\* A socket is opened under the name c; it is the opening function's until it
\* is given to a caller.
Open(c) == <<[kind |-> "open", on |-> c]>>
Give(c) == <<[kind |-> "give", on |-> c]>>
Dial(c) == Open(c) \o Give(c)

\* The request q is written to c; Tell closes c when that fails, Write does not.
Tell(c, q) == <<[kind |-> "send", on |-> c, what |-> q, answered |-> TRUE, closes |-> TRUE]>>
Write(c, q) == <<[kind |-> "send", on |-> c, what |-> q, answered |-> TRUE, closes |-> FALSE]>>

\* Bytes nobody answers.
Post(c, q) == <<[kind |-> "send", on |-> c, what |-> q, answered |-> FALSE, closes |-> FALSE]>>

\* The answer to q is read from c; a refusal is an error ...
Hear(c, q) == <<[kind |-> "read", on |-> c, what |-> q, strict |-> TRUE]>>

\* ... or is taken like any other answer.
HearAny(c, q) == <<[kind |-> "read", on |-> c, what |-> q, strict |-> FALSE]>>

\* One exchange of request and answer, with and without a look at the verdict.
Ask(c, q) == Tell(c, q) \o Hear(c, q)
AskAny(c, q) == Tell(c, q) \o HearAny(c, q)

\* A message the device sends of its own accord; Expect wants it to be right.
Push(c, q) == <<[kind |-> "push", on |-> c, what |-> q]>>
Expect(c, q) == Push(c, q) \o Hear(c, q)
ExpectAny(c, q) == Push(c, q) \o HearAny(c, q)

\* Goes by the verdict of the answer read last.
IfAccepted(yes, no) == <<[kind |-> "branch", yes |-> yes, no |-> no]>>

\* A type assertion on the answer to q, of a type a refusal does not have.
Cast(q) == <<[kind |-> "cast", what |-> q]>>
Panic == <<[kind |-> "panic"]>>

\* A TLS handshake on c.
Secure(c) == <<[kind |-> "tls", on |-> c]>>

\* c is closed here; its error, if any, is dropped.
Close(c) == <<[kind |-> "close", on |-> c]>>

\* defer c.Close() or defer func() { last }() ahead of body: last runs when the
\* function returns, whatever the reason.
Deferred(last, body) == <<[kind |-> "defer", last |-> last, body |-> body]>>
With(c, open, body) == open \o Deferred(Close(c), body)

\* Work that does not talk to the device and may fail: files, parsing, keys.
Local == <<[kind |-> "local"]>>

\* The function returns an error here.
Fail == <<[kind |-> "fail"]>>

\* body, then yes if it works, or else no, which handles body's errors only.
IfWorks(body, yes, no) == <<[kind |-> "try", body |-> body, yes |-> yes, handler |-> no]>>
Attempt(body, handler) == IfWorks(body, <<>>, handler)

\* The errors of body are logged and forgotten.
Try(body) == Attempt(body, <<>>)

\* The call never returns.
Hang == <<[kind |-> "hang"]>>

\* A command of the command line tool: when the process ends, be it through
\* exitIfError, which runs no deferred function, the system closes its sockets.
Process(body) == <<[kind |-> "defer", last |-> <<[kind |-> "exit"]>>, body |-> body]>>

\* What happens next depends on data: an argument, a version, a reply.
Choose(scripts) == <<[kind |-> "choose", from |-> scripts]>>
Maybe(body) == Choose({<<>>, body})

\* A loop over data, run up to twice.
Loop(body) == Choose({<<>>, body, body \o body})

\* The device reports on its progress until it is done.
Progress(c, q) == Loop(Expect(c, "progress")) \o Expect(c, q)

\* A method call on a DTX channel: one that times out leaves nothing behind for
\* the next, because replies are matched by identifier (DtxChannel).
Call(c, q) == Choose({Write(c, q) \o Hear(c, q), Post(c, q) \o Fail})

\* A client as its users see it: opened, then any two of its methods, whose
\* errors the user may survive, then closed.
Client(open, methods, close) ==
    open \o Deferred(close, Try(Choose(methods)) \o Choose(methods))

\* An entry of the catalogue: what an operation does, which requests its name
\* promises to have got accepted, and which connections its caller receives.
Op(does, promises, returns) ==
    [does |-> does, promises |-> promises, returns |-> returns]
=============================================================================
