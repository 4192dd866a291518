------------------------------ MODULE TestRun ------------------------------
(***************************************************************************)
(* Running the test targets of a test plan (ios/testmanagerd).  For each    *)
(* target a runner goroutine opens two connections to testmanagerd, starts  *)
(* the plan and waits.  The reader goroutines of the connections dispatch   *)
(* what the device reports to one TestListener, which nothing locks and     *)
(* which the next target uses again after a reset.                          *)
(*                                                                          *)
(* Single assignments to the listener and sync.Once are atomic here; reset, *)
(* which makes five of them, and a function that checks the running suite   *)
(* and then dereferences it are not.                                        *)
(***************************************************************************)
EXTENDS Naturals, Sequences

CONSTANTS Targets,     \* how many targets the plan has
          Nesting,     \* the names of nested suites, from the outermost in
          Classes,     \* the names of test classes
          Budgets,     \* bound: how many messages the device sends about each target
          NoSuite

ASSUME BoundsAssumption == Targets \in Nat /\ Budgets \subseteq [1..Targets -> Nat]

Names == {Nesting[i] : i \in 1..Len(Nesting)} \union Classes
Cases == [class : Classes, id : Nat, status : {"none", "stalled", "failed", "passed"}]
Suites == [name : Names, cases : Seq(Cases)]

ASSUME NestingAssumption == Nesting \in Seq(Names)

\* No suite is at the nil pointer.
ASSUME NilAssumption == NoSuite \notin Suites

VARIABLES
  target,    \* the target that runs
  runner,    \* where the runner is
  conn,      \* <<target, 1 or 2>> -> "none", "open" or "closed"
  at, hand,  \* where the reader of a connection is, with which message
  running, suites, err, finished, finishedOnce,   \* the TestListener
  plan,      \* what the device has reported of its plan
  reports,   \* how many messages the device may still send about each target
  result,    \* what the runner has returned for the latest target
  reason,    \* why the runner stopped waiting
  broken,    \* whether this target's run has met an error it knows of
  stale      \* whether a message of an earlier target was handled since the reset began

signal == <<finished, finishedOnce>>
listener == <<running, suites, err, signal>>
vars == <<target, runner, conn, at, hand, listener, plan, reports,
          result, reason, broken, stale>>

Readers == (1..Targets) \X {1, 2}
Case(class, n) == [class |-> class, id |-> n, status |-> "none"]
Suite(name, cases) == [name |-> name, cases |-> cases]
NewPlan == [open |-> <<>>, started |-> 0, class |-> NoSuite, failed |-> {},
            finished |-> FALSE, ended |-> FALSE]

NoResult == [reason |-> "none"]
Returned == result.reason \notin {"none", "setup"}

Init == /\ target = 0 /\ runner = "next"
        /\ conn = [r \in Readers |-> "none"]
        /\ at = [r \in Readers |-> "read"]
        /\ hand = [r \in Readers |-> [kind |-> "nothing"]]
        /\ running = NoSuite /\ suites = <<>> /\ err = "none" /\ finished = FALSE
        /\ finishedOnce = FALSE
        /\ plan = NewPlan /\ result = NoResult
        /\ reports \in Budgets /\ reason = "none" /\ broken = FALSE /\ stale = FALSE

----------------------------------------------------------------------------
(* The device.  Suites nest; the test cases run one after the other; each    *)
(* may stall, fail more than once, and then finishes.  Everything about the  *)
(* plan is reported on the first connection, in order.                       *)

SaysOn(c, e) == LET r == <<target, c>>
                IN /\ reports[target] > 0
                   /\ reports' = [reports EXCEPT ![target] = @ - 1]
                   /\ conn[r] = "open" /\ at[r] = "read"
                   /\ at' = [at EXCEPT ![r] = "handle"]
                   /\ hand' = [hand EXCEPT ![r] = e]
Says(e) == SaysOn(1, e)
Current == [kind |-> "none", class |-> plan.class, id |-> plan.started]
InCase == plan.class # NoSuite
Unended == target > 0 /\ ~plan.ended

SuiteStarts == /\ Unended /\ ~InCase /\ Len(plan.open) < Len(Nesting)
               /\ Says([kind |-> "suiteDidStart", name |-> Nesting[Len(plan.open) + 1]])
               /\ plan' = [plan EXCEPT !.open = Append(@, Nesting[Len(@) + 1])]
SuiteEnds == /\ Unended /\ ~InCase /\ plan.open # <<>>
             /\ Says([kind |-> "suiteFinished", name |-> plan.open[Len(plan.open)]])
             /\ plan' = [plan EXCEPT !.open = SubSeq(@, 1, Len(@) - 1)]
CaseStarts(n) == /\ Unended /\ ~InCase
                 /\ Says([kind |-> "caseDidStart", class |-> n, id |-> plan.started + 1])
                 /\ plan' = [plan EXCEPT !.started = @ + 1, !.class = n]
CaseStalls == /\ Unended /\ InCase
              /\ Says([Current EXCEPT !.kind = "caseStalled"])
              /\ UNCHANGED plan
CaseFails == /\ Unended /\ InCase
             /\ Says([Current EXCEPT !.kind = "caseFailed"])
             /\ plan' = [plan EXCEPT !.failed = @ \union {plan.started}]
CaseEnds == /\ Unended /\ InCase
            /\ Says([kind |-> "caseDidFinish", class |-> plan.class, id |-> plan.started,
                     status |-> IF plan.started \in plan.failed THEN "failed" ELSE "passed"])
            /\ plan' = [plan EXCEPT !.class = NoSuite]
PlanEnds == /\ Unended /\ ~InCase /\ plan.open = <<>>
            /\ Says([kind |-> "planFinished"])
            /\ plan' = [plan EXCEPT !.finished = TRUE, !.ended = TRUE]

\* Reported instead of, or in the middle of, a plan; or a message whose
\* arguments cannot be decoded.
BootstrapFails == /\ Unended /\ \E c \in {1, 2} : SaysOn(c, [kind |-> "bootstrapFailed"])
                  /\ plan' = [plan EXCEPT !.ended = TRUE]
Garbled == /\ Unended /\ \E c \in {1, 2} : SaysOn(c, [kind |-> "garbled"])
           /\ UNCHANGED plan

\* The device or the network drops a connection; its reader closes it.
ConnectionDrops == /\ \E r \in Readers :
                        /\ conn[r] = "open" /\ at[r] = "read"
                        /\ conn' = [conn EXCEPT ![r] = "closed"]
                   /\ UNCHANGED <<target, runner, at, hand, listener, plan, reports,
                                  result, reason, broken, stale>>

DeviceReports ==
    /\ \/ SuiteStarts \/ SuiteEnds \/ \E n \in Classes : CaseStarts(n)
       \/ CaseStalls \/ CaseFails \/ CaseEnds \/ PlanEnds
       \/ BootstrapFails \/ Garbled
    /\ UNCHANGED <<target, runner, conn, listener, result, reason, broken, stale>>

----------------------------------------------------------------------------
(* The TestListener, called on the reader goroutines.                        *)

\* Mutant: the end of the execution is not signalled.
NotSignalled == UNCHANGED signal
executionFinished == finishedOnce' = TRUE /\ finished' = (finished \/ ~finishedOnce)

\* A message of an earlier target between two assignments of the reset leaves the
\* new channel closed and the new Once unused: closing it once more panics.
ClosesTwice == finished /\ ~finishedOnce

findTestSuite(name) == running # NoSuite /\ running.name = name

\* The index of a test case in the running suite, 0 for none: the last one of
\* the suite of its class, or the last one without a verdict of any suite.
Same(i, m) == running.cases[i].class = m.class /\ running.cases[i].id = m.id
findTestCase(m) ==
    IF running = NoSuite \/ running.cases = <<>> THEN 0
    ELSE LET last == Len(running.cases)
             Open(i) == Same(i, m) /\ running.cases[i].status = "none"
         IN IF findTestSuite(m.class) /\ Same(last, m) THEN last
            ELSE IF \E i \in 1..last : Open(i)
                 THEN CHOOSE i \in 1..last : Open(i) /\ \A j \in i + 1..last : ~Open(j)
                 ELSE 0

SetStatus(i, status) == running' = [running EXCEPT !.cases[i].status = status]
AddCase(case) == running' = [running EXCEPT !.cases = Append(@, case)]

testCaseDidStartForClass(m) ==
    /\ IF running # NoSuite
       THEN AddCase(Case(m.class, m.id)) /\ UNCHANGED suites
       ELSE /\ suites' = Append(suites, Suite(m.class, <<Case(m.class, m.id)>>))
            /\ UNCHANGED running
    /\ UNCHANGED <<err, signal>>

testCaseStalled(m) ==
    /\ IF findTestCase(m) # 0 THEN SetStatus(findTestCase(m), "stalled") ELSE UNCHANGED running
    /\ UNCHANGED <<suites, err, signal>>

\* A failure of an unknown case makes it known, if a suite runs.
testCaseFailedForClass(m) ==
    /\ IF findTestCase(m) # 0 THEN SetStatus(findTestCase(m), "failed")
       ELSE IF running # NoSuite THEN AddCase([Case(m.class, m.id) EXCEPT !.status = "failed"])
       ELSE UNCHANGED running
    /\ UNCHANGED <<suites, err, signal>>

testCaseDidFinishForTest(m) ==
    /\ LET i == findTestCase(m)
       IN IF i # 0 /\ running.cases[i].status # "stalled" THEN SetStatus(i, m.status)
          ELSE UNCHANGED running
    /\ UNCHANGED <<suites, err, signal>>

----------------------------------------------------------------------------
(* proxyDispatcher.Dispatch: one message at a time on each connection, also   *)
(* one that was read before its connection was closed.                       *)

Reads(r) == /\ at' = [at EXCEPT ![r] = "read"]
            /\ hand' = [hand EXCEPT ![r] = [kind |-> "nothing"]]
GoesOn(r, place) == at' = [at EXCEPT ![r] = place] /\ UNCHANGED hand
ReadersMove(r, place) == /\ at[r] = place
                         /\ stale' = (stale \/ r[1] # target)
                         /\ UNCHANGED <<target, runner, conn, plan, reports, result,
                                        reason>>

HandleCase(r) == LET m == hand[r]
                 IN \/ m.kind = "caseDidStart" /\ testCaseDidStartForClass(m)
                    \/ m.kind = "caseStalled" /\ testCaseStalled(m)
                    \/ m.kind = "caseFailed" /\ testCaseFailedForClass(m)
                    \/ m.kind = "caseDidFinish" /\ testCaseDidFinishForTest(m)

\* Mutant: a new suite replaces the one that runs.
ReplaceRunning(r) ==
    /\ hand[r].kind = "suiteDidStart"
    /\ Reads(r) /\ running' = Suite(hand[r].name, <<>>)

\* A suite that still runs is finalized before the next one starts; one that
\* does not run any more cannot finish.
testSuiteDidStart(r) ==
    /\ hand[r].kind = "suiteDidStart"
    /\ IF running # NoSuite
       THEN GoesOn(r, "append") /\ UNCHANGED running
       ELSE Reads(r) /\ running' = Suite(hand[r].name, <<>>)
testSuiteFinished(r) ==
    /\ hand[r].kind = "suiteFinished"
    /\ IF findTestSuite(hand[r].name) THEN GoesOn(r, "append") ELSE Reads(r)
    /\ UNCHANGED running

DispatchCase(r) == /\ ReadersMove(r, "handle") /\ HandleCase(r) /\ Reads(r)
                   /\ UNCHANGED broken
DispatchSuite(r) == /\ ReadersMove(r, "handle") /\ (testSuiteDidStart(r) \/ testSuiteFinished(r))
                    /\ UNCHANGED <<suites, err, signal, broken>>

\* The running suite may be gone by now: the panic is recovered from.
AppendRunning(r) ==
    /\ ReadersMove(r, "append")
    /\ IF running = NoSuite
       THEN Reads(r) /\ err' = "panic" /\ UNCHANGED suites
       ELSE /\ GoesOn(r, "assign")
            /\ suites' = Append(suites, running)
            /\ UNCHANGED err
    /\ UNCHANGED <<running, signal, broken>>
AssignRunning(r) ==
    /\ ReadersMove(r, "assign") /\ Reads(r)
    /\ running' = IF hand[r].kind = "suiteDidStart" THEN Suite(hand[r].name, <<>>) ELSE NoSuite
    /\ UNCHANGED <<suites, err, signal, broken>>

\* Mutant: the end of a plan is success whatever was recorded.
ForgetError(r) ==
    /\ ReadersMove(r, "handle") /\ hand[r].kind = "planFinished"
    /\ Reads(r) /\ executionFinished /\ err' = "none"
    /\ UNCHANGED <<running, suites, broken>>

\* The reader signals the end; the panic is recovered from.
Signals(r) == /\ Reads(r) /\ executionFinished
              /\ err' = IF ClosesTwice THEN "panic" ELSE err
              /\ UNCHANGED <<running, suites, broken>>

didFinishExecutingTestPlan(r) ==
    ReadersMove(r, "handle") /\ hand[r].kind = "planFinished" /\ Signals(r)

\* The error is there before the run is over.
didFailToBootstrapWithError(r) ==
    /\ ReadersMove(r, "handle") /\ hand[r].kind = "bootstrapFailed"
    /\ err' = "bootstrap" /\ GoesOn(r, "finish")
    /\ broken' = (broken \/ r[1] = target)
    /\ UNCHANGED <<running, suites, signal>>
FinishFailed(r) == ReadersMove(r, "finish") /\ Signals(r)

\* The run goes on.
RecordDecodeError(r) ==
    /\ ReadersMove(r, "handle") /\ hand[r].kind = "garbled"
    /\ Reads(r) /\ err' = "decode"
    /\ broken' = (broken \/ r[1] = target)
    /\ UNCHANGED <<running, suites, signal>>

Dispatch(r) == \/ DispatchCase(r) \/ DispatchSuite(r) \/ AppendRunning(r) \/ AssignRunning(r)
               \/ didFinishExecutingTestPlan(r) \/ didFailToBootstrapWithError(r)
               \/ FinishFailed(r) \/ RecordDecodeError(r)

----------------------------------------------------------------------------
(* The runner: StartXCTestWithConfig's loop and the wait of each target.      *)

RunnerMoves(from, to) == /\ runner = from /\ runner' = to
                         /\ UNCHANGED <<at, hand, plan, reports, stale>>
Own(c) == <<target, c>>

\* The next target, with the first of the assignments of its reset.
NextTarget ==
    /\ runner = "next" /\ target < Targets
    /\ runner' = "reset once" /\ target' = target + 1 /\ finished' = FALSE
    /\ reason' = "none" /\ broken' = FALSE /\ stale' = FALSE /\ plan' = NewPlan
    /\ UNCHANGED <<conn, at, hand, running, suites, err, finishedOnce, reports, result>>

\* The others: a reader of an earlier target may come between any two.
reset ==
    /\ \/ /\ RunnerMoves("reset once", "reset err") /\ finishedOnce' = FALSE
          /\ UNCHANGED <<running, suites, err>>
       \/ /\ RunnerMoves("reset err", "reset suites") /\ err' = "none"
          /\ UNCHANGED <<running, suites, finishedOnce>>
       \/ /\ RunnerMoves("reset suites", "reset running") /\ suites' = <<>>
          /\ UNCHANGED <<running, err, finishedOnce>>
       \/ /\ RunnerMoves("reset running", "start") /\ running' = NoSuite
          /\ UNCHANGED <<suites, err, finishedOnce>>
    /\ UNCHANGED <<target, conn, finished, result, reason, broken>>

RunTestWithConfig ==
    /\ \/ /\ RunnerMoves("start", "waiting")
          /\ conn' = [r \in Readers |-> IF r[1] = target THEN "open" ELSE conn[r]]
          /\ result' = NoResult
       \/ /\ RunnerMoves("start", "next") /\ UNCHANGED conn
          /\ result' = [reason |-> "setup"]
    /\ UNCHANGED <<target, listener, reason, broken>>

\* Only the runner for iOS 17 takes a lost connection for an error; which one it
\* is does not change from target to target, but nothing here depends on that.
LosesConnection(c) ==
    /\ \/ RunnerMoves("waiting", "finalize") /\ broken' = TRUE
       \/ RunnerMoves("waiting", "kill") /\ UNCHANGED broken
    /\ conn[Own(c)] = "closed"
    /\ reason' = IF c = 1 THEN "lost events" ELSE "lost other"
    /\ UNCHANGED <<target, conn, listener, result>>
IsDone == /\ finished /\ RunnerMoves("waiting", "kill") /\ reason' = "done"
          /\ UNCHANGED <<target, conn, listener, result, broken>>

\* The caller cancels the context.
IsCancelled == /\ RunnerMoves("waiting", "kill") /\ reason' = "cancelled"
               /\ UNCHANGED <<target, conn, listener, result, broken>>

\* FinishWithError; a suite that vanishes after the check is dereferenced, and
\* nobody recovers from that here.
FinalizeRunning == /\ RunnerMoves("finalize", IF running = NoSuite THEN "fail" ELSE "append")
                   /\ UNCHANGED <<target, conn, listener, result, reason, broken>>
AppendUnfinished ==
    /\ RunnerMoves("append", IF running = NoSuite THEN "crashed" ELSE "fail")
    /\ suites' = IF running = NoSuite THEN suites ELSE Append(suites, running)
    /\ UNCHANGED <<target, conn, running, err, signal, result, reason, broken>>
FinishWithError ==
    /\ RunnerMoves("fail", IF ClosesTwice THEN "crashed" ELSE "kill")
    /\ running' = NoSuite /\ err' = "lost" /\ executionFinished
    /\ UNCHANGED <<target, conn, suites, result, reason, broken>>

\* The test runner is killed; whatever comes of that, the results are returned
\* and both connections closed.
ReturnsResults ==
    /\ RunnerMoves("kill", "next")
    /\ result' = [reason |-> reason, err |-> err, suites |-> suites, plan |-> plan,
                  broken |-> broken, stale |-> stale]
    /\ conn' = [r \in Readers |-> IF r[1] = target THEN "closed" ELSE conn[r]]
    /\ UNCHANGED <<target, listener, reason, broken>>

Runner == \/ NextTarget \/ reset \/ RunTestWithConfig \/ \E c \in {1, 2} : LosesConnection(c)
          \/ IsDone \/ FinalizeRunning \/ AppendUnfinished
          \/ FinishWithError \/ ReturnsResults

Over == /\ runner = "crashed" \/ (runner = "next" /\ target = Targets)
        /\ UNCHANGED vars

Next == \/ runner # "crashed" /\ (DeviceReports \/ ConnectionDrops \/ IsCancelled
                                   \/ (\E r \in Readers : Dispatch(r)) \/ Runner)
        \/ Over

Spec == Init /\ [][Next]_vars

\* A reader that holds a message goes on with it, and so does the runner.
FairSpec == Spec /\ WF_vars(Runner) /\ \A r \in Readers : WF_vars(Dispatch(r))

----------------------------------------------------------------------------
\* A target's run that met an error, a failure to bootstrap, a message that
\* could not be decoded or, on iOS 17, a lost connection, never returns nil:
\* neither another reader's message nor one of an earlier target takes the error
\* away, and the end of the run is not signalled before the error is there.
FailuresReported ==
    Returned /\ result.broken => result.err # "none"

Reported(n) == UNION {{<<s, k>> : k \in {k \in DOMAIN result.suites[s].cases :
                                           result.suites[s].cases[k].id = n}} :
                       s \in DOMAIN result.suites}
VerdictOf(p) == result.suites[p[1]].cases[p[2]].status

\* When a plan has run to its end, or the connection that reports it is lost on
\* iOS 17, every test case the device has started is in the returned suites,
\* nested and unfinished ones included, and none that failed is returned as
\* passed.  Messages of an earlier target handled since the reset began are the known
\* exception.
NoCaseLost ==
    /\ Returned /\ ~result.stale
    /\ \/ result.reason = "done" /\ result.plan.finished
       \/ result.reason = "lost events" /\ result.err = "lost"
    => \A n \in 1..result.plan.started :
         /\ Reported(n) # {}
         /\ n \in result.plan.failed => \A p \in Reported(n) : VerdictOf(p) # "passed"

\* The run of a target returns once the device has ended its plan or one of its
\* connections is closed, unless the process has crashed: no message of another
\* target, no panic and no lost race keeps the end from the runner.
RunReturns ==
    \A t \in 1..Targets :
      (target = t /\ (plan.ended \/ \E c \in {1, 2} : conn[<<t, c>>] = "closed"))
        ~> (target > t \/ runner \in {"next", "crashed"})
=============================================================================
