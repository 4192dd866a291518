--------------------------- MODULE TestRunProofs ---------------------------
(***************************************************************************)
(* What RunTestWithConfig returns for a target, for any number of targets,  *)
(* any nesting of suites and any messages: an error if its run met one, and *)
(* every test case the device has started with none that failed as passed.  *)
(***************************************************************************)
EXTENDS TestRun, SequenceTheorems, WellFoundedInduction, TLAPS

----------------------------------------------------------------------------
(* A target whose listener is still being reset has no connection yet.        *)

Resetting == {"reset once", "reset err", "reset suites", "reset running", "start"}
Unopened(r) == r[1] > target \/ (r[1] = target /\ runner \in Resetting)
IdleInv == /\ target \in 0..Targets
           /\ DOMAIN at = Readers /\ DOMAIN conn = Readers
           /\ \A r \in Readers : Unopened(r) => at[r] = "read" /\ conn[r] # "open"
           /\ runner \in Resetting => ~broken /\ target > 0

\* No step opens a connection, or breaks a run, before the listener is reset.
LEMMA IdleStep == ASSUME IdleInv, [Next]_vars PROVE IdleInv'
  <1> USE DEF IdleInv, Resetting
  <1>1. CASE DeviceReports
    <2>1. UNCHANGED <<target, runner, conn, broken>> BY <1>1 DEF DeviceReports
    <2>2. \E c \in {1, 2} : \E e : SaysOn(c, e)
      BY <1>1 DEF DeviceReports, Says, SuiteStarts, SuiteEnds, CaseStarts, CaseStalls,
                  CaseFails, CaseEnds, PlanEnds, BootstrapFails, Garbled
    <2> PICK c \in {1, 2} : \E e : SaysOn(c, e) BY <2>2
    <2> PICK x : x = <<target, c>> OBVIOUS
    <2>3. conn[x] = "open" /\ at' = [at EXCEPT ![x] = "handle"] BY DEF SaysOn
    <2>4. DOMAIN at' = Readers BY <2>3
    <2>5. \A r \in Readers : Unopened(r) => r # x BY <2>3
    <2>6. \A r \in Readers : Unopened(r) => at'[r] = at[r] BY <2>3, <2>5
    <2>7. \A r \in Readers : Unopened(r)' = Unopened(r) BY <2>1 DEF Unopened
    <2> QED BY <2>1, <2>4, <2>6, <2>7
  <1>2. CASE ConnectionDrops
    <2>1. UNCHANGED <<target, runner, at, broken>> BY <1>2 DEF ConnectionDrops
    <2>2. DOMAIN conn' = Readers /\ \A r \in Readers : conn'[r] = conn[r] \/ conn'[r] = "closed"
      BY <1>2 DEF ConnectionDrops
    <2> QED BY <2>1, <2>2 DEF Unopened
  <1>3. ASSUME NEW r \in Readers, Dispatch(r) PROVE IdleInv'
    <2>1. UNCHANGED <<target, runner, conn>> /\ at[r] # "read"
      BY <1>3 DEF Dispatch, ReadersMove, DispatchCase, DispatchSuite, AppendRunning,
                  AssignRunning, didFinishExecutingTestPlan, didFailToBootstrapWithError,
                  FinishFailed, RecordDecodeError
    <2>2. \E place : at' = [at EXCEPT ![r] = place]
      BY <1>3 DEF Dispatch, DispatchCase, DispatchSuite, AppendRunning,
                  AssignRunning, didFinishExecutingTestPlan, didFailToBootstrapWithError,
                  FinishFailed, RecordDecodeError, Signals, testSuiteDidStart,
                  testSuiteFinished, Reads, GoesOn
    <2>3. ~Unopened(r) BY <2>1
    <2>4. broken' = broken \/ broken' = (broken \/ r[1] = target)
      BY <1>3 DEF Dispatch, DispatchCase, DispatchSuite, AppendRunning,
                  AssignRunning, didFinishExecutingTestPlan, didFailToBootstrapWithError,
                  FinishFailed, RecordDecodeError, Signals
    <2>5. runner \in Resetting => ~broken' BY <2>3, <2>4 DEF Unopened
    <2>6. DOMAIN at' = Readers /\ \A x \in Readers : x # r => at'[x] = at[x] BY <2>2
    <2>7. \A x \in Readers : Unopened(x)' = Unopened(x) BY <2>1 DEF Unopened
    <2> QED BY <2>1, <2>3, <2>5, <2>6, <2>7
  <1>4. CASE NextTarget
    <2>1. target < Targets /\ target' = target + 1 /\ UNCHANGED <<conn, at>>
      BY <1>4 DEF NextTarget
    <2>2. ~broken' BY <1>4 DEF NextTarget
    <2>3. target \in 0..Targets /\ Targets \in Nat BY BoundsAssumption
    <2>4. \A r \in Readers : r[1] \in 1..Targets BY DEF Readers
    <2> HIDE DEF IdleInv
    <2>5. target' \in 0..Targets /\ target' > 0 BY <2>1, <2>3
    <2>6. \A r \in Readers : Unopened(r)' => Unopened(r)
      <3>1. target' > target BY <2>1, <2>3
      <3>2. ASSUME NEW r \in Readers, Unopened(r)' PROVE r[1] > target
        <4> PICK t \in 1..Targets : t = r[1] BY <2>4
        <4>1. t > target' \/ t = target' BY <3>2 DEF Unopened
        <4>2. t > target BY <2>3, <2>5, <3>1, <4>1
        <4> QED BY <4>2
      <3> QED BY <3>2 DEF Unopened
    <2> QED BY <2>1, <2>2, <2>5, <2>6 DEF IdleInv
  <1>5. CASE reset
    <2>1. UNCHANGED <<target, conn, at, broken>> /\ runner \in Resetting /\ runner' \in Resetting
      BY <1>5 DEF reset, RunnerMoves
    <2> QED BY <2>1 DEF Unopened
  <1>6. CASE RunTestWithConfig
    <2>1. /\ UNCHANGED <<target, at, broken>> /\ runner' \notin Resetting
          /\ \/ UNCHANGED conn
             \/ conn' = [r \in Readers |-> IF r[1] = target THEN "open" ELSE conn[r]]
      BY <1>6 DEF RunTestWithConfig, RunnerMoves
    <2>2. target \in Int /\ ~(target > target)
      <3>1. Targets \in Nat BY BoundsAssumption
      <3>2. target \in 0..Targets OBVIOUS
      <3> HIDE DEF IdleInv, Resetting
      <3> QED BY <3>1, <3>2
    <2>3. \A r \in Readers : Unopened(r)' => Unopened(r) /\ ~(r[1] = target)
      <3>1. UNCHANGED target /\ runner' \notin Resetting BY <2>1
      <3>2. ASSUME NEW r \in Readers, Unopened(r)' PROVE r[1] > target /\ r[1] # target
        <4>1. r[1] > target BY <3>1, <3>2 DEF Unopened
        <4>2. r[1] # target BY <2>2, <4>1
        <4> QED BY <4>1, <4>2
      <3> QED BY <3>2 DEF Unopened
    <2> QED BY <2>1, <2>3
  <1>7. CASE \/ (\E c \in {1, 2} : LosesConnection(c)) \/ IsDone \/ IsCancelled
             \/ FinalizeRunning \/ AppendUnfinished \/ FinishWithError
    <2>1. UNCHANGED <<target, conn, at>> /\ runner' \notin Resetting
      BY <1>7 DEF LosesConnection, IsDone, IsCancelled, FinalizeRunning, AppendUnfinished,
                  FinishWithError, RunnerMoves
    <2> QED BY <2>1 DEF Unopened
  <1>8. CASE ReturnsResults
    <2>1. /\ UNCHANGED <<target, at>> /\ runner' \notin Resetting
          /\ conn' = [r \in Readers |-> IF r[1] = target THEN "closed" ELSE conn[r]]
      BY <1>8 DEF ReturnsResults, RunnerMoves
    <2> QED BY <2>1 DEF Unopened
  <1>9. CASE UNCHANGED vars BY <1>9 DEF vars, Unopened
  <1>10. CASE Over BY <1>9, <1>10 DEF Over
  <1> QED BY <1>1, <1>2, <1>3, <1>4, <1>5, <1>6, <1>7, <1>8, <1>9, <1>10 DEF Next, Runner

\* While RunTestWithConfig resets the listener the target's connections are not open
\* yet and its run has met no error.
THEOREM IdleHolds == Spec => []IdleInv
  <1>1. Init => IdleInv
    BY BoundsAssumption DEF Init, IdleInv, Unopened, Resetting
  <1> QED BY <1>1, IdleStep, PTL DEF Spec

----------------------------------------------------------------------------
(* A run that met an error returns one.                                      *)

\* While the runner is on its way to report a lost connection, and only then, a
\* broken run may have no error yet.
ErrorPending == runner \in {"finalize", "append", "fail", "crashed"}
BrokenHasError == broken => err # "none" \/ ErrorPending
Inv == BrokenHasError /\ FailuresReported

\* The initial state has neither an error nor a result.
LEMMA InitInv == ASSUME Init PROVE Inv
  BY DEF Init, Inv, BrokenHasError, FailuresReported, Returned, NoResult

\* What the device says and what happens to its connections leaves the listener
\* and the runner alone.
LEMMA DeviceInv == ASSUME Inv, DeviceReports \/ ConnectionDrops PROVE Inv'
  <1>1. UNCHANGED <<runner, broken, err, result>>
    BY DEF DeviceReports, ConnectionDrops, listener
  <1> QED BY <1>1 DEF Inv, BrokenHasError, ErrorPending, FailuresReported, Returned

\* The reader goroutines set errors and never take one away.
LEMMA DispatchInv == ASSUME Inv, NEW r \in Readers, Dispatch(r) PROVE Inv'
  <1>1. UNCHANGED <<runner, result>>
    BY DEF Dispatch, ReadersMove, DispatchCase, DispatchSuite, AppendRunning, AssignRunning,
           didFinishExecutingTestPlan, didFailToBootstrapWithError, FinishFailed,
           RecordDecodeError
  <1>2. \/ UNCHANGED <<broken, err>>
        \/ err' # "none"
    <2>1. CASE DispatchCase(r)
      BY <2>1 DEF DispatchCase, HandleCase, testCaseDidStartForClass, testCaseStalled,
                  testCaseFailedForClass, testCaseDidFinishForTest
    <2>2. CASE DispatchSuite(r) BY <2>2 DEF DispatchSuite
    <2>3. CASE AppendRunning(r) BY <2>3 DEF AppendRunning
    <2>4. CASE AssignRunning(r) BY <2>4 DEF AssignRunning
    <2>5. CASE didFinishExecutingTestPlan(r)
      BY <2>5 DEF didFinishExecutingTestPlan, Signals
    <2>6. CASE didFailToBootstrapWithError(r) BY <2>6 DEF didFailToBootstrapWithError
    <2>7. CASE FinishFailed(r) BY <2>7 DEF FinishFailed, Signals
    <2>8. CASE RecordDecodeError(r) BY <2>8 DEF RecordDecodeError
    <2> QED BY <2>1, <2>2, <2>3, <2>4, <2>5, <2>6, <2>7, <2>8 DEF Dispatch
  <1> QED BY <1>1, <1>2
          DEF Inv, BrokenHasError, ErrorPending, FailuresReported, Returned

\* The runner takes the error away only when it is not broken, and returns a result
\* only when a pending error has become one.
LEMMA RunnerInv == ASSUME IdleInv, Inv, Runner \/ IsCancelled PROVE Inv'
  <1> USE DEF Inv, BrokenHasError, ErrorPending, RunnerMoves, listener
  <1>0. CASE NextTarget \/ reset
    <2>1. CASE NextTarget BY <2>1 DEF NextTarget, FailuresReported, Returned
    <2>2. CASE reset
      <3>1. runner \in Resetting BY <2>2 DEF reset, Resetting
      <3>2. UNCHANGED <<result, broken>> /\ ~broken BY <2>2, <3>1 DEF reset, IdleInv
      <3> QED BY <3>2 DEF FailuresReported, Returned
    <2> QED BY <1>0, <2>1, <2>2
  <1>1. CASE RunTestWithConfig
    <2>0. runner \in Resetting BY <1>1 DEF RunTestWithConfig, Resetting
    <2>1. ~broken' BY <1>1, <2>0 DEF RunTestWithConfig, IdleInv
    <2>2. result' = NoResult \/ result' = [reason |-> "setup"]
      BY <1>1 DEF RunTestWithConfig
    <2>3. ~Returned' BY <2>2 DEF Returned, NoResult
    <2> QED BY <2>1, <2>3 DEF FailuresReported
  <1>2. ASSUME NEW c \in {1, 2}, LosesConnection(c) PROVE Inv'
    <2>1. UNCHANGED <<err, result>> BY <1>2 DEF LosesConnection
    <2>2. CASE runner' = "finalize" BY <2>1, <2>2 DEF FailuresReported, Returned
    <2>3. CASE runner = "waiting" /\ UNCHANGED broken
      BY <2>1, <2>3 DEF FailuresReported, Returned
    <2>4. runner' = "finalize" \/ (runner = "waiting" /\ UNCHANGED broken)
      BY <1>2 DEF LosesConnection
    <2> QED BY <2>2, <2>3, <2>4
  <1>3. CASE IsDone BY <1>3 DEF IsDone, FailuresReported, Returned
  <1>4. CASE IsCancelled BY <1>4 DEF IsCancelled, FailuresReported, Returned
  <1>5. CASE FinalizeRunning BY <1>5 DEF FinalizeRunning, FailuresReported, Returned
  <1>6. CASE AppendUnfinished BY <1>6 DEF AppendUnfinished, FailuresReported, Returned
  <1>7. CASE FinishWithError BY <1>7 DEF FinishWithError, FailuresReported, Returned
  <1>8. CASE ReturnsResults
    <2>1. broken => err # "none" BY <1>8 DEF ReturnsResults
    <2>2. result'.broken = broken /\ result'.err = err BY <1>8 DEF ReturnsResults
    <2>3. UNCHANGED <<broken, err>> BY <1>8 DEF ReturnsResults
    <2> QED BY <2>1, <2>2, <2>3 DEF FailuresReported
  <1> QED BY <1>0, <1>1, <1>2, <1>3, <1>4, <1>5, <1>6, <1>7, <1>8 DEF Runner

\* The invariant holds throughout.
THEOREM InvHolds == Spec => []Inv
  <1>1. Init => Inv BY InitInv
  <1>2. IdleInv /\ Inv /\ [Next]_vars => Inv'
    <2> SUFFICES ASSUME IdleInv, Inv, [Next]_vars PROVE Inv' OBVIOUS
    <2>1. CASE UNCHANGED vars
      BY <2>1 DEF vars, listener, Inv, BrokenHasError, ErrorPending, FailuresReported, Returned
    <2>2. CASE Over
      BY <2>2 DEF Over, vars, listener, Inv, BrokenHasError, ErrorPending, FailuresReported,
                  Returned
    <2> QED BY <2>1, <2>2, DeviceInv, DispatchInv, RunnerInv DEF Next
  <1> QED BY <1>1, <1>2, IdleHolds, PTL DEF Spec

\* A failure to bootstrap, an undecodable message or a connection whose loss the
\* runner reports is never returned as success by testmanagerd's
\* RunTestWithConfig, whatever else is dispatched meanwhile.
THEOREM FailuresAreReported == Spec => []FailuresReported
  <1>1. Inv => FailuresReported BY DEF Inv
  <1> QED BY <1>1, InvHolds, PTL

----------------------------------------------------------------------------
(* Suites with one case changed or added, and the case a message is about.    *)

\* A set of indices that has a member has a last one.
LEMMA LastIndex ==
    ASSUME NEW n \in Nat, NEW S, S \subseteq 1..n, S # {}
    PROVE  \E i \in S : \A j \in i + 1..n : j \notin S
  <1> DEFINE T == {n - i : i \in S}
             R == OpToRel(<, Nat)
  <1>1. T \subseteq Nat /\ T # {}
    <2>1. \A i \in S : n - i \in Nat OBVIOUS
    <2>2. T \subseteq Nat BY <2>1, Zenon
    <2>3. T # {} BY Zenon
    <2> QED BY <2>2, <2>3
  <1>2. PICK x \in T : \A y \in T : ~(<<y, x>> \in R)
    <2> HIDE DEF T
    <2> QED BY <1>1, WFMin, NatLessThanWellFounded
  <1>3. PICK i \in S : x = n - i OBVIOUS
  <1>4. ASSUME NEW j \in i + 1..n, j \in S PROVE FALSE
    <2>1. n - j \in T BY <1>4
    <2>2. n - j \in Nat /\ x \in Nat /\ n - j < x
      <3>1. n \in Nat /\ i \in 1..n BY <1>3
      <3>2. j \in i + 1..n BY <1>4
      <3> HIDE DEF T, R
      <3> QED BY <1>3, <3>1, <3>2
    <2>3. <<n - j, x>> \in R BY <2>2 DEF OpToRel
    <2> HIDE DEF T, R
    <2> QED BY <1>2, <2>1, <2>3
  <1> QED BY <1>4

\* findTestCase returns nil or a case of the running suite with the class and
\* the method of the message.
LEMMA FindsSame ==
    ASSUME running \in Suites \union {NoSuite}, NEW m, findTestCase(m) # 0
    PROVE  /\ running \in Suites /\ running # NoSuite
           /\ findTestCase(m) \in 1..Len(running.cases)
           /\ Same(findTestCase(m), m)
  <1> DEFINE last == Len(running.cases)
             Open(i) == Same(i, m) /\ running.cases[i].status = "none"
  <1>1. running # NoSuite /\ running.cases # <<>> BY DEF findTestCase
  <1>2. running \in Suites BY <1>1
  <1>3. running.cases \in Seq(Cases) BY <1>2 DEF Suites
  <1>4. last \in Nat /\ last \in 1..last BY <1>1, <1>3
  <1>5. CASE findTestSuite(m.class) /\ Same(last, m)
    <2>1. findTestCase(m) = last BY <1>1, <1>5 DEF findTestCase
    <2> QED BY <1>1, <1>2, <1>4, <1>5, <2>1
  <1>6. CASE ~(findTestSuite(m.class) /\ Same(last, m))
    <2>1. \E i \in 1..last : Open(i) BY <1>1, <1>6 DEF findTestCase
    <2>2. findTestCase(m) = CHOOSE i \in 1..last : Open(i) /\ \A j \in i + 1..last : ~Open(j)
      BY <1>1, <1>6, <2>1 DEF findTestCase
    <2> DEFINE S == {i \in 1..last : Open(i)}
    <2> HIDE DEF Open
    <2>3. \E i \in S : \A j \in i + 1..last : j \notin S
      <3>1. S # {} /\ S \subseteq 1..last BY <2>1
      <3> HIDE DEF S, last
      <3> QED BY <1>4, <3>1, LastIndex
    <2>4. \E i \in 1..last : Open(i) /\ \A j \in i + 1..last : ~Open(j)
      <3>1. PICK i \in S : \A j \in i + 1..last : j \notin S BY <2>3
      <3>2. i \in 1..last /\ Open(i) OBVIOUS
      <3>3. ASSUME NEW j \in i + 1..last PROVE ~Open(j)
        <4>1. j \in 1..last BY <1>4, <3>2
        <4> QED BY <3>1, <4>1
      <3> QED BY <3>2, <3>3
    <2>5. findTestCase(m) \in 1..last /\ Open(findTestCase(m)) BY <2>2, <2>4
    <2> QED BY <1>1, <1>2, <2>5 DEF Open
  <1> QED BY <1>5, <1>6

\* A verdict is set on one case; the others and their names stay.
Marked(run, i, status) == [run EXCEPT !.cases[i].status = status]

LEMMA WithStatus ==
    ASSUME NEW run \in Suites, NEW i \in 1..Len(run.cases),
           NEW status \in {"none", "stalled", "failed", "passed"},
           NEW new, new = Marked(run, i, status)
    PROVE  /\ new \in Suites /\ new.name = run.name
           /\ Len(new.cases) = Len(run.cases)
           /\ \A k \in 1..Len(run.cases) : new.cases[k].id = run.cases[k].id
           /\ \A k \in 1..Len(run.cases) : k # i => new.cases[k] = run.cases[k]
           /\ new.cases[i].status = status
  <1>1. run.name \in Names /\ run.cases \in Seq(Cases) BY DEF Suites
  <1> DEFINE c == [run.cases[i] EXCEPT !.status = status]
             cases == [run.cases EXCEPT ![i] = c]
  <1>2. new = [run EXCEPT !.cases = cases] BY DEF Marked
  <1>3. c = [run.cases[i] EXCEPT !.status = status] OBVIOUS
  <1> HIDE DEF c
  <1>4. cases = [run.cases EXCEPT ![i] = c] OBVIOUS
  <1> HIDE DEF cases
  <1>5. /\ cases \in Seq(Cases) /\ Len(cases) = Len(run.cases)
        /\ \A k \in 1..Len(run.cases) : cases[k].id = run.cases[k].id
        /\ \A k \in 1..Len(run.cases) : k # i => cases[k] = run.cases[k]
        /\ cases[i].status = status
    <2>1. run.cases[i] \in Cases BY <1>1, ElementOfSeq
    <2>2. c \in Cases BY <1>3, <2>1 DEF Cases
    <2>3. c.id = run.cases[i].id /\ c.status = status BY <1>3, <2>1 DEF Cases
    <2>4. /\ cases \in Seq(Cases) /\ Len(cases) = Len(run.cases) /\ cases[i] = c
          /\ \A k \in 1..Len(run.cases) : k # i => cases[k] = run.cases[k]
      <3>1. cases = [k \in 1..Len(run.cases) |-> IF k = i THEN c ELSE run.cases[k]]
        BY <1>1, <1>4
      <3>2. \A k \in 1..Len(run.cases) : run.cases[k] \in Cases BY <1>1, ElementOfSeq
      <3>3. Len(run.cases) \in Nat BY <1>1
      <3> QED BY <3>1, <3>2, <3>3, <2>2
    <2> QED BY <2>3, <2>4
  <1>6. new.cases = cases /\ new.name = run.name /\ new \in Suites
    BY <1>1, <1>2, <1>5 DEF Suites
  <1> QED BY <1>5, <1>6

\* A case is added at the end.
LEMMA WithCase ==
    ASSUME NEW run \in Suites, NEW case \in Cases,
           NEW new, new = [run EXCEPT !.cases = Append(@, case)]
    PROVE  /\ new \in Suites /\ new.name = run.name
           /\ Len(new.cases) = Len(run.cases) + 1
           /\ \A k \in 1..Len(run.cases) : new.cases[k] = run.cases[k]
           /\ new.cases[Len(run.cases) + 1] = case
  <1>1. run.name \in Names /\ run.cases \in Seq(Cases) BY DEF Suites
  <1> DEFINE cases == Append(run.cases, case)
  <1>2. /\ cases \in Seq(Cases) /\ Len(cases) = Len(run.cases) + 1
        /\ \A k \in 1..Len(run.cases) : cases[k] = run.cases[k]
        /\ cases[Len(run.cases) + 1] = case
    BY <1>1
  <1>3. new = [run EXCEPT !.cases = cases] OBVIOUS
  <1> HIDE DEF cases
  <1>4. new.cases = cases /\ new.name = run.name /\ new \in Suites
    BY <1>1, <1>2, <1>3 DEF Suites
  <1> QED BY <1>2, <1>4

----------------------------------------------------------------------------
(* What the runner, the readers and the device agree on.                      *)

Plans == [open : Seq(Names), started : Nat, class : Classes \union {NoSuite},
          failed : SUBSET Nat, finished : BOOLEAN, ended : BOOLEAN]

InSuites(n) == \E s \in 1..Len(suites) : \E k \in 1..Len(suites[s].cases) :
                  suites[s].cases[k].id = n
InRunning(n) == running # NoSuite /\ \E k \in 1..Len(running.cases) : running.cases[k].id = n

Honest(c) == /\ c.id <= plan.started
             /\ c.status = "passed" => /\ c.id \notin plan.failed
                                       /\ c.id < plan.started \/ plan.class = NoSuite
HonestSuite(s) == \A k \in 1..Len(s.cases) : Honest(s.cases[k])

ListenerInv ==
    /\ running \in Suites \union {NoSuite} /\ suites \in Seq(Suites)
    /\ running # NoSuite => HonestSuite(running)
    /\ \A s \in 1..Len(suites) : HonestSuite(suites[s])

Genuine(m) ==
    \/ m.kind = "suiteDidStart" /\ plan.open # <<>> /\ m.name = plan.open[Len(plan.open)]
    \/ m.kind = "suiteFinished" /\ m.name \in Names
    \/ /\ m.kind \in {"caseDidStart", "caseStalled", "caseFailed"}
       /\ m.class \in Classes /\ m.id = plan.started
    \/ /\ m.kind = "caseDidFinish" /\ m.class \in Classes /\ m.id = plan.started
       /\ plan.class = NoSuite /\ m.status \in {"failed", "passed"}
       /\ m.status = "passed" => m.id \notin plan.failed
    \/ m.kind = "planFinished" /\ plan.finished
    \/ m.kind = "bootstrapFailed" /\ plan.ended /\ ~plan.finished
    \/ m.kind = "garbled"

HandsInv ==
    /\ \A c \in {1, 2} :
          /\ at[Own(c)] # "read" => Genuine(hand[Own(c)])
          /\ at[Own(c)] = "finish" => hand[Own(c)].kind = "bootstrapFailed"
          /\ at[Own(c)] \in {"append", "assign"} =>
                hand[Own(c)].kind \in {"suiteDidStart", "suiteFinished"}
    /\ at[Own(1)] # "read" /\ plan.finished => hand[Own(1)].kind = "planFinished"
    /\ at[Own(2)] # "read" => hand[Own(2)].kind \in {"bootstrapFailed", "garbled"}

AllRecorded ==
    \A n \in 1..plan.started :
       \/ InSuites(n)
       \/ InRunning(n) /\ at[Own(1)] # "assign"
       \/ at[Own(1)] = "handle" /\ hand[Own(1)].kind = "caseDidStart" /\ n = plan.started

Handling(kind) == at[Own(1)] # "read" /\ hand[Own(1)].kind = kind
RunningMatch ==
    running # NoSuite =>
       \/ /\ Handling("suiteDidStart")
          /\ Len(plan.open) > 1 /\ running.name = plan.open[Len(plan.open) - 1]
       \/ Handling("suiteFinished") /\ running.name = hand[Own(1)].name
       \/ /\ ~Handling("suiteDidStart") /\ ~Handling("suiteFinished")
          /\ plan.open # <<>> /\ running.name = plan.open[Len(plan.open)]

EndInv == /\ plan.finished => plan.ended /\ plan.open = <<>>
          /\ finished => plan.ended /\ (plan.finished => at[Own(1)] = "read")
          /\ reason = "done" => finished

Mine == target > 0 /\ ~stale /\ reason \in {"none", "done"} /\ runner \notin Resetting
Lost == target > 0 /\ ~stale /\ reason = "lost events" /\ runner # "next"

Agreed == ListenerInv /\ HandsInv /\ AllRecorded /\ RunningMatch /\ EndInv
MineInv == Mine => Agreed
Closing ==
    /\ ListenerInv /\ conn[Own(1)] = "closed"
    /\ at[Own(2)] # "read" => hand[Own(2)].kind \in {"bootstrapFailed", "garbled"}
    /\ at[Own(2)] \in {"read", "handle", "finish"}
    /\ runner \in {"finalize", "append"} =>
          \A n \in 1..plan.started : InSuites(n) \/ InRunning(n)
    /\ runner = "fail" \/ (runner = "kill" /\ err = "lost") =>
          \A n \in 1..plan.started : InSuites(n)
LostInv == Lost => Closing

\* Where no error of a lost connection can be recorded.
Expecting == {"reset suites", "reset running", "start", "waiting", "finalize", "append", "fail"}

BaseInv ==
    /\ target \in 0..Targets /\ plan \in Plans /\ stale \in BOOLEAN
    /\ at \in [Readers -> {"read", "handle", "append", "assign", "finish"}]
    /\ DOMAIN hand = Readers /\ DOMAIN conn = Readers
    /\ \A r \in Readers : r[1] > target => at[r] = "read"
    /\ target > 0 /\ conn[Own(1)] = "closed" /\ runner # "next" => at[Own(1)] = "read"
    /\ runner \in Expecting => err # "lost"
    /\ runner # "next" => target > 0
    /\ runner = "waiting" => reason = "none"
    /\ runner \in {"finalize", "append", "fail"} => reason \in {"lost events", "lost other"}

\* As far as the reset has come, the listener is as new, unless a reader of an
\* earlier target has come between.
ResetInv ==
    runner \in Resetting =>
       /\ plan = NewPlan /\ reason = "none"
       /\ ~stale => /\ ~finished
                    /\ runner \in {"reset running", "start"} => suites = <<>>
                    /\ runner = "start" => running = NoSuite

CaseInv == BaseInv /\ ResetInv /\ MineInv /\ LostInv /\ NoCaseLost

\* No case leaves the listener and none becomes a passed one that failed.
Grows == /\ ListenerInv'
         /\ running' = NoSuite <=> running = NoSuite
         /\ running # NoSuite => running'.name = running.name
         /\ \A n : InSuites(n) => InSuites(n)'
         /\ \A n : InRunning(n) => InRunning(n)'

LEMMA NoGrowth == ASSUME ListenerInv, UNCHANGED <<running, suites, plan>> PROVE Grows
  BY DEF Grows, ListenerInv, HonestSuite, Honest, InSuites, InRunning

\* A verdict that is not a wrong "passed" is set on a case of the running suite.
LEMMA StatusGrows ==
    ASSUME ListenerInv, running \in Suites, UNCHANGED <<suites, plan>>,
           NEW i \in 1..Len(running.cases),
           NEW status \in {"none", "stalled", "failed", "passed"}, SetStatus(i, status),
           status = "passed" => running.cases[i].id \notin plan.failed /\ plan.class = NoSuite
    PROVE  Grows
  <1> PICK new : new = Marked(running, i, status) OBVIOUS
  <1>1. running' = new BY DEF SetStatus, Marked
  <1>2. /\ new \in Suites /\ new.name = running.name
        /\ Len(new.cases) = Len(running.cases)
        /\ \A k \in 1..Len(running.cases) : new.cases[k].id = running.cases[k].id
        /\ \A k \in 1..Len(running.cases) : k # i => new.cases[k] = running.cases[k]
        /\ new.cases[i].status = status
    BY WithStatus
  <1>3. running # NoSuite /\ new # NoSuite BY <1>2, NilAssumption
  <1>4. ASSUME NEW k \in 1..Len(new.cases) PROVE Honest(new.cases[k])
    <2>1. Honest(running.cases[k]) BY <1>2, <1>3, <1>4 DEF ListenerInv, HonestSuite
    <2>2. CASE k = i BY <1>2, <2>1, <2>2 DEF Honest
    <2>3. CASE k # i BY <1>2, <2>1, <2>3
    <2> QED BY <2>2, <2>3
  <1>5. ListenerInv'
    <2>1. HonestSuite(new) BY <1>4 DEF HonestSuite
    <2> QED BY <1>1, <1>2, <2>1 DEF ListenerInv, HonestSuite, Honest
  <1>6. \A n : InRunning(n) => InRunning(n)' BY <1>1, <1>2, <1>3 DEF InRunning
  <1> QED BY <1>1, <1>2, <1>3, <1>5, <1>6 DEF Grows, InSuites

\* A case without a verdict, or a failed one, is added to the running suite.
LEMMA CaseGrows ==
    ASSUME ListenerInv, running \in Suites, UNCHANGED <<suites, plan>>,
           NEW case \in Cases, AddCase(case), Honest(case)
    PROVE  Grows /\ \A n : n = case.id => InRunning(n)'
  <1> PICK new : new = [running EXCEPT !.cases = Append(@, case)] OBVIOUS
  <1>1. running' = new BY DEF AddCase
  <1>2. /\ new \in Suites /\ new.name = running.name
        /\ Len(new.cases) = Len(running.cases) + 1
        /\ \A k \in 1..Len(running.cases) : new.cases[k] = running.cases[k]
        /\ new.cases[Len(running.cases) + 1] = case
    BY WithCase
  <1>3. running # NoSuite /\ new # NoSuite BY <1>2, NilAssumption
  <1>4. Len(running.cases) \in Nat BY DEF Suites
  <1>5. ASSUME NEW k \in 1..Len(new.cases) PROVE Honest(new.cases[k])
    <2>1. CASE k = Len(running.cases) + 1 BY <1>2, <2>1
    <2>2. CASE k # Len(running.cases) + 1
      <3>1. k \in 1..Len(running.cases) BY <1>2, <1>4, <1>5, <2>2
      <3> QED BY <1>2, <1>3, <3>1 DEF ListenerInv, HonestSuite
    <2> QED BY <2>1, <2>2
  <1>6. ListenerInv'
    <2>1. HonestSuite(new) BY <1>5 DEF HonestSuite
    <2> QED BY <1>1, <1>2, <2>1 DEF ListenerInv, HonestSuite, Honest
  <1>7. ASSUME NEW n, InRunning(n) PROVE InRunning(n)'
    <2>1. PICK k \in 1..Len(running.cases) : running.cases[k].id = n BY <1>7 DEF InRunning
    <2>2. k \in 1..Len(new.cases) /\ new.cases[k].id = n BY <1>2, <1>4, <2>1
    <2> QED BY <1>1, <1>3, <2>2 DEF InRunning
  <1>8. ASSUME NEW n, n = case.id PROVE InRunning(n)'
    <2>1. Len(running.cases) + 1 \in 1..Len(new.cases) BY <1>2, <1>4
    <2> QED BY <1>1, <1>2, <1>3, <1>8, <2>1 DEF InRunning
  <1> QED BY <1>1, <1>2, <1>3, <1>6, <1>7, <1>8 DEF Grows, InSuites

\* A suite is added to the finished ones.
LEMMA SuiteGrows ==
    ASSUME ListenerInv, UNCHANGED plan, NEW s \in Suites, HonestSuite(s),
           suites' = Append(suites, s), UNCHANGED running
    PROVE  Grows /\ \A k \in 1..Len(s.cases) : \A n : n = s.cases[k].id => InSuites(n)'
  <1>1. suites \in Seq(Suites) BY DEF ListenerInv
  <1>2. /\ suites' \in Seq(Suites) /\ Len(suites') = Len(suites) + 1
        /\ \A i \in 1..Len(suites) : suites'[i] = suites[i]
        /\ suites'[Len(suites) + 1] = s /\ Len(suites) \in Nat
    BY <1>1
  <1>3. ASSUME NEW i \in 1..Len(suites') PROVE HonestSuite(suites'[i])
    <2>1. CASE i = Len(suites) + 1 BY <1>2, <2>1
    <2>2. CASE i # Len(suites) + 1
      <3>1. i \in 1..Len(suites) BY <1>2, <1>3, <2>2
      <3> QED BY <1>2, <3>1 DEF ListenerInv
    <2> QED BY <2>1, <2>2
  <1>4. ListenerInv' BY <1>2, <1>3 DEF ListenerInv, HonestSuite, Honest
  <1>5. \A n : InSuites(n) => InSuites(n)' BY <1>2 DEF InSuites
  <1>6. \A n : InRunning(n) => InRunning(n)' BY DEF InRunning
  <1>7. ASSUME NEW k \in 1..Len(s.cases), NEW n, n = s.cases[k].id PROVE InSuites(n)'
    BY <1>2, <1>7 DEF InSuites
  <1> QED BY <1>4, <1>5, <1>6, <1>7 DEF Grows

\* A message about the case the device is at, or has just ended, keeps what the
\* listener has recorded and records a case that starts.
LEMMA CaseHandled ==
    ASSUME plan \in Plans, ListenerInv, UNCHANGED plan,
           NEW r, Genuine(hand[r]), HandleCase(r)
    PROVE  /\ Grows /\ UNCHANGED <<err, finished>>
           /\ hand[r].kind = "caseDidStart" =>
                 \A n : n = plan.started => InSuites(n)' \/ InRunning(n)'
  <1> PICK m : m = hand[r] OBVIOUS
  <1>1. /\ m.kind \in {"caseDidStart", "caseStalled", "caseFailed", "caseDidFinish"}
        /\ m.class \in Classes /\ m.id = plan.started /\ m.id \in Nat
    BY DEF HandleCase, Genuine, Plans
  <1> DEFINE case == Case(m.class, m.id)
             failed == [Case(m.class, m.id) EXCEPT !.status = "failed"]
  <1>2. /\ case \in Cases /\ case.id = m.id /\ case.status = "none"
        /\ failed \in Cases /\ failed.id = m.id /\ failed.status = "failed"
    BY <1>1 DEF Case, Cases
  <1>3. Honest(case) /\ Honest(failed)
    <2> HIDE DEF case, failed
    <2> QED BY <1>1, <1>2 DEF Honest
  <1>4. running = NoSuite \/ running \in Suites BY DEF ListenerInv
  <1>5. CASE m.kind = "caseDidStart" /\ testCaseDidStartForClass(m)
    <2>1. CASE running # NoSuite
      <3>1. AddCase(case) /\ UNCHANGED suites /\ UNCHANGED <<err, finished>>
        BY <1>5, <2>1 DEF testCaseDidStartForClass, signal
      <3> HIDE DEF case
      <3>2. Grows /\ \A n : n = case.id => InRunning(n)' BY <1>2, <1>3, <1>4, <2>1, <3>1, CaseGrows
      <3> QED BY <1>1, <1>2, <3>1, <3>2
    <2>2. CASE running = NoSuite
      <3> DEFINE s == Suite(m.class, <<case>>)
      <3>1. suites' = Append(suites, s) /\ UNCHANGED <<running, err, finished>>
        BY <1>5, <2>2 DEF testCaseDidStartForClass, signal
      <3> HIDE DEF case
      <3>2. s.cases = <<case>> /\ s \in Suites BY <1>1, <1>2 DEF Suite, Suites, Names
      <3> HIDE DEF s
      <3>3. 1 \in 1..Len(s.cases) /\ s.cases[1] = case
            /\ \A k \in 1..Len(s.cases) : s.cases[k] = case
        BY <3>2
      <3>4. HonestSuite(s) BY <1>3, <3>3 DEF HonestSuite
      <3>5. Grows /\ \A k \in 1..Len(s.cases) : \A n : n = s.cases[k].id => InSuites(n)'
        BY <3>1, <3>2, <3>4, SuiteGrows
      <3>6. \A n : n = case.id => InSuites(n)' BY <3>3, <3>5
      <3> QED BY <1>1, <1>2, <3>1, <3>5, <3>6
    <2> QED BY <2>1, <2>2
  <1>6. CASE m.kind = "caseStalled" /\ testCaseStalled(m)
    <2>1. UNCHANGED <<suites, err, finished>> BY <1>6 DEF testCaseStalled, signal
    <2>2. CASE findTestCase(m) = 0
      <3>1. UNCHANGED running BY <1>6, <2>2 DEF testCaseStalled
      <3> QED BY <1>6, <2>1, <3>1, NoGrowth
    <2>3. CASE findTestCase(m) # 0
      <3>1. SetStatus(findTestCase(m), "stalled") BY <1>6, <2>3 DEF testCaseStalled
      <3>2. running \in Suites /\ findTestCase(m) \in 1..Len(running.cases)
        BY <1>4, <2>3, FindsSame
      <3> QED BY <1>6, <2>1, <3>1, <3>2, StatusGrows
    <2> QED BY <2>2, <2>3
  <1>7. CASE m.kind = "caseFailed" /\ testCaseFailedForClass(m)
    <2>1. UNCHANGED <<suites, err, finished>> BY <1>7 DEF testCaseFailedForClass, signal
    <2>2. CASE findTestCase(m) = 0 /\ running = NoSuite
      <3>1. UNCHANGED running BY <1>7, <2>2 DEF testCaseFailedForClass
      <3> QED BY <1>7, <2>1, <3>1, NoGrowth
    <2>3. CASE findTestCase(m) = 0 /\ running # NoSuite
      <3>1. AddCase(failed) BY <1>7, <2>3 DEF testCaseFailedForClass
      <3> HIDE DEF failed
      <3>2. Grows BY <1>2, <1>3, <1>4, <2>1, <2>3, <3>1, CaseGrows
      <3> QED BY <1>7, <2>1, <3>2
    <2>4. CASE findTestCase(m) # 0
      <3>1. SetStatus(findTestCase(m), "failed") BY <1>7, <2>4 DEF testCaseFailedForClass
      <3>2. running \in Suites /\ findTestCase(m) \in 1..Len(running.cases)
        BY <1>4, <2>4, FindsSame
      <3> QED BY <1>7, <2>1, <3>1, <3>2, StatusGrows
    <2> QED BY <2>2, <2>3, <2>4
  <1>8. CASE m.kind = "caseDidFinish" /\ testCaseDidFinishForTest(m)
    <2> PICK i : i = findTestCase(m) OBVIOUS
    <2>1. UNCHANGED <<suites, err, finished>> BY <1>8 DEF testCaseDidFinishForTest, signal
    <2>2. CASE ~(i # 0 /\ running.cases[i].status # "stalled")
      <3>1. UNCHANGED running BY <1>8, <2>2 DEF testCaseDidFinishForTest
      <3> QED BY <1>8, <2>1, <3>1, NoGrowth
    <2>3. CASE i # 0 /\ running.cases[i].status # "stalled"
      <3>1. SetStatus(i, m.status) BY <1>8, <2>3 DEF testCaseDidFinishForTest
      <3>2. running \in Suites /\ i \in 1..Len(running.cases) /\ Same(i, m)
        BY <1>4, <2>3, FindsSame
      <3>3. /\ plan.class = NoSuite /\ m.status \in {"failed", "passed"}
            /\ m.status = "passed" => m.id \notin plan.failed
        BY <1>8 DEF Genuine
      <3>4. running.cases[i].id = m.id BY <3>2 DEF Same
      <3>5. Grows BY <2>1, <3>1, <3>2, <3>3, <3>4, StatusGrows
      <3> QED BY <1>8, <2>1, <3>5
    <2> QED BY <2>2, <2>3
  <1> QED BY <1>5, <1>6, <1>7, <1>8 DEF HandleCase

----------------------------------------------------------------------------
(* The readers.                                                              *)

LEMMA OwnReaders ==
    ASSUME BaseInv
    PROVE  /\ target > 0 => Own(1) \in Readers /\ Own(2) \in Readers
           /\ Own(1) # Own(2)
           /\ \A r \in Readers : r[1] = target => r = Own(1) \/ r = Own(2)
  <1>1. target \in 0..Targets BY DEF BaseInv
  <1>2. target > 0 => target \in 1..Targets BY <1>1, BoundsAssumption
  <1>3. target > 0 => Own(1) \in Readers /\ Own(2) \in Readers BY <1>2 DEF Own, Readers
  <1>4. Own(1) # Own(2) BY DEF Own
  <1>5. \A r \in Readers : r[1] = target => r = Own(1) \/ r = Own(2) BY DEF Own, Readers
  <1> QED BY <1>3, <1>4, <1>5

\* A dispatched message moves its reader only, and makes the run stale if it is
\* another target's.
LEMMA ReaderMoves ==
    ASSUME BaseInv, NEW r \in Readers, Dispatch(r)
    PROVE  /\ UNCHANGED <<target, runner, conn, plan, reports, result, reason>>
           /\ stale' = (stale \/ r[1] # target)
           /\ at[r] # "read"
           /\ \A x \in Readers : x # r => at'[x] = at[x] /\ hand'[x] = hand[x]
           /\ DOMAIN hand' = Readers
           /\ at' \in [Readers -> {"read", "handle", "append", "assign", "finish"}]
           /\ \/ at'[r] = "read"
              \/ at'[r] \in {"append", "assign", "finish"} /\ UNCHANGED hand
           /\ err' = err \/ err' \in {"panic", "bootstrap", "decode"}
  <1>1. /\ UNCHANGED <<target, runner, conn, plan, reports, result, reason>>
        /\ stale' = (stale \/ r[1] # target)
        /\ at[r] # "read"
    BY DEF Dispatch, ReadersMove, DispatchCase, DispatchSuite, AppendRunning, AssignRunning,
           didFinishExecutingTestPlan, didFailToBootstrapWithError, FinishFailed,
           RecordDecodeError
  <1>2. Reads(r) \/ \E place \in {"append", "assign", "finish"} : GoesOn(r, place)
    BY DEF Dispatch, ReadersMove, DispatchCase, DispatchSuite, AppendRunning, AssignRunning,
           didFinishExecutingTestPlan, didFailToBootstrapWithError, FinishFailed,
           RecordDecodeError, Signals, testSuiteDidStart, testSuiteFinished
  <1>3. at \in [Readers -> {"read", "handle", "append", "assign", "finish"}] /\ DOMAIN hand = Readers
    BY DEF BaseInv
  <1>4. /\ \A x \in Readers : x # r => at'[x] = at[x] /\ hand'[x] = hand[x]
        /\ DOMAIN hand' = Readers
        /\ at' \in [Readers -> {"read", "handle", "append", "assign", "finish"}]
        /\ \/ at'[r] = "read"
           \/ at'[r] \in {"append", "assign", "finish"} /\ UNCHANGED hand
    <2>1. CASE Reads(r) BY <1>3, <2>1 DEF Reads
    <2>2. ASSUME NEW place \in {"append", "assign", "finish"}, GoesOn(r, place)
          PROVE  <1>4
      BY <1>3, <2>2 DEF GoesOn
    <2> QED BY <1>2, <2>1, <2>2
  <1>5. err' = err \/ err' \in {"panic", "bootstrap", "decode"}
    <2>1. CASE DispatchCase(r)
      BY <2>1 DEF DispatchCase, HandleCase, testCaseDidStartForClass, testCaseStalled,
                  testCaseFailedForClass, testCaseDidFinishForTest
    <2>2. CASE DispatchSuite(r) BY <2>2 DEF DispatchSuite
    <2>3. CASE AppendRunning(r) BY <2>3 DEF AppendRunning
    <2>4. CASE AssignRunning(r) BY <2>4 DEF AssignRunning
    <2>5. CASE didFinishExecutingTestPlan(r)
      BY <2>5 DEF didFinishExecutingTestPlan, Signals
    <2>6. CASE didFailToBootstrapWithError(r) BY <2>6 DEF didFailToBootstrapWithError
    <2>7. CASE FinishFailed(r) BY <2>7 DEF FinishFailed, Signals
    <2>8. CASE RecordDecodeError(r) BY <2>8 DEF RecordDecodeError
    <2> QED BY <2>1, <2>2, <2>3, <2>4, <2>5, <2>6, <2>7, <2>8 DEF Dispatch
  <1> QED BY <1>1, <1>4, <1>5

LEMMA DispatchBase == ASSUME BaseInv, NEW r \in Readers, Dispatch(r) PROVE BaseInv'
  <1>1. /\ UNCHANGED <<target, runner, conn, plan, reports, result, reason>>
        /\ stale' = (stale \/ r[1] # target)
        /\ at[r] # "read"
        /\ \A x \in Readers : x # r => at'[x] = at[x]
        /\ DOMAIN hand' = Readers
        /\ at' \in [Readers -> {"read", "handle", "append", "assign", "finish"}]
        /\ err' = err \/ err' \in {"panic", "bootstrap", "decode"}
    BY ReaderMoves
  <1>2. \A x \in Readers : x[1] > target' => at'[x] = "read" BY <1>1 DEF BaseInv
  <1>3. target > 0 => Own(1) \in Readers BY OwnReaders
  <1>4. target > 0 /\ conn[Own(1)] = "closed" /\ runner # "next" => at'[Own(1)] = "read"
    BY <1>1, <1>3 DEF BaseInv
  <1>5. Own(1)' = Own(1) BY <1>1 DEF Own
  <1>6. runner \in Expecting => err' # "lost" BY <1>1 DEF BaseInv
  <1> QED BY <1>1, <1>2, <1>4, <1>5, <1>6 DEF BaseInv

\* The messages the readers hold stay the ones the device has sent.
LEMMA DispatchHands ==
    ASSUME BaseInv, NEW r \in Readers, Dispatch(r), r[1] = target, target > 0, HandsInv
    PROVE  HandsInv'
  <1> PICK a, b : a = Own(1) /\ b = Own(2) OBVIOUS
  <1>1. /\ UNCHANGED <<target, plan>> /\ at[r] # "read"
        /\ \A x \in Readers : x # r => at'[x] = at[x] /\ hand'[x] = hand[x]
        /\ \/ at'[r] = "read"
           \/ at'[r] \in {"append", "assign", "finish"} /\ UNCHANGED hand
    BY ReaderMoves
  <1>2. a \in Readers /\ b \in Readers /\ a # b /\ (r = a \/ r = b) BY OwnReaders
  <1>3. Own(1)' = a /\ Own(2)' = b BY <1>1 DEF Own
  <1>4. /\ at'[r] = "finish" => hand[r].kind = "bootstrapFailed"
        /\ at'[r] \in {"append", "assign"} => hand[r].kind \in {"suiteDidStart", "suiteFinished"}
    <2>0. at \in [Readers -> {"read", "handle", "append", "assign", "finish"}] BY DEF BaseInv
    <2>1. CASE DispatchCase(r) BY <2>0, <2>1 DEF DispatchCase, Reads
    <2>2. CASE DispatchSuite(r)
      BY <2>0, <2>2 DEF DispatchSuite, testSuiteDidStart, testSuiteFinished, Reads, GoesOn
    <2>3. CASE AppendRunning(r)
      <3>1. hand[r].kind \in {"suiteDidStart", "suiteFinished"}
        BY <1>2, <2>3 DEF AppendRunning, ReadersMove, HandsInv
      <3> QED BY <2>0, <2>3, <3>1 DEF AppendRunning, Reads, GoesOn
    <2>4. CASE AssignRunning(r) BY <2>0, <2>4 DEF AssignRunning, Reads
    <2>5. CASE didFinishExecutingTestPlan(r)
      BY <2>0, <2>5 DEF didFinishExecutingTestPlan, Signals, Reads
    <2>6. CASE didFailToBootstrapWithError(r)
      BY <2>0, <2>6 DEF didFailToBootstrapWithError, GoesOn
    <2>7. CASE FinishFailed(r) BY <2>0, <2>7 DEF FinishFailed, Signals, Reads
    <2>8. CASE RecordDecodeError(r) BY <2>0, <2>8 DEF RecordDecodeError, Reads
    <2> QED BY <2>1, <2>2, <2>3, <2>4, <2>5, <2>6, <2>7, <2>8 DEF Dispatch
  <1>5. ASSUME NEW m, Genuine(m) PROVE Genuine(m)' BY <1>1, <1>5 DEF Genuine
  <1>6. ASSUME NEW x \in {a, b}
        PROVE  /\ at'[x] # "read" => Genuine(hand[x]) /\ hand'[x] = hand[x]
               /\ at'[x] = "finish" => hand[x].kind = "bootstrapFailed"
               /\ at'[x] \in {"append", "assign"} =>
                     hand[x].kind \in {"suiteDidStart", "suiteFinished"}
    <2>1. /\ at[x] # "read" => Genuine(hand[x])
          /\ at[x] = "finish" => hand[x].kind = "bootstrapFailed"
          /\ at[x] \in {"append", "assign"} => hand[x].kind \in {"suiteDidStart", "suiteFinished"}
      BY DEF HandsInv
    <2>2. CASE x = r BY <1>1, <1>4, <2>1, <2>2
    <2>3. CASE x # r BY <1>1, <1>2, <2>1, <2>3
    <2> QED BY <2>2, <2>3
  <1>7. \A x \in {a, b} : at'[x] # "read" => at[x] # "read" BY <1>1, <1>2
  <1>8. /\ at[a] # "read" /\ plan.finished => hand[a].kind = "planFinished"
        /\ at[b] # "read" => hand[b].kind \in {"bootstrapFailed", "garbled"}
    BY DEF HandsInv
  <1>9. ASSUME NEW c \in {1, 2}, at'[Own(c)'] # "read" PROVE Genuine(hand[Own(c)])'
    <2> PICK x \in {a, b} : x = Own(c)' BY <1>3
    <2> PICK m : m = hand[x] OBVIOUS
    <2>1. Genuine(m)' BY <1>5, <1>6, <1>9
    <2>2. hand'[Own(c)'] = m BY <1>6, <1>9
    <2> QED BY <2>1, <2>2 DEF Genuine
  <1>10. ASSUME NEW c \in {1, 2}
         PROVE  /\ at'[Own(c)'] = "finish" => hand'[Own(c)'].kind = "bootstrapFailed"
                /\ at'[Own(c)'] \in {"append", "assign"} =>
                      hand'[Own(c)'].kind \in {"suiteDidStart", "suiteFinished"}
    <2> PICK x \in {a, b} : x = Own(c)' BY <1>3
    <2> QED BY <1>6
  <1>11. /\ at'[a] # "read" /\ plan'.finished => hand'[a].kind = "planFinished"
         /\ at'[b] # "read" => hand'[b].kind \in {"bootstrapFailed", "garbled"}
    BY <1>1, <1>6, <1>7, <1>8
  <1> QED BY <1>3, <1>9, <1>10, <1>11 DEF HandsInv

\* The second connection carries failures only, which leave the cases alone.
LEMMA SecondReader ==
    ASSUME BaseInv, target > 0, Agreed, Dispatch(Own(2))
    PROVE  Agreed'
  <1> PICK a, b : a = Own(1) /\ b = Own(2) OBVIOUS
  <1>1. a \in Readers /\ b \in Readers /\ a # b BY OwnReaders
  <1>2. /\ UNCHANGED <<target, plan, reason>> /\ at[b] # "read"
        /\ at'[a] = at[a] /\ hand'[a] = hand[a]
    BY <1>1, ReaderMoves
  <1>3. Own(1)' = a /\ Own(2)' = b BY <1>2 DEF Own
  <1>4. HandsInv'
    <2>1. b[1] = target BY DEF Own
    <2> QED BY <1>1, <2>1, DispatchHands DEF Agreed
  <1>5. /\ hand[b].kind \in {"bootstrapFailed", "garbled"}
        /\ at[b] = "finish" => hand[b].kind = "bootstrapFailed"
        /\ at[b] \notin {"append", "assign"}
        /\ hand[b].kind = "bootstrapFailed" => plan.ended /\ ~plan.finished
    BY <1>2 DEF Agreed, HandsInv, Genuine
  <1>6. /\ UNCHANGED <<running, suites>>
        /\ (finished' <=> finished) \/ (finished' /\ plan.ended /\ ~plan.finished)
    <2>1. CASE DispatchCase(b) BY <1>5, <2>1 DEF DispatchCase, HandleCase
    <2>2. CASE DispatchSuite(b)
      BY <1>5, <2>2 DEF DispatchSuite, testSuiteDidStart, testSuiteFinished
    <2>3. CASE AppendRunning(b) BY <1>5, <2>3 DEF AppendRunning, ReadersMove
    <2>4. CASE AssignRunning(b) BY <1>5, <2>4 DEF AssignRunning, ReadersMove
    <2>5. CASE didFinishExecutingTestPlan(b) BY <1>5, <2>5 DEF didFinishExecutingTestPlan
    <2>6. CASE didFailToBootstrapWithError(b)
      BY <2>6 DEF didFailToBootstrapWithError, signal
    <2>7. CASE FinishFailed(b)
      <3>1. UNCHANGED <<running, suites>> BY <2>7 DEF FinishFailed, Signals
      <3>2. plan.ended /\ ~plan.finished BY <1>5, <2>7 DEF FinishFailed, ReadersMove
      <3>3. (finished' <=> finished) \/ finished'
        BY <2>7, Zenon DEF FinishFailed, Signals, executionFinished
      <3> QED BY <3>1, <3>2, <3>3
    <2>8. CASE RecordDecodeError(b) BY <2>8 DEF RecordDecodeError, signal
    <2> QED BY <2>1, <2>2, <2>3, <2>4, <2>5, <2>6, <2>7, <2>8 DEF Dispatch
  <1>7. Grows BY <1>2, <1>6, NoGrowth DEF Agreed
  <1>8. AllRecorded'
    BY <1>2, <1>3, <1>7 DEF Agreed, AllRecorded, Grows
  <1>9. RunningMatch' BY <1>2, <1>3, <1>6 DEF Agreed, RunningMatch, Handling
  <1>10. EndInv' BY <1>2, <1>3, <1>6 DEF Agreed, EndInv
  <1> QED BY <1>4, <1>7, <1>8, <1>9, <1>10 DEF Agreed, Grows

\* A message about a case, on the first connection.
LEMMA FirstReaderCase ==
    ASSUME BaseInv, target > 0, Agreed, DispatchCase(Own(1))
    PROVE  Agreed'
  <1> PICK a : a = Own(1) OBVIOUS
  <1>1. a \in Readers /\ a[1] = target BY OwnReaders DEF Own
  <1>2. Dispatch(a) BY DEF Dispatch
  <1>3. UNCHANGED <<target, plan, reason>> /\ at[a] = "handle" /\ HandleCase(a) /\ Reads(a)
    BY DEF DispatchCase, ReadersMove
  <1>4. at'[a] = "read" BY <1>1, <1>3 DEF Reads, BaseInv
  <1>5. Own(1)' = a BY <1>3 DEF Own
  <1>6. Genuine(hand[a]) BY <1>3 DEF Agreed, HandsInv
  <1>7. /\ Grows /\ UNCHANGED <<err, finished>>
        /\ hand[a].kind = "caseDidStart" =>
              \A n : n = plan.started => InSuites(n)' \/ InRunning(n)'
    BY <1>3, <1>6, CaseHandled DEF Agreed, BaseInv
  <1>8. HandsInv' BY <1>1, <1>2, DispatchHands DEF Agreed
  <1>9. ASSUME NEW n \in 1..plan.started PROVE InSuites(n)' \/ InRunning(n)'
    BY <1>3, <1>7, <1>9 DEF Agreed, AllRecorded, Grows
  <1>10. AllRecorded' BY <1>3, <1>4, <1>5, <1>9 DEF AllRecorded
  <1>11. RunningMatch'
    <2>1. hand[a].kind \notin {"suiteDidStart", "suiteFinished"} BY <1>3 DEF HandleCase
    <2>2. ~Handling("suiteDidStart")' /\ ~Handling("suiteFinished")'
      BY <1>4, <1>5 DEF Handling
    <2>3. running' # NoSuite => plan.open # <<>> /\ running.name = plan.open[Len(plan.open)]
      BY <1>7, <2>1 DEF Agreed, RunningMatch, Handling, Grows
    <2> QED BY <1>3, <1>7, <2>2, <2>3 DEF RunningMatch, Grows
  <1>12. EndInv' BY <1>3, <1>4, <1>5, <1>7 DEF Agreed, EndInv
  <1> QED BY <1>7, <1>8, <1>10, <1>11, <1>12 DEF Agreed, Grows

\* The start or the end of a suite, on the first connection.
LEMMA FirstReaderSuite ==
    ASSUME BaseInv, target > 0, Agreed, DispatchSuite(Own(1))
    PROVE  Agreed'
  <1> PICK a, m : a = Own(1) /\ m = hand[a] OBVIOUS
  <1>1. a \in Readers /\ a[1] = target BY OwnReaders DEF Own
  <1>2. Dispatch(a) BY DEF Dispatch
  <1>3. /\ UNCHANGED <<target, plan, reason, suites, err, finished>> /\ at[a] = "handle"
        /\ testSuiteDidStart(a) \/ testSuiteFinished(a)
    BY DEF DispatchSuite, ReadersMove, signal
  <1>4. HandsInv' BY <1>1, <1>2, DispatchHands DEF Agreed
  <1>5. Own(1)' = a BY <1>3 DEF Own
  <1>6. Genuine(m) BY <1>3 DEF Agreed, HandsInv
  <1>7. m.kind \in {"suiteDidStart", "suiteFinished"}
    BY <1>3 DEF testSuiteDidStart, testSuiteFinished
  <1>8. \A n \in 1..plan.started : InSuites(n) \/ InRunning(n)
    BY <1>7 DEF Agreed, AllRecorded
  <1>9. EndInv'
    <2>1. finished => ~plan.finished BY <1>3 DEF Agreed, EndInv
    <2> QED BY <1>3, <2>1 DEF Agreed, EndInv
  <1>10. CASE /\ GoesOn(a, "append") /\ UNCHANGED running /\ running # NoSuite
              /\ (m.kind = "suiteFinished" => running.name = m.name)
    <2>1. at'[a] = "append" /\ hand'[a] = m BY <1>1, <1>10 DEF GoesOn, BaseInv
    <2>2. Grows BY <1>3, <1>10, NoGrowth DEF Agreed
    <2>3. AllRecorded' BY <1>3, <1>5, <1>8, <2>1, <2>2 DEF AllRecorded, Grows
    <2>4. RunningMatch'
      BY <1>3, <1>5, <1>7, <1>10, <2>1 DEF Agreed, RunningMatch, Handling
    <2> QED BY <1>4, <1>9, <2>2, <2>3, <2>4 DEF Agreed, Grows
  <1>11. CASE /\ Reads(a) /\ running = NoSuite
              /\ \/ running' = NoSuite
                 \/ m.kind = "suiteDidStart" /\ running' = Suite(m.name, <<>>)
    <2>1. at'[a] = "read" BY <1>1, <1>11 DEF Reads, BaseInv
    <2>2. \A n \in 1..plan.started : InSuites(n) BY <1>8, <1>11 DEF InRunning
    <2>3. AllRecorded' BY <1>3, <2>2 DEF AllRecorded, InSuites
    <2>4. CASE running' = NoSuite
      <3>1. RunningMatch' BY <2>4 DEF RunningMatch
      <3>2. Grows BY <1>3, <1>11, <2>4, NoGrowth DEF Agreed
      <3> QED BY <1>4, <1>9, <2>3, <3>1, <3>2 DEF Agreed, Grows
    <2>5. CASE m.kind = "suiteDidStart" /\ running' = Suite(m.name, <<>>)
      <3>1. plan.open # <<>> /\ m.name = plan.open[Len(plan.open)] BY <1>6, <2>5 DEF Genuine
      <3>2. m.name \in Names
        <4>1. plan.open \in Seq(Names) BY DEF BaseInv, Plans
        <4> QED BY <3>1, <4>1
      <3>3. running' \in Suites /\ running'.name = m.name /\ running'.cases = <<>>
        BY <2>5, <3>2 DEF Suite, Suites
      <3>4. HonestSuite(running)' BY <3>3 DEF HonestSuite
      <3>5. ListenerInv' BY <1>3, <3>3, <3>4 DEF Agreed, ListenerInv, HonestSuite, Honest
      <3>6. RunningMatch' BY <1>3, <1>5, <2>1, <3>1, <3>3 DEF RunningMatch, Handling
      <3> QED BY <1>4, <1>9, <2>3, <3>5, <3>6 DEF Agreed
    <2> QED BY <1>11, <2>4, <2>5
  <1>12. CASE testSuiteDidStart(a) BY <1>10, <1>11, <1>12 DEF testSuiteDidStart
  <1>13. CASE testSuiteFinished(a)
    <2>1. CASE findTestSuite(m.name) BY <1>10, <1>13, <2>1 DEF testSuiteFinished, findTestSuite
    <2>2. CASE ~findTestSuite(m.name)
      <3>1. m.kind = "suiteFinished" BY <1>13 DEF testSuiteFinished
      <3>2. running # NoSuite => running.name = m.name
        BY <1>3, <3>1 DEF Agreed, RunningMatch, Handling
      <3>3. running = NoSuite BY <2>2, <3>2 DEF findTestSuite
      <3> QED BY <1>11, <1>13, <2>2, <3>3 DEF testSuiteFinished
    <2> QED BY <2>1, <2>2
  <1> QED BY <1>3, <1>12, <1>13

\* The running suite joins the finished ones.
LEMMA FirstReaderAppend ==
    ASSUME BaseInv, target > 0, Agreed, AppendRunning(Own(1))
    PROVE  Agreed'
  <1> PICK a, m : a = Own(1) /\ m = hand[a] OBVIOUS
  <1>1. a \in Readers /\ a[1] = target BY OwnReaders DEF Own
  <1>2. Dispatch(a) BY DEF Dispatch
  <1>3. UNCHANGED <<target, plan, reason, running, finished>> /\ at[a] = "append"
    BY DEF AppendRunning, ReadersMove, signal
  <1>4. HandsInv' BY <1>1, <1>2, DispatchHands DEF Agreed
  <1>5. Own(1)' = a BY <1>3 DEF Own
  <1>6. m.kind \in {"suiteDidStart", "suiteFinished"} BY <1>3 DEF Agreed, HandsInv
  <1>7. \A n \in 1..plan.started : InSuites(n) \/ InRunning(n)
    BY <1>3 DEF Agreed, AllRecorded
  <1>8. EndInv' BY <1>3, <1>5 DEF Agreed, EndInv
  <1>9. CASE running = NoSuite
    <2>1. UNCHANGED suites BY <1>9 DEF AppendRunning
    <2>2. Grows BY <1>3, <2>1, NoGrowth DEF Agreed
    <2>3. \A n \in 1..plan.started : InSuites(n)' BY <1>7, <1>9, <2>1 DEF InRunning, InSuites
    <2>4. AllRecorded' BY <1>3, <2>3 DEF AllRecorded
    <2>5. RunningMatch' BY <1>3, <1>9 DEF RunningMatch
    <2> QED BY <1>4, <1>8, <2>2, <2>4, <2>5 DEF Agreed, Grows
  <1>10. CASE running # NoSuite
    <2>1. GoesOn(a, "assign") /\ suites' = Append(suites, running)
      BY <1>10 DEF AppendRunning
    <2>2. at'[a] = "assign" /\ hand'[a] = m BY <1>1, <2>1 DEF GoesOn, BaseInv
    <2>3. running \in Suites /\ HonestSuite(running) BY <1>10 DEF Agreed, ListenerInv
    <2>4. Grows /\ \A k \in 1..Len(running.cases) : \A n : n = running.cases[k].id => InSuites(n)'
      BY <1>3, <2>1, <2>3, SuiteGrows DEF Agreed
    <2>5. \A n \in 1..plan.started : InSuites(n)'
      <3>1. ASSUME NEW n, InRunning(n) PROVE InSuites(n)' BY <2>4, <3>1 DEF InRunning
      <3> QED BY <1>7, <2>4, <3>1 DEF Grows
    <2>6. AllRecorded' BY <1>3, <2>5 DEF AllRecorded
    <2>7. RunningMatch'
      BY <1>3, <1>5, <1>6, <2>2 DEF Agreed, RunningMatch, Handling
    <2> QED BY <1>4, <1>8, <2>4, <2>6, <2>7 DEF Agreed, Grows
  <1> QED BY <1>9, <1>10

\* The running suite is replaced, or gone.
LEMMA FirstReaderAssign ==
    ASSUME BaseInv, target > 0, Agreed, AssignRunning(Own(1))
    PROVE  Agreed'
  <1> PICK a, m : a = Own(1) /\ m = hand[a] OBVIOUS
  <1>1. a \in Readers /\ a[1] = target BY OwnReaders DEF Own
  <1>2. Dispatch(a) BY DEF Dispatch
  <1>3. /\ UNCHANGED <<target, plan, reason, suites, finished>> /\ at[a] = "assign" /\ Reads(a)
        /\ running' = IF m.kind = "suiteDidStart" THEN Suite(m.name, <<>>) ELSE NoSuite
    BY DEF AssignRunning, ReadersMove, signal
  <1>4. HandsInv' BY <1>1, <1>2, DispatchHands DEF Agreed
  <1>5. Own(1)' = a /\ at'[a] = "read" BY <1>1, <1>3 DEF Own, Reads, BaseInv
  <1>6. Genuine(m) BY <1>3 DEF Agreed, HandsInv
  <1>7. \A n \in 1..plan.started : InSuites(n) BY <1>3 DEF Agreed, AllRecorded
  <1>8. AllRecorded' BY <1>3, <1>7 DEF AllRecorded, InSuites
  <1>9. EndInv' BY <1>3, <1>5 DEF Agreed, EndInv
  <1>10. CASE m.kind = "suiteDidStart"
    <2>1. plan.open # <<>> /\ m.name = plan.open[Len(plan.open)] BY <1>6, <1>10 DEF Genuine
    <2>2. m.name \in Names
      <3>1. plan.open \in Seq(Names) BY DEF BaseInv, Plans
      <3> QED BY <2>1, <3>1
    <2>3. running' \in Suites /\ running'.name = m.name /\ running'.cases = <<>>
      BY <1>3, <1>10, <2>2 DEF Suite, Suites
    <2>4. HonestSuite(running)' BY <2>3 DEF HonestSuite
    <2>5. ListenerInv' BY <1>3, <2>3, <2>4 DEF Agreed, ListenerInv, HonestSuite, Honest
    <2>6. RunningMatch' BY <1>3, <1>5, <2>1, <2>3 DEF RunningMatch, Handling
    <2> QED BY <1>4, <1>8, <1>9, <2>5, <2>6 DEF Agreed
  <1>11. CASE m.kind # "suiteDidStart"
    <2>1. running' = NoSuite BY <1>3, <1>11
    <2>2. ListenerInv' BY <1>3, <2>1 DEF Agreed, ListenerInv, HonestSuite, Honest
    <2>3. RunningMatch' BY <2>1 DEF RunningMatch
    <2> QED BY <1>4, <1>8, <1>9, <2>2, <2>3 DEF Agreed
  <1> QED BY <1>10, <1>11

\* The end of the plan and failures, on the first connection.
LEMMA FirstReaderEnd ==
    ASSUME BaseInv, target > 0, Agreed,
           \/ didFinishExecutingTestPlan(Own(1)) \/ didFailToBootstrapWithError(Own(1))
           \/ FinishFailed(Own(1)) \/ RecordDecodeError(Own(1))
    PROVE  Agreed'
  <1> PICK a, m : a = Own(1) /\ m = hand[a] OBVIOUS
  <1>1. a \in Readers /\ a[1] = target BY OwnReaders DEF Own
  <1>2. Dispatch(a) BY DEF Dispatch
  <1>3. UNCHANGED <<target, plan, reason, suites, running>> /\ at[a] \in {"handle", "finish"}
    BY DEF didFinishExecutingTestPlan, didFailToBootstrapWithError, FinishFailed,
           RecordDecodeError, ReadersMove, Signals
  <1>4. HandsInv' BY <1>1, <1>2, DispatchHands DEF Agreed
  <1>5. Own(1)' = a BY <1>3 DEF Own
  <1>6. Genuine(m) /\ (at[a] = "finish" => m.kind = "bootstrapFailed")
    BY <1>3 DEF Agreed, HandsInv
  <1>7. m.kind \in {"planFinished", "bootstrapFailed", "garbled"}
    BY <1>6 DEF didFinishExecutingTestPlan, didFailToBootstrapWithError, FinishFailed,
                RecordDecodeError, ReadersMove
  <1>8. Grows BY <1>3, NoGrowth DEF Agreed
  <1>9. \A n \in 1..plan.started : InSuites(n) \/ InRunning(n)
    BY <1>3, <1>7 DEF Agreed, AllRecorded
  <1>10. /\ at'[a] = "read" \/ (at'[a] = "finish" /\ hand'[a] = m /\ m.kind = "bootstrapFailed")
         /\ \/ finished' <=> finished
            \/ finished' /\ at'[a] = "read" /\ plan.ended
    <2>0. at \in [Readers -> {"read", "handle", "append", "assign", "finish"}] BY DEF BaseInv
    <2>1. CASE didFinishExecutingTestPlan(a)
      <3>1. plan.finished BY <1>6, <2>1 DEF didFinishExecutingTestPlan, Genuine
      <3>2. plan.ended BY <3>1 DEF Agreed, EndInv
      <3>3. Reads(a) /\ ((finished' <=> finished) \/ finished')
        BY <2>1, Zenon DEF didFinishExecutingTestPlan, Signals, executionFinished
      <3> QED BY <1>1, <2>0, <3>2, <3>3 DEF Reads
    <2>2. CASE didFailToBootstrapWithError(a)
      BY <1>1, <2>0, <2>2 DEF didFailToBootstrapWithError, GoesOn, signal
    <2>3. CASE FinishFailed(a)
      <3>1. plan.ended BY <1>6, <2>3 DEF FinishFailed, ReadersMove, Genuine
      <3>2. Reads(a) /\ ((finished' <=> finished) \/ finished')
        BY <2>3, Zenon DEF FinishFailed, Signals, executionFinished
      <3> QED BY <1>1, <2>0, <3>1, <3>2 DEF Reads
    <2>4. CASE RecordDecodeError(a)
      BY <1>1, <2>0, <2>4 DEF RecordDecodeError, Reads, signal
    <2> QED BY <2>1, <2>2, <2>3, <2>4
  <1>11. AllRecorded' BY <1>3, <1>5, <1>8, <1>9, <1>10 DEF AllRecorded, Grows
  <1>12. RunningMatch'
    <2>1. running # NoSuite => plan.open # <<>> /\ running.name = plan.open[Len(plan.open)]
      BY <1>7 DEF Agreed, RunningMatch, Handling
    <2>2. ~Handling("suiteDidStart")' /\ ~Handling("suiteFinished")'
      BY <1>5, <1>10 DEF Handling
    <2> QED BY <1>3, <2>1, <2>2 DEF RunningMatch
  <1>13. EndInv'
    <2>1. finished => ~plan.finished BY <1>3 DEF Agreed, EndInv
    <2>2. finished' => plan.ended /\ (plan.finished => at'[a] = "read")
      BY <1>10, <2>1 DEF Agreed, EndInv
    <2> QED BY <1>3, <1>5, <1>10, <2>2 DEF Agreed, EndInv
  <1> QED BY <1>4, <1>8, <1>11, <1>12, <1>13 DEF Agreed, Grows

\* While a target runs, its readers keep what they and the device agree on; an
\* earlier target's reader makes the run stale.
LEMMA DispatchMine == ASSUME BaseInv, MineInv, NEW r \in Readers, Dispatch(r) PROVE MineInv'
  <1> SUFFICES ASSUME Mine' PROVE Agreed' BY DEF MineInv
  <1>1. UNCHANGED <<target, runner, reason>> /\ stale' = (stale \/ r[1] # target) BY ReaderMoves
  <1>2. r[1] = target /\ Mine BY <1>1 DEF Mine
  <1>3. target > 0 /\ Agreed BY <1>2 DEF MineInv, Mine
  <1>4. r = Own(1) \/ r = Own(2) BY <1>2, OwnReaders
  <1>5. CASE r = Own(1)
    BY <1>3, <1>5, FirstReaderCase, FirstReaderSuite, FirstReaderAppend, FirstReaderAssign,
       FirstReaderEnd DEF Dispatch
  <1>6. CASE r = Own(2) BY <1>3, <1>6, SecondReader
  <1> QED BY <1>4, <1>5, <1>6

\* While the runner finalizes a lost run, only the second connection's reader can
\* still be at work, and it leaves the cases alone.
LEMMA DispatchLost == ASSUME BaseInv, LostInv, NEW r \in Readers, Dispatch(r) PROVE LostInv'
  <1> SUFFICES ASSUME Lost' PROVE Closing' BY DEF LostInv
  <1> PICK a, b : a = Own(1) /\ b = Own(2) OBVIOUS
  <1>1. /\ UNCHANGED <<target, runner, conn, plan, reason>>
        /\ stale' = (stale \/ r[1] # target) /\ at[r] # "read"
        /\ \/ at'[r] = "read"
           \/ at'[r] \in {"append", "assign", "finish"} /\ UNCHANGED hand
        /\ err' = err \/ err' \in {"panic", "bootstrap", "decode"}
    BY ReaderMoves
  <1>2. r[1] = target /\ Lost BY <1>1 DEF Lost
  <1>3. Closing /\ target > 0 /\ runner # "next" BY <1>2 DEF LostInv, Lost
  <1>4. r = b
    <2>1. at[a] = "read" BY <1>3 DEF BaseInv, Closing
    <2> QED BY <1>1, <1>2, <2>1, OwnReaders
  <1>5. Own(1)' = a /\ Own(2)' = b BY <1>1 DEF Own
  <1>6. hand[b].kind \in {"bootstrapFailed", "garbled"} /\ at[b] \in {"handle", "finish"}
    BY <1>1, <1>3, <1>4 DEF Closing
  <1>7. UNCHANGED <<running, suites>> /\ at'[b] \notin {"append", "assign"}
    <2>0. at \in [Readers -> {"read", "handle", "append", "assign", "finish"}] BY DEF BaseInv
    <2>1. CASE DispatchCase(b) BY <1>6, <2>1 DEF DispatchCase, HandleCase
    <2>2. CASE DispatchSuite(b)
      BY <1>6, <2>2 DEF DispatchSuite, testSuiteDidStart, testSuiteFinished
    <2>3. CASE AppendRunning(b) BY <1>6, <2>3 DEF AppendRunning, ReadersMove
    <2>4. CASE AssignRunning(b) BY <1>6, <2>4 DEF AssignRunning, ReadersMove
    <2>5. CASE didFinishExecutingTestPlan(b) BY <1>6, <2>5 DEF didFinishExecutingTestPlan
    <2>6. CASE didFailToBootstrapWithError(b)
      BY <1>4, <2>0, <2>6 DEF didFailToBootstrapWithError, GoesOn
    <2>7. CASE FinishFailed(b) BY <1>4, <2>0, <2>7 DEF FinishFailed, Signals, Reads
    <2>8. CASE RecordDecodeError(b) BY <1>4, <2>0, <2>8 DEF RecordDecodeError, Reads
    <2> QED BY <1>4, <2>1, <2>2, <2>3, <2>4, <2>5, <2>6, <2>7, <2>8 DEF Dispatch
  <1>8. Grows BY <1>1, <1>3, <1>7, NoGrowth DEF Closing
  <1>9. /\ at'[b] # "read" => hand'[b].kind \in {"bootstrapFailed", "garbled"}
        /\ at'[b] \in {"read", "finish"}
    BY <1>1, <1>4, <1>6, <1>7
  <1>10. runner \in {"finalize", "append"} =>
            \A n \in 1..plan.started : InSuites(n)' \/ InRunning(n)'
    BY <1>3, <1>8 DEF Closing, Grows
  <1>11. runner = "fail" \/ (runner = "kill" /\ err' = "lost") =>
            \A n \in 1..plan.started : InSuites(n)'
    BY <1>1, <1>3, <1>8 DEF Closing, Grows
  <1>12. conn'[a] = "closed" BY <1>1, <1>3 DEF Closing
  <1> QED BY <1>1, <1>5, <1>8, <1>9, <1>10, <1>11, <1>12 DEF Closing, Grows

----------------------------------------------------------------------------
(* The device.                                                               *)

\* A message makes its reader busy with it and changes nothing else of the readers.
LEMMA SaysMoves ==
    ASSUME BaseInv, target > 0, NEW c \in {1, 2}, NEW e, SaysOn(c, e)
    PROVE  /\ conn[Own(c)] = "open" /\ at[Own(c)] = "read"
           /\ at'[Own(c)] = "handle" /\ hand'[Own(c)] = e
           /\ \A x \in Readers : x # Own(c) => at'[x] = at[x] /\ hand'[x] = hand[x]
           /\ at' \in [Readers -> {"read", "handle", "append", "assign", "finish"}]
           /\ DOMAIN hand' = Readers
  <1>1. Own(c) \in Readers BY OwnReaders
  <1>2. /\ conn[Own(c)] = "open" /\ at[Own(c)] = "read"
        /\ at' = [at EXCEPT ![Own(c)] = "handle"]
        /\ hand' = [hand EXCEPT ![Own(c)] = e]
    BY DEF SaysOn, Own
  <1> QED BY <1>1, <1>2 DEF BaseInv

\* What was honest stays so.
LEMMA HonestyKept ==
    ASSUME ListenerInv, UNCHANGED <<running, suites>>,
           \A c \in Cases : Honest(c) => Honest(c)'
    PROVE  ListenerInv'
  <1>1. ASSUME NEW s \in Suites, HonestSuite(s) PROVE HonestSuite(s)'
    <2>1. s.cases \in Seq(Cases) BY DEF Suites
    <2>2. \A k \in 1..Len(s.cases) : s.cases[k] \in Cases BY <2>1, ElementOfSeq
    <2> QED BY <1>1, <2>2 DEF HonestSuite
  <1>2. running # NoSuite => HonestSuite(running)'
    <2> SUFFICES ASSUME running # NoSuite PROVE HonestSuite(running)' OBVIOUS
    <2> PICK s : s = running OBVIOUS
    <2>1. HonestSuite(s)' BY <1>1 DEF ListenerInv
    <2> QED BY <2>1 DEF HonestSuite, Honest
  <1>3. ASSUME NEW i \in 1..Len(suites) PROVE HonestSuite(suites[i])'
    <2> PICK s : s = suites[i] OBVIOUS
    <2>1. s \in Suites BY <1>3, ElementOfSeq DEF ListenerInv
    <2>2. HonestSuite(s)' BY <1>1, <1>3, <2>1 DEF ListenerInv
    <2> QED BY <2>2 DEF HonestSuite, Honest
  <1> QED BY <1>2, <1>3 DEF ListenerInv, HonestSuite, Honest

\* What the device says on the first connection, if it is true of the plan, keeps
\* what the readers agree on.
LEMMA FirstSays ==
    ASSUME BaseInv, target > 0, Agreed, Unended, NEW e, Says(e),
           UNCHANGED <<target, listener, reason>>,
           \A c \in Cases : Honest(c) => Honest(c)',
           \A m : m = e => Genuine(m)',
           \A n \in 1..plan'.started :
              n \in 1..plan.started \/ (e.kind = "caseDidStart" /\ n = plan'.started),
           running # NoSuite /\ plan.open # <<>> /\ running.name = plan.open[Len(plan.open)] =>
              \/ /\ e.kind = "suiteDidStart" /\ Len(plan'.open) > 1
                 /\ running.name = plan'.open[Len(plan'.open) - 1]
              \/ e.kind = "suiteFinished" /\ running.name = e.name
              \/ e.kind \notin {"suiteDidStart", "suiteFinished"} /\ plan'.open = plan.open,
           plan'.finished => plan'.ended /\ plan'.open = <<>> /\ e.kind = "planFinished"
    PROVE  Agreed'
  <1> PICK a, b : a = Own(1) /\ b = Own(2) OBVIOUS
  <1>1. a \in Readers /\ b \in Readers /\ a # b BY OwnReaders
  <1>2. /\ at[a] = "read" /\ at'[a] = "handle" /\ hand'[a] = e
        /\ at'[b] = at[b] /\ hand'[b] = hand[b]
    BY <1>1, SaysMoves DEF Says
  <1>3. Own(1)' = a /\ Own(2)' = b BY DEF Own
  <1>4. UNCHANGED <<running, suites, err, finished>> BY DEF listener, signal
  <1>5. ListenerInv' BY <1>4, HonestyKept DEF Agreed
  <1>6. /\ at[b] # "read" => Genuine(hand[b]) /\ hand[b].kind \in {"bootstrapFailed", "garbled"}
        /\ at[b] = "finish" => hand[b].kind = "bootstrapFailed"
        /\ at[b] \in {"append", "assign"} => hand[b].kind \in {"suiteDidStart", "suiteFinished"}
    BY DEF Agreed, HandsInv
  <1>7. at[b] # "read" => hand[b].kind = "garbled" BY <1>6 DEF Genuine, Unended
  <1>8. HandsInv'
    <2>1. at'[b] # "read" => Genuine(hand[b])' BY <1>2, <1>7 DEF Genuine
    <2>2. Genuine(hand[a])'
      <3>1. PICK m : m = e OBVIOUS
      <3>2. Genuine(m)' BY <3>1
      <3> QED BY <1>2, <3>1, <3>2 DEF Genuine
    <2>3. \A c \in {1, 2} : at'[Own(c)'] # "read" => Genuine(hand[Own(c)])'
      <3>1. ASSUME NEW c \in {1, 2}, at'[Own(c)'] # "read" PROVE Genuine(hand[Own(c)])'
        <4>1. CASE c = 1 BY <1>3, <2>2, <4>1 DEF Genuine
        <4>2. CASE c = 2 BY <1>3, <2>1, <3>1, <4>2 DEF Genuine
        <4> QED BY <4>1, <4>2
      <3> QED BY <3>1
    <2>4. \A c \in {1, 2} :
             /\ at'[Own(c)'] = "finish" => hand'[Own(c)'].kind = "bootstrapFailed"
             /\ at'[Own(c)'] \in {"append", "assign"} =>
                   hand'[Own(c)'].kind \in {"suiteDidStart", "suiteFinished"}
      BY <1>2, <1>3, <1>6
    <2> QED BY <1>2, <1>3, <1>6, <2>3, <2>4 DEF HandsInv
  <1>9. \A n \in 1..plan.started : InSuites(n) \/ InRunning(n)
    BY <1>2 DEF Agreed, AllRecorded
  <1>10. AllRecorded'
    <2>1. ASSUME NEW n \in 1..plan'.started
          PROVE  \/ InSuites(n)' \/ InRunning(n)'
                 \/ e.kind = "caseDidStart" /\ n = plan'.started
      BY <1>4, <1>9, <2>1 DEF InSuites, InRunning
    <2> QED BY <1>2, <1>3, <2>1 DEF AllRecorded
  <1>11. RunningMatch'
    <2>1. running # NoSuite => plan.open # <<>> /\ running.name = plan.open[Len(plan.open)]
      BY <1>2 DEF Agreed, RunningMatch, Handling
    <2> QED BY <1>2, <1>3, <1>4, <2>1 DEF RunningMatch, Handling
  <1>12. EndInv' BY <1>4 DEF Agreed, EndInv, Unended
  <1> QED BY <1>5, <1>8, <1>10, <1>11, <1>12 DEF Agreed

\* The plan stays a plan.
LEMMA PlanMoves == ASSUME BaseInv, DeviceReports PROVE plan' \in Plans /\ target > 0
  <1> USE DEF Plans
  <1>1. plan \in Plans /\ plan.open \in Seq(Names) BY DEF BaseInv
  <1>2. CASE SuiteStarts
    <2>1. Len(plan.open) \in Nat /\ Len(Nesting) \in Nat BY <1>1, NestingAssumption
    <2>2. Len(plan.open) + 1 \in 1..Len(Nesting) BY <1>2, <2>1 DEF SuiteStarts
    <2>3. Nesting[Len(plan.open) + 1] \in Names BY <2>2 DEF Names
    <2>4. Append(plan.open, Nesting[Len(plan.open) + 1]) \in Seq(Names) BY <1>1, <2>3
    <2> QED BY <1>1, <1>2, <2>4 DEF SuiteStarts, Unended
  <1>3. CASE SuiteEnds
    <2>1. SubSeq(plan.open, 1, Len(plan.open) - 1) \in Seq(Names)
      <3>1. plan.open # <<>> BY <1>3 DEF SuiteEnds
      <3>2. Len(plan.open) \in Nat \ {0} BY <1>1, <3>1
      <3>3. \A i \in 1..(Len(plan.open) - 1) : plan.open[i] \in Names BY <1>1, <3>2
      <3> QED BY <1>1, <3>2, <3>3
    <2> QED BY <1>1, <1>3, <2>1 DEF SuiteEnds, Unended
  <1>4. ASSUME NEW n \in Classes, CaseStarts(n) PROVE plan' \in Plans /\ target > 0
    <2>1. plan.started + 1 \in Nat BY <1>1
    <2>2. plan' = [plan EXCEPT !.started = plan.started + 1, !.class = n] /\ target > 0
      BY <1>4 DEF CaseStarts, Unended
    <2>3. n \in Classes \union {NoSuite} OBVIOUS
    <2> QED BY <1>1, <2>1, <2>2, <2>3
  <1>5. CASE CaseStalls BY <1>1, <1>5 DEF CaseStalls, Unended
  <1>6. CASE CaseFails BY <1>1, <1>6 DEF CaseFails, Unended
  <1>7. CASE CaseEnds BY <1>1, <1>7 DEF CaseEnds, Unended
  <1>8. CASE PlanEnds BY <1>1, <1>8 DEF PlanEnds, Unended
  <1>9. CASE BootstrapFails BY <1>1, <1>9 DEF BootstrapFails, Unended
  <1>10. CASE Garbled BY <1>1, <1>10 DEF Garbled, Unended
  <1> QED BY <1>2, <1>3, <1>4, <1>5, <1>6, <1>7, <1>8, <1>9, <1>10 DEF DeviceReports

LEMMA DeviceBase == ASSUME BaseInv, DeviceReports PROVE BaseInv'
  <1>1. plan' \in Plans /\ target > 0 BY PlanMoves
  <1>2. UNCHANGED <<target, runner, conn, listener, result, reason, broken, stale>>
    BY DEF DeviceReports
  <1>3. \E c \in {1, 2} : \E e : SaysOn(c, e)
    BY DEF DeviceReports, Says, SuiteStarts, SuiteEnds, CaseStarts, CaseStalls, CaseFails,
           CaseEnds, PlanEnds, BootstrapFails, Garbled
  <1>4. PICK c \in {1, 2} : \E e : SaysOn(c, e) BY <1>3
  <1> PICK e : SaysOn(c, e) BY <1>4
  <1>5. /\ conn[Own(c)] = "open" /\ at[Own(c)] = "read"
        /\ \A x \in Readers : x # Own(c) => at'[x] = at[x]
        /\ at' \in [Readers -> {"read", "handle", "append", "assign", "finish"}]
        /\ DOMAIN hand' = Readers
    BY <1>1, SaysMoves
  <1>6. \A x \in Readers : x[1] > target => at'[x] = "read"
    <2>0. ~(target > target)
      <3>1. target \in 0..Targets BY DEF BaseInv
      <3> QED BY <3>1, BoundsAssumption
    <2>1. \A x \in Readers : x[1] > target => x # Own(c) BY <2>0 DEF Own
    <2> QED BY <1>5, <2>1 DEF BaseInv
  <1>7. Own(1)' = Own(1) BY <1>2 DEF Own
  <1>8. conn[Own(1)] = "closed" /\ runner # "next" => at'[Own(1)] = "read"
    <2>1. Own(1) \in Readers BY <1>1, OwnReaders
    <2> QED BY <1>1, <1>5, <2>1 DEF BaseInv
  <1>9. UNCHANGED err BY <1>2 DEF listener
  <1> QED BY <1>1, <1>2, <1>5, <1>6, <1>7, <1>8, <1>9 DEF BaseInv

\* Suites nest, the running one is the innermost that is open.
LEMMA SuitesAgreed ==
    ASSUME BaseInv, target > 0, Agreed, UNCHANGED <<target, listener, reason>>,
           SuiteStarts \/ SuiteEnds
    PROVE  Agreed'
  <1>1. plan \in Plans /\ plan.open \in Seq(Names) /\ Len(plan.open) \in Nat
    <2>1. plan \in Plans BY DEF BaseInv
    <2>2. plan.open \in Seq(Names) BY <2>1 DEF Plans
    <2>3. Len(plan.open) \in Nat BY <2>2
    <2> QED BY <2>1, <2>2, <2>3
  <1>2. ~plan.finished /\ Unended
    BY DEF Agreed, EndInv, SuiteStarts, SuiteEnds, Unended
  <1>3. CASE SuiteStarts
    <2> PICK s : s = Nesting[Len(plan.open) + 1] OBVIOUS
    <2> PICK e : e = [kind |-> "suiteDidStart", name |-> s] OBVIOUS
    <2>1. Says(e) /\ plan' = [plan EXCEPT !.open = Append(plan.open, s)]
      BY <1>3 DEF SuiteStarts
    <2>2. e.kind = "suiteDidStart" /\ e.name = s OBVIOUS
    <2>3. UNCHANGED <<plan.started, plan.class, plan.failed, plan.finished, plan.ended>>
          /\ plan'.open = Append(plan.open, s)
      BY <1>1, <2>1 DEF Plans
    <2>4. /\ plan'.open # <<>> /\ Len(plan'.open) = Len(plan.open) + 1
          /\ plan'.open[Len(plan'.open)] = s
          /\ \A i \in 1..Len(plan.open) : plan'.open[i] = plan.open[i]
      <3>1. s \in Names
        <4>1. Len(Nesting) \in Nat BY NestingAssumption
        <4>2. Len(plan.open) + 1 \in 1..Len(Nesting) BY <1>1, <1>3, <4>1 DEF SuiteStarts
        <4> QED BY <4>2 DEF Names
      <3> QED BY <1>1, <2>3, <3>1
    <2>5. \A c \in Cases : Honest(c) => Honest(c)' BY <2>3 DEF Honest
    <2>6. \A m : m = e => Genuine(m)' BY <2>2, <2>4 DEF Genuine
    <2>7. plan.open # <<>> /\ running.name = plan.open[Len(plan.open)] =>
             Len(plan'.open) > 1 /\ running.name = plan'.open[Len(plan'.open) - 1]
      <3> SUFFICES ASSUME plan.open # <<>>
                   PROVE  Len(plan'.open) > 1
                          /\ plan'.open[Len(plan'.open) - 1] = plan.open[Len(plan.open)]
        OBVIOUS
      <3>1. Len(plan.open) > 0 /\ Len(plan.open) \in 1..Len(plan.open) BY <1>1
      <3>2. Len(plan'.open) - 1 = Len(plan.open) /\ Len(plan'.open) > 1 BY <1>1, <2>4, <3>1
      <3> QED BY <2>4, <3>1, <3>2
    <2> HIDE DEF Agreed
    <2> QED BY <1>2, <2>1, <2>2, <2>3, <2>5, <2>6, <2>7, FirstSays
  <1>4. CASE SuiteEnds
    <2> PICK s : s = plan.open[Len(plan.open)] OBVIOUS
    <2> PICK e : e = [kind |-> "suiteFinished", name |-> s] OBVIOUS
    <2>1. Says(e) /\ plan.open # <<>>
          /\ plan' = [plan EXCEPT !.open = SubSeq(plan.open, 1, Len(plan.open) - 1)]
      BY <1>4 DEF SuiteEnds
    <2>2. e.kind = "suiteFinished" /\ e.name = s OBVIOUS
    <2>3. UNCHANGED <<plan.started, plan.class, plan.failed, plan.finished, plan.ended>>
      BY <1>1, <2>1 DEF Plans
    <2>4. s \in Names BY <1>1, <2>1
    <2>5. \A c \in Cases : Honest(c) => Honest(c)' BY <2>3 DEF Honest
    <2>6. \A m : m = e => Genuine(m)' BY <2>2, <2>4 DEF Genuine
    <2> QED BY <1>2, <2>1, <2>2, <2>3, <2>5, <2>6, FirstSays
  <1> QED BY <1>3, <1>4

\* The device reports each case it starts, and its last failure before its verdict.
LEMMA CasesAgreed ==
    ASSUME BaseInv, target > 0, Agreed, UNCHANGED <<target, listener, reason>>,
           (\E n \in Classes : CaseStarts(n)) \/ CaseStalls \/ CaseFails \/ CaseEnds
    PROVE  Agreed'
  <1>1. plan \in Plans /\ plan.started \in Nat BY DEF BaseInv, Plans
  <1>2. ~plan.finished /\ Unended
    BY DEF Agreed, EndInv, CaseStarts, CaseStalls, CaseFails, CaseEnds, Unended
  <1>3. ASSUME NEW n \in Classes, CaseStarts(n) PROVE Agreed'
    <2> PICK e : e = [kind |-> "caseDidStart", class |-> n, id |-> plan.started + 1] OBVIOUS
    <2>1. Says(e) BY <1>3 DEF CaseStarts
    <2>2. e.kind = "caseDidStart" /\ e.class = n /\ e.id = plan.started + 1 OBVIOUS
    <2>3. plan'.started = plan.started + 1
          /\ UNCHANGED <<plan.open, plan.failed, plan.finished, plan.ended>>
      BY <1>1, <1>3 DEF CaseStarts, Plans
    <2>4. ASSUME NEW c \in Cases, Honest(c) PROVE Honest(c)'
      <3>1. c.id \in Nat BY DEF Cases
      <3> QED BY <1>1, <2>3, <2>4, <3>1 DEF Honest
    <2>5. \A m : m = e => Genuine(m)' BY <2>2, <2>3 DEF Genuine
    <2>6. \A k \in 1..plan'.started : k \in 1..plan.started \/ k = plan'.started
      BY <1>1, <2>3
    <2> QED BY <1>2, <2>1, <2>2, <2>3, <2>4, <2>5, <2>6, FirstSays
  <1>4. CASE CaseStalls
    <2> PICK e : e = [Current EXCEPT !.kind = "caseStalled"] OBVIOUS
    <2>1. Says(e) /\ UNCHANGED plan BY <1>4 DEF CaseStalls
    <2>2. e.kind = "caseStalled" /\ e.class = plan.class /\ e.id = plan.started
      BY DEF Current
    <2>3. plan.class \in Classes BY <1>1, <1>4 DEF CaseStalls, InCase, Plans
    <2>4. \A c \in Cases : Honest(c) => Honest(c)' BY <2>1 DEF Honest
    <2>5. \A m : m = e => Genuine(m)' BY <2>1, <2>2, <2>3 DEF Genuine
    <2> QED BY <1>2, <2>1, <2>2, <2>4, <2>5, FirstSays
  <1>5. CASE CaseFails
    <2> PICK e : e = [Current EXCEPT !.kind = "caseFailed"] OBVIOUS
    <2>1. Says(e) BY <1>5 DEF CaseFails
    <2>2. e.kind = "caseFailed" /\ e.class = plan.class /\ e.id = plan.started
      BY DEF Current
    <2>3. plan.class \in Classes /\ plan.class # NoSuite
      BY <1>1, <1>5 DEF CaseFails, InCase, Plans
    <2>4. plan'.failed = plan.failed \union {plan.started}
          /\ UNCHANGED <<plan.open, plan.started, plan.class, plan.finished, plan.ended>>
      BY <1>1, <1>5 DEF CaseFails, Plans
    <2>5. ASSUME NEW c \in Cases, Honest(c) PROVE Honest(c)'
      <3>1. c.id \in Nat BY DEF Cases
      <3> QED BY <1>1, <2>3, <2>4, <2>5, <3>1 DEF Honest
    <2>6. \A m : m = e => Genuine(m)' BY <2>2, <2>3, <2>4 DEF Genuine
    <2> QED BY <1>2, <2>1, <2>2, <2>4, <2>5, <2>6, FirstSays
  <1>6. CASE CaseEnds
    <2> PICK e : e = [kind |-> "caseDidFinish", class |-> plan.class, id |-> plan.started,
                      status |-> IF plan.started \in plan.failed THEN "failed" ELSE "passed"]
      OBVIOUS
    <2>1. Says(e) BY <1>6 DEF CaseEnds
    <2>2. /\ e.kind = "caseDidFinish" /\ e.class = plan.class /\ e.id = plan.started
          /\ e.status \in {"failed", "passed"}
          /\ e.status = "passed" => e.id \notin plan.failed
      OBVIOUS
    <2>3. plan.class \in Classes BY <1>1, <1>6 DEF CaseEnds, InCase, Plans
    <2>4. plan'.class = NoSuite
          /\ UNCHANGED <<plan.open, plan.started, plan.failed, plan.finished, plan.ended>>
      BY <1>1, <1>6 DEF CaseEnds, Plans
    <2>5. \A c \in Cases : Honest(c) => Honest(c)' BY <2>4 DEF Honest
    <2>6. \A m : m = e => Genuine(m)' BY <2>2, <2>3, <2>4 DEF Genuine
    <2> QED BY <1>2, <2>1, <2>2, <2>4, <2>5, <2>6, FirstSays
  <1> QED BY <1>3, <1>4, <1>5, <1>6

\* The end of the plan, a failure to bootstrap or an undecodable message on the
\* first connection.
LEMMA EndAgreed ==
    ASSUME BaseInv, target > 0, Agreed, UNCHANGED <<target, listener, reason>>, Unended,
           \/ PlanEnds
           \/ Says([kind |-> "bootstrapFailed"]) /\ plan' = [plan EXCEPT !.ended = TRUE]
           \/ Says([kind |-> "garbled"]) /\ UNCHANGED plan
    PROVE  Agreed'
  <1>1. plan \in Plans BY DEF BaseInv
  <1>2. ~plan.finished BY DEF Agreed, EndInv, Unended
  <1>3. CASE PlanEnds
    <2> PICK e : e = [kind |-> "planFinished"] OBVIOUS
    <2>1. Says(e) /\ plan.open = <<>> BY <1>3 DEF PlanEnds
    <2>2. e.kind = "planFinished" OBVIOUS
    <2>3. plan'.finished /\ plan'.ended
          /\ UNCHANGED <<plan.open, plan.started, plan.class, plan.failed>>
      BY <1>1, <1>3 DEF PlanEnds, Plans
    <2>4. \A c \in Cases : Honest(c) => Honest(c)' BY <2>3 DEF Honest
    <2>5. \A m : m = e => Genuine(m)' BY <2>2, <2>3 DEF Genuine
    <2> QED BY <2>1, <2>2, <2>3, <2>4, <2>5, FirstSays
  <1>4. CASE Says([kind |-> "bootstrapFailed"]) /\ plan' = [plan EXCEPT !.ended = TRUE]
    <2> PICK e : e = [kind |-> "bootstrapFailed"] OBVIOUS
    <2>1. Says(e) BY <1>4
    <2>2. e.kind = "bootstrapFailed" OBVIOUS
    <2>3. plan'.ended
          /\ UNCHANGED <<plan.open, plan.started, plan.class, plan.failed, plan.finished>>
      BY <1>1, <1>4 DEF Plans
    <2>4. \A c \in Cases : Honest(c) => Honest(c)' BY <2>3 DEF Honest
    <2>5. \A m : m = e => Genuine(m)' BY <1>2, <2>2, <2>3 DEF Genuine
    <2> QED BY <1>2, <2>1, <2>2, <2>3, <2>4, <2>5, FirstSays
  <1>5. CASE Says([kind |-> "garbled"]) /\ UNCHANGED plan
    <2> PICK e : e = [kind |-> "garbled"] OBVIOUS
    <2>1. Says(e) /\ UNCHANGED plan BY <1>5
    <2>2. e.kind = "garbled" OBVIOUS
    <2>3. \A c \in Cases : Honest(c) => Honest(c)' BY <2>1 DEF Honest
    <2>4. \A m : m = e => Genuine(m)' BY <2>2 DEF Genuine
    <2> QED BY <1>2, <2>1, <2>2, <2>3, <2>4, FirstSays
  <1> QED BY <1>3, <1>4, <1>5

\* What is said on the second connection.
LEMMA SecondSays ==
    ASSUME BaseInv, target > 0, Agreed, UNCHANGED <<target, listener, reason>>, Unended,
           NEW e, SaysOn(2, e),
           \/ e = [kind |-> "bootstrapFailed"] /\ plan' = [plan EXCEPT !.ended = TRUE]
           \/ e = [kind |-> "garbled"] /\ UNCHANGED plan
    PROVE  Agreed'
  <1> PICK a, b : a = Own(1) /\ b = Own(2) OBVIOUS
  <1>1. a \in Readers /\ b \in Readers /\ a # b BY OwnReaders
  <1>2. /\ at'[b] = "handle" /\ hand'[b] = e
        /\ at'[a] = at[a] /\ hand'[a] = hand[a]
    BY <1>1, SaysMoves
  <1>3. Own(1)' = a /\ Own(2)' = b BY DEF Own
  <1>4. UNCHANGED <<running, suites, err, finished>> BY DEF listener, signal
  <1>5. plan \in Plans BY DEF BaseInv
  <1>6. /\ UNCHANGED <<plan.open, plan.started, plan.class, plan.failed, plan.finished>>
        /\ (e.kind = "bootstrapFailed" /\ plan'.ended) \/ e.kind = "garbled"
        /\ plan.ended => plan'.ended
    BY <1>5 DEF Plans
  <1>7. ~plan.finished /\ ~finished BY DEF Agreed, EndInv, Unended
  <1>8. \A c \in Cases : Honest(c) => Honest(c)' BY <1>6 DEF Honest
  <1>9. ListenerInv' BY <1>4, <1>8, HonestyKept DEF Agreed
  <1>10. /\ at[a] # "read" => Genuine(hand[a])
         /\ at[a] = "finish" => hand[a].kind = "bootstrapFailed"
         /\ at[a] \in {"append", "assign"} => hand[a].kind \in {"suiteDidStart", "suiteFinished"}
    BY DEF Agreed, HandsInv
  <1>11. HandsInv'
    <2>1. at'[a] # "read" => Genuine(hand[a])'
      <3> PICK m : m = hand[a] OBVIOUS
      <3>1. at[a] # "read" => Genuine(m)' BY <1>6, <1>7, <1>10 DEF Genuine, Unended
      <3> QED BY <1>2, <3>1 DEF Genuine
    <2>2. Genuine(hand[b])' BY <1>2, <1>6, <1>7 DEF Genuine
    <2>3. ASSUME NEW c \in {1, 2}, at'[Own(c)'] # "read" PROVE Genuine(hand[Own(c)])'
      <3>1. CASE c = 1 BY <1>3, <2>1, <2>3, <3>1 DEF Genuine
      <3>2. CASE c = 2 BY <1>3, <2>2, <3>2 DEF Genuine
      <3> QED BY <3>1, <3>2
    <2>4. \A c \in {1, 2} :
             /\ at'[Own(c)'] = "finish" => hand'[Own(c)'].kind = "bootstrapFailed"
             /\ at'[Own(c)'] \in {"append", "assign"} =>
                   hand'[Own(c)'].kind \in {"suiteDidStart", "suiteFinished"}
      BY <1>2, <1>3, <1>10
    <2> QED BY <1>2, <1>3, <1>6, <1>7, <2>3, <2>4 DEF HandsInv
  <1>12. AllRecorded'
    BY <1>2, <1>3, <1>4, <1>6 DEF Agreed, AllRecorded, InSuites, InRunning
  <1>13. RunningMatch' BY <1>2, <1>3, <1>4, <1>6 DEF Agreed, RunningMatch, Handling
  <1>14. EndInv' BY <1>4, <1>6, <1>7 DEF Agreed, EndInv
  <1> QED BY <1>9, <1>11, <1>12, <1>13, <1>14 DEF Agreed

\* Whatever the device reports about the target that runs, listener, readers and
\* device go on agreeing.
LEMMA DeviceMine == ASSUME BaseInv, MineInv, DeviceReports PROVE MineInv'
  <1> SUFFICES ASSUME Mine' PROVE Agreed' BY DEF MineInv
  <1>1. UNCHANGED <<target, runner, listener, reason>> /\ stale' = stale BY DEF DeviceReports
  <1>2. target > 0 /\ Agreed BY <1>1 DEF Mine, MineInv
  <1>3. CASE SuiteStarts \/ SuiteEnds BY <1>1, <1>2, <1>3, SuitesAgreed
  <1>4. CASE (\E n \in Classes : CaseStarts(n)) \/ CaseStalls \/ CaseFails \/ CaseEnds
    BY <1>1, <1>2, <1>4, CasesAgreed
  <1>5. CASE PlanEnds
    <2>1. Unended BY <1>5 DEF PlanEnds
    <2> QED BY <1>1, <1>2, <1>5, <2>1, EndAgreed
  <1>6. CASE BootstrapFails
    <2>1. Unended /\ plan' = [plan EXCEPT !.ended = TRUE] BY <1>6 DEF BootstrapFails
    <2>2. \/ SaysOn(1, [kind |-> "bootstrapFailed"])
          \/ SaysOn(2, [kind |-> "bootstrapFailed"])
      BY <1>6 DEF BootstrapFails
    <2>3. CASE SaysOn(1, [kind |-> "bootstrapFailed"])
      <3>1. Says([kind |-> "bootstrapFailed"]) BY <2>3 DEF Says
      <3> QED BY <1>1, <1>2, <2>1, <3>1, EndAgreed
    <2>4. CASE SaysOn(2, [kind |-> "bootstrapFailed"])
      BY <1>1, <1>2, <2>1, <2>4, SecondSays
    <2> QED BY <2>2, <2>3, <2>4
  <1>7. CASE Garbled
    <2>1. Unended /\ UNCHANGED plan BY <1>7 DEF Garbled
    <2>2. SaysOn(1, [kind |-> "garbled"]) \/ SaysOn(2, [kind |-> "garbled"])
      BY <1>7 DEF Garbled
    <2>3. CASE SaysOn(1, [kind |-> "garbled"])
      <3>1. Says([kind |-> "garbled"]) BY <2>3 DEF Says
      <3> QED BY <1>1, <1>2, <2>1, <3>1, EndAgreed
    <2>4. CASE SaysOn(2, [kind |-> "garbled"]) BY <1>1, <1>2, <2>1, <2>4, SecondSays
    <2> QED BY <2>2, <2>3, <2>4
  <1> QED BY <1>3, <1>4, <1>5, <1>6, <1>7 DEF DeviceReports

\* Once the first connection is lost the device can only report failures.
LEMMA DeviceLost == ASSUME BaseInv, LostInv, DeviceReports PROVE LostInv'
  <1> SUFFICES ASSUME Lost' PROVE Closing' BY DEF LostInv
  <1> PICK a, b : a = Own(1) /\ b = Own(2) OBVIOUS
  <1>1. UNCHANGED <<target, runner, conn, listener, reason, stale>> BY DEF DeviceReports
  <1>2. target > 0 /\ Closing BY <1>1 DEF Lost, LostInv
  <1>3. conn[a] = "closed" BY <1>2 DEF Closing
  <1>4. ~\E e : Says(e)
    <2>1. \A e : Says(e) => conn[a] = "open" BY DEF Says, SaysOn, Own
    <2> QED BY <1>3, <2>1
  <1>5. BootstrapFails \/ Garbled
    BY <1>4 DEF DeviceReports, SuiteStarts, SuiteEnds, CaseStarts, CaseStalls, CaseFails,
                CaseEnds, PlanEnds
  <1>6. PICK e : SaysOn(2, e) /\ e.kind \in {"bootstrapFailed", "garbled"}
    <2>1. ~SaysOn(1, [kind |-> "bootstrapFailed"]) /\ ~SaysOn(1, [kind |-> "garbled"])
      BY <1>4 DEF Says
    <2>2. \/ SaysOn(2, [kind |-> "bootstrapFailed"]) \/ SaysOn(2, [kind |-> "garbled"])
      BY <1>5, <2>1 DEF BootstrapFails, Garbled
    <2> QED BY <2>2
  <1>7. plan \in Plans BY DEF BaseInv
  <1>8. UNCHANGED <<plan.open, plan.started, plan.class, plan.failed>>
    BY <1>5, <1>7 DEF BootstrapFails, Garbled, Plans
  <1>9. at'[b] = "handle" /\ hand'[b] = e BY <1>2, <1>6, SaysMoves
  <1>10. Own(1)' = a /\ Own(2)' = b BY <1>1 DEF Own
  <1>11. UNCHANGED <<running, suites, err>> BY <1>1 DEF listener
  <1>12. \A c \in Cases : Honest(c) => Honest(c)' BY <1>8 DEF Honest
  <1>13. ListenerInv' BY <1>2, <1>11, <1>12, HonestyKept DEF Closing
  <1>14. /\ runner \in {"finalize", "append"} =>
              \A n \in 1..plan'.started : InSuites(n)' \/ InRunning(n)'
         /\ runner = "fail" \/ (runner = "kill" /\ err' = "lost") =>
              \A n \in 1..plan'.started : InSuites(n)'
    BY <1>2, <1>8, <1>11 DEF Closing, InSuites, InRunning
  <1> QED BY <1>1, <1>3, <1>6, <1>9, <1>10, <1>13, <1>14 DEF Closing

\* Nothing that is agreed on changes.
LEMMA AgreedKept ==
    ASSUME Agreed, UNCHANGED <<target, at, hand, plan, reason, running, suites, finished>>
    PROVE  Agreed'
  <1>1. Own(1)' = Own(1) /\ Own(2)' = Own(2) BY DEF Own
  <1>2. Grows BY NoGrowth DEF Agreed
  <1>3. HandsInv' BY <1>1 DEF Agreed, HandsInv, Genuine
  <1>4. AllRecorded' BY <1>1, <1>2 DEF Agreed, AllRecorded, Grows
  <1>5. RunningMatch' BY <1>1 DEF Agreed, RunningMatch, Handling
  <1>6. EndInv' BY <1>1 DEF Agreed, EndInv
  <1> QED BY <1>2, <1>3, <1>4, <1>5, <1>6 DEF Agreed, Grows

\* A reader that has closed its connection holds no message.
LEMMA DropsKept ==
    ASSUME BaseInv, MineInv, LostInv, ConnectionDrops
    PROVE  BaseInv' /\ MineInv' /\ LostInv'
  <1>1. UNCHANGED <<target, runner, at, hand, listener, plan, reports, result, reason,
                    broken, stale>>
    BY DEF ConnectionDrops
  <1>2. PICK r \in Readers : at[r] = "read" /\ conn' = [conn EXCEPT ![r] = "closed"]
    BY DEF ConnectionDrops
  <1>3. UNCHANGED <<running, suites, err, finished>> BY <1>1 DEF listener, signal
  <1>4. Own(1)' = Own(1) /\ Own(2)' = Own(2) BY <1>1 DEF Own
  <1>5. /\ DOMAIN conn' = Readers
        /\ \A x \in Readers : conn'[x] = conn[x] \/ (conn'[x] = "closed" /\ at[x] = "read")
    BY <1>2 DEF BaseInv
  <1>6. BaseInv'
    <2>1. target > 0 /\ conn'[Own(1)] = "closed" /\ runner # "next" => at[Own(1)] = "read"
      BY <1>5, OwnReaders DEF BaseInv
    <2> QED BY <1>1, <1>3, <1>4, <1>5, <2>1 DEF BaseInv
  <1>7. MineInv' BY <1>1, <1>3, AgreedKept DEF MineInv, Mine
  <1>8. LostInv'
    <2> SUFFICES ASSUME Lost' PROVE Closing' BY DEF LostInv
    <2>1. Lost /\ Closing BY <1>1 DEF Lost, LostInv
    <2>2. conn'[Own(1)] = "closed" BY <1>5, <2>1, OwnReaders DEF Closing, Lost
    <2>3. Grows BY <1>1, <1>3, <2>1, NoGrowth DEF Closing
    <2> QED BY <1>1, <1>3, <1>4, <2>1, <2>2, <2>3 DEF Closing, Grows
  <1> QED BY <1>6, <1>7, <1>8

----------------------------------------------------------------------------
(* The runner.                                                               *)

\* A target is entered with readers that are idle, and with a new plan.
LEMMA EntersTarget ==
    ASSUME IdleInv, BaseInv, NextTarget
    PROVE  BaseInv' /\ ResetInv' /\ MineInv' /\ LostInv'
  <1>1. /\ runner' = "reset once" /\ target < Targets /\ target' = target + 1
        /\ finished' = FALSE /\ reason' = "none" /\ stale' = FALSE /\ plan' = NewPlan
        /\ UNCHANGED <<at, hand, conn>>
    BY DEF NextTarget
  <1>2. /\ target \in 0..Targets /\ DOMAIN hand = Readers /\ DOMAIN conn = Readers
        /\ at \in [Readers -> {"read", "handle", "append", "assign", "finish"}]
        /\ \A r \in Readers : r[1] > target => at[r] = "read"
    BY DEF BaseInv
  <1>3. target' \in 0..Targets /\ target' > target /\ target' > 0
    <2>1. Targets \in Nat BY BoundsAssumption
    <2>2. target < Targets /\ target' = target + 1 BY <1>1
    <2>3. target \in 0..Targets BY <1>2
    <2> QED BY <2>1, <2>2, <2>3
  <1>4. Own(1)' \in Readers
    <2>1. target' \in 1..Targets BY <1>3, BoundsAssumption
    <2> QED BY <2>1 DEF Own, Readers
  <1>5. at[Own(1)'] = "read"
    <2>1. Own(1)'[1] = target' BY DEF Own
    <2> QED BY <1>2, <1>3, <1>4, <2>1
  <1>6. NewPlan \in Plans BY DEF NewPlan, Plans
  <1>7. BaseInv'
    <2>1. \A r \in Readers : r[1] > target' => at[r] = "read"
      <3> SUFFICES ASSUME NEW r \in Readers, r[1] > target' PROVE at[r] = "read" OBVIOUS
      <3>1. r[1] \in 1..Targets BY DEF Readers
      <3>2. Targets \in Nat BY BoundsAssumption
      <3>3. r[1] > target BY <1>2, <1>3, <3>1, <3>2
      <3> QED BY <1>2, <3>3
    <2> QED BY <1>1, <1>2, <1>3, <1>5, <1>6, <2>1 DEF BaseInv, Expecting
  <1>8. ResetInv' BY <1>1 DEF ResetInv
  <1>9. ~Mine' /\ ~Lost' BY <1>1 DEF Mine, Lost, Resetting
  <1> QED BY <1>7, <1>8, <1>9 DEF MineInv, LostInv

\* Each assignment of the reset makes its part of the listener new.
LEMMA ResetGoesOn ==
    ASSUME BaseInv, ResetInv, reset
    PROVE  BaseInv' /\ ResetInv' /\ MineInv' /\ LostInv'
  <1>1. /\ UNCHANGED <<target, conn, at, hand, plan, stale, finished, reason>>
        /\ runner \in Resetting /\ runner' \in Resetting
    BY DEF reset, RunnerMoves, Resetting
  <1>2. Own(1)' = Own(1) BY <1>1 DEF Own
  <1>3. BaseInv'
    <2>1. runner' \in Expecting => err' # "lost"
      BY DEF BaseInv, reset, RunnerMoves, Expecting
    <2>2. runner # "next" /\ runner' \notin {"next", "waiting", "finalize", "append", "fail"}
      BY <1>1 DEF Resetting
    <2> QED BY <1>1, <1>2, <2>1, <2>2 DEF BaseInv
  <1>4. ResetInv'
    <2>1. /\ runner' \in {"reset running", "start"} =>
                suites' = <<>> \/ (runner \in {"reset running", "start"} /\ UNCHANGED suites)
          /\ runner' = "start" => running' = NoSuite
      BY DEF reset, RunnerMoves
    <2> QED BY <1>1, <2>1 DEF ResetInv
  <1>5. ~Mine' BY <1>1 DEF Mine
  <1>6. ~Lost' BY <1>1 DEF Lost, ResetInv
  <1> QED BY <1>3, <1>4, <1>5, <1>6 DEF MineInv, LostInv

\* A target starts with nothing recorded, if no other target's reader has been at
\* the listener since the reset began.
LEMMA StartsFresh ==
    ASSUME IdleInv, BaseInv, ResetInv, RunTestWithConfig
    PROVE  BaseInv' /\ ResetInv' /\ MineInv' /\ LostInv'
  <1>1. /\ UNCHANGED <<target, at, hand, plan, stale, running, suites, err, finished, reason>>
        /\ runner = "start" /\ runner' \in {"next", "waiting"}
        /\ \/ UNCHANGED conn
           \/ conn' = [r \in Readers |-> IF r[1] = target THEN "open" ELSE conn[r]]
    BY DEF RunTestWithConfig, RunnerMoves, listener, signal
  <1>2. Own(1)' = Own(1) /\ Own(2)' = Own(2) BY <1>1 DEF Own
  <1>3. runner \in Resetting /\ runner' \notin Resetting BY <1>1 DEF Resetting
  <1>4. target > 0 /\ Own(1) \in Readers /\ Own(2) \in Readers
    BY <1>3, OwnReaders DEF IdleInv
  <1>5. at[Own(1)] = "read" /\ at[Own(2)] = "read"
    <2>1. Own(1)[1] = target /\ Own(2)[1] = target BY DEF Own
    <2> QED BY <1>3, <1>4, <2>1 DEF IdleInv, Unopened
  <1>6. plan = NewPlan /\ reason = "none" BY <1>3 DEF ResetInv
  <1>7. /\ NewPlan.open = <<>> /\ NewPlan.started = 0 /\ NewPlan.class = NoSuite
        /\ NewPlan.failed = {} /\ ~NewPlan.finished
    BY DEF NewPlan
  <1>8. BaseInv'
    <2>1. DOMAIN conn' = Readers BY <1>1 DEF BaseInv
    <2>2. err # "lost" BY <1>1 DEF BaseInv, Expecting
    <2> QED BY <1>1, <1>2, <1>4, <1>5, <1>6, <2>1, <2>2 DEF BaseInv
  <1>9. ResetInv' BY <1>3 DEF ResetInv
  <1>10. ASSUME ~stale PROVE Agreed'
    <2>0. running = NoSuite /\ suites = <<>> /\ ~finished
      BY <1>1, <1>3, <1>10 DEF ResetInv
    <2>1. ListenerInv' BY <1>1, <2>0 DEF ListenerInv
    <2>2. HandsInv' BY <1>1, <1>2, <1>5 DEF HandsInv
    <2>3. AllRecorded' BY <1>1, <1>6, <1>7 DEF AllRecorded
    <2>4. RunningMatch' BY <1>1, <2>0 DEF RunningMatch
    <2>5. EndInv' BY <1>1, <1>6, <1>7, <2>0 DEF EndInv
    <2> QED BY <2>1, <2>2, <2>3, <2>4, <2>5 DEF Agreed
  <1>11. ~Lost' BY <1>1, <1>6 DEF Lost
  <1>12. MineInv' BY <1>1, <1>10 DEF MineInv, Mine
  <1> QED BY <1>8, <1>9, <1>11, <1>12 DEF LostInv

\* While the listener is being reset only a reader of an earlier target can be at it.
LEMMA ResetKept ==
    ASSUME IdleInv, ResetInv,
           DeviceReports \/ ConnectionDrops \/ \E r \in Readers : Dispatch(r)
    PROVE  ResetInv'
  <1>1. UNCHANGED runner
    BY DEF DeviceReports, ConnectionDrops, Dispatch, ReadersMove, DispatchCase, DispatchSuite,
           AppendRunning, AssignRunning, didFinishExecutingTestPlan,
           didFailToBootstrapWithError, FinishFailed, RecordDecodeError
  <1> SUFFICES ASSUME runner \in Resetting PROVE ResetInv' BY <1>1 DEF ResetInv
  <1>2. CASE DeviceReports
    <2>1. \E c \in {1, 2} : \E e : SaysOn(c, e)
      BY <1>2 DEF DeviceReports, Says, SuiteStarts, SuiteEnds, CaseStarts, CaseStalls,
                  CaseFails, CaseEnds, PlanEnds, BootstrapFails, Garbled
    <2>2. PICK c \in {1, 2} : conn[<<target, c>>] = "open" BY <2>1 DEF SaysOn
    <2>3. <<target, c>> \in Readers BY BoundsAssumption DEF IdleInv, Readers
    <2>4. <<target, c>>[1] = target OBVIOUS
    <2> QED BY <2>2, <2>3, <2>4 DEF IdleInv, Unopened
  <1>3. CASE ConnectionDrops
    BY <1>3 DEF ConnectionDrops, listener, signal, ResetInv
  <1>4. ASSUME NEW r \in Readers, Dispatch(r) PROVE ResetInv'
    <2>1. UNCHANGED <<plan, reason>> /\ stale' = (stale \/ r[1] # target) /\ at[r] # "read"
      BY <1>4 DEF Dispatch, ReadersMove, DispatchCase, DispatchSuite, AppendRunning,
                  AssignRunning, didFinishExecutingTestPlan, didFailToBootstrapWithError,
                  FinishFailed, RecordDecodeError
    <2>2. r[1] # target BY <2>1 DEF IdleInv, Unopened
    <2>3. stale' BY <2>1, <2>2
    <2> QED BY <2>1, <2>3 DEF ResetInv
  <1> QED BY <1>2, <1>3, <1>4

\* The runner stops waiting: a lost connection of the events leaves every case in
\* the finished suites or in the running one.
LEMMA StopsWaiting ==
    ASSUME BaseInv, MineInv,
           (\E c \in {1, 2} : LosesConnection(c)) \/ IsDone \/ IsCancelled
    PROVE  BaseInv' /\ ResetInv' /\ MineInv' /\ LostInv'
  <1>0. ResetInv'
    BY DEF LosesConnection, IsDone, IsCancelled, RunnerMoves, ResetInv, Resetting
  <1>1. /\ UNCHANGED <<target, conn, at, hand, plan, reports, stale, listener, result>>
        /\ runner = "waiting" /\ runner' \in {"finalize", "kill"}
        /\ runner' = "finalize" => reason' \in {"lost events", "lost other"}
        /\ reason' \in {"lost events", "lost other", "done", "cancelled"}
        /\ reason' = "done" => finished
        /\ reason' = "lost events" => conn[Own(1)] = "closed"
    BY DEF LosesConnection, IsDone, IsCancelled, RunnerMoves
  <1>2. UNCHANGED <<running, suites, err, finished>> BY <1>1 DEF listener, signal
  <1>3. Own(1)' = Own(1) /\ Own(2)' = Own(2) BY <1>1 DEF Own
  <1>4. target > 0 /\ reason = "none" /\ err # "lost" BY <1>1 DEF BaseInv, Expecting
  <1>5. BaseInv' BY <1>1, <1>2, <1>3, <1>4 DEF BaseInv, Expecting
  <1>6. ASSUME ~stale PROVE Agreed BY <1>1, <1>4, <1>6 DEF MineInv, Mine, Resetting
  <1>7. MineInv'
    <2> SUFFICES ASSUME Mine' PROVE Agreed' BY DEF MineInv
    <2>1. Agreed /\ reason' = "done" BY <1>1, <1>6 DEF Mine
    <2>2. Grows BY <1>1, <1>2, <2>1, NoGrowth DEF Agreed
    <2>3. HandsInv' BY <1>1, <1>3, <2>1 DEF Agreed, HandsInv, Genuine
    <2>4. AllRecorded' BY <1>1, <1>3, <2>1, <2>2 DEF Agreed, AllRecorded, Grows
    <2>5. RunningMatch' BY <1>1, <1>2, <1>3, <2>1 DEF Agreed, RunningMatch, Handling
    <2>6. EndInv' BY <1>1, <1>2, <1>3, <2>1 DEF Agreed, EndInv
    <2> QED BY <2>2, <2>3, <2>4, <2>5, <2>6 DEF Agreed, Grows
  <1>8. LostInv'
    <2> SUFFICES ASSUME Lost' PROVE Closing' BY DEF LostInv
    <2>1. Agreed /\ conn[Own(1)] = "closed" BY <1>1, <1>6 DEF Lost
    <2>2. at[Own(1)] = "read" BY <1>1, <1>4, <2>1 DEF BaseInv
    <2>3. \A n \in 1..plan.started : InSuites(n) \/ InRunning(n)
      BY <2>1, <2>2 DEF Agreed, AllRecorded
    <2>4. Grows BY <1>1, <1>2, <2>1, NoGrowth DEF Agreed
    <2>5. /\ at[Own(2)] # "read" => hand[Own(2)].kind \in {"bootstrapFailed", "garbled"}
          /\ at[Own(2)] \in {"read", "handle", "finish"}
      <3>1. at[Own(2)] \in {"read", "handle", "append", "assign", "finish"}
        BY <1>4, OwnReaders DEF BaseInv
      <3> QED BY <2>1, <3>1 DEF Agreed, HandsInv
    <2> QED BY <1>1, <1>2, <1>3, <1>4, <2>1, <2>3, <2>4, <2>5 DEF Closing, Grows
  <1> QED BY <1>0, <1>5, <1>7, <1>8

\* FinishWithError puts what still runs into the finished suites first.
LEMMA Finalizes ==
    ASSUME BaseInv, LostInv, FinalizeRunning \/ AppendUnfinished \/ FinishWithError
    PROVE  BaseInv' /\ ResetInv' /\ MineInv' /\ LostInv'
  <1>0. ResetInv'
    BY DEF FinalizeRunning, AppendUnfinished, FinishWithError, RunnerMoves, ResetInv,
           Resetting
  <1>1. /\ UNCHANGED <<target, conn, at, hand, plan, reports, stale, result, reason>>
        /\ runner \in {"finalize", "append", "fail"}
        /\ runner' \in {"fail", "append", "crashed", "kill"}
    BY DEF FinalizeRunning, AppendUnfinished, FinishWithError, RunnerMoves
  <1>2. Own(1)' = Own(1) /\ Own(2)' = Own(2) BY <1>1 DEF Own
  <1>3. target > 0 /\ reason \in {"lost events", "lost other"} /\ err # "lost"
    BY <1>1 DEF BaseInv, Expecting
  <1>4. BaseInv'
    <2>1. runner' \in {"finalize", "append", "fail"} => err' # "lost"
      BY <1>3 DEF FinalizeRunning, AppendUnfinished, FinishWithError, RunnerMoves, listener
    <2> QED BY <1>1, <1>2, <1>3, <2>1 DEF BaseInv, Expecting
  <1>5. MineInv' BY <1>1, <1>3 DEF MineInv, Mine
  <1>6. LostInv'
    <2> SUFFICES ASSUME Lost' PROVE Closing' BY DEF LostInv
    <2>1. Lost /\ Closing BY <1>1 DEF Lost, LostInv
    <2>2. conn[Own(1)] = "closed"
          /\ (at[Own(2)] # "read" => hand[Own(2)].kind \in {"bootstrapFailed", "garbled"})
          /\ at[Own(2)] \in {"read", "handle", "finish"}
      BY <2>1 DEF Closing
    <2>3. CASE FinalizeRunning
      <3>1. UNCHANGED <<running, suites, err>> BY <2>3 DEF FinalizeRunning, listener
      <3>2. Grows BY <1>1, <2>1, <3>1, NoGrowth DEF Closing
      <3>3. \A n \in 1..plan.started : InSuites(n) \/ InRunning(n)
        BY <2>1, <2>3 DEF Closing, FinalizeRunning, RunnerMoves
      <3>4. \/ runner' = "append"
            \/ runner' = "fail" /\ running = NoSuite
        BY <2>3 DEF FinalizeRunning, RunnerMoves
      <3>5. CASE runner' = "append"
        BY <1>1, <1>2, <2>2, <3>2, <3>3, <3>5 DEF Closing, Grows
      <3>6. CASE runner' = "fail" /\ running = NoSuite
        <4>1. \A n \in 1..plan.started : InSuites(n)' BY <3>2, <3>3, <3>6 DEF InRunning, Grows
        <4> QED BY <1>1, <1>2, <2>2, <3>2, <3>6, <4>1 DEF Closing, Grows
      <3> QED BY <3>4, <3>5, <3>6
    <2>4. CASE AppendUnfinished
      <3>1. UNCHANGED <<running, err>> BY <2>4 DEF AppendUnfinished
      <3>2. \A n \in 1..plan.started : InSuites(n) \/ InRunning(n)
        BY <2>1, <2>4 DEF Closing, AppendUnfinished, RunnerMoves
      <3>3. CASE running = NoSuite
        <4>1. UNCHANGED suites /\ runner' = "crashed"
          BY <2>4, <3>3 DEF AppendUnfinished, RunnerMoves
        <4>2. Grows BY <1>1, <2>1, <3>1, <4>1, NoGrowth DEF Closing
        <4> QED BY <1>1, <1>2, <2>2, <4>1, <4>2 DEF Closing, Grows
      <3>4. CASE running # NoSuite
        <4>1. suites' = Append(suites, running) /\ runner' = "fail"
          BY <2>4, <3>4 DEF AppendUnfinished, RunnerMoves
        <4>2. running \in Suites /\ HonestSuite(running)
          BY <2>1, <3>4 DEF Closing, ListenerInv
        <4>3. Grows /\ \A k \in 1..Len(running.cases) :
                          \A n : n = running.cases[k].id => InSuites(n)'
          BY <1>1, <2>1, <3>1, <4>1, <4>2, SuiteGrows DEF Closing
        <4>4. \A n \in 1..plan.started : InSuites(n)'
          <5>1. ASSUME NEW n, InRunning(n) PROVE InSuites(n)' BY <4>3, <5>1 DEF InRunning
          <5> QED BY <3>2, <4>3, <5>1 DEF Grows
        <4> QED BY <1>1, <1>2, <2>2, <4>1, <4>3, <4>4 DEF Closing, Grows
      <3> QED BY <3>3, <3>4
    <2>5. CASE FinishWithError
      <3>1. UNCHANGED suites /\ running' = NoSuite /\ runner' \in {"kill", "crashed"}
        BY <2>5 DEF FinishWithError, RunnerMoves
      <3>2. \A n \in 1..plan.started : InSuites(n)
        BY <2>1, <2>5 DEF Closing, FinishWithError, RunnerMoves
      <3>3. \A n \in 1..plan.started : InSuites(n)' BY <3>1, <3>2 DEF InSuites
      <3>4. ListenerInv' BY <1>1, <2>1, <3>1 DEF Closing, ListenerInv, HonestSuite, Honest
      <3> QED BY <1>1, <1>2, <2>2, <3>1, <3>3, <3>4 DEF Closing
    <2> QED BY <2>3, <2>4, <2>5
  <1> QED BY <1>0, <1>4, <1>5, <1>6

\* The places of a case in a sequence of suites.
ReportedIn(S, n) == UNION {{<<s, k>> : k \in {k \in DOMAIN S[s].cases :
                                                 S[s].cases[k].id = n}} : s \in DOMAIN S}
LEMMA IsPlace ==
    ASSUME NEW S \in Seq(Suites), NEW n, NEW s \in 1..Len(S),
           NEW k \in 1..Len(S[s].cases), S[s].cases[k].id = n
    PROVE  <<s, k>> \in ReportedIn(S, n)
  <1>1. S[s] \in Suites BY ElementOfSeq
  <1>2. S[s].cases \in Seq(Cases) BY <1>1 DEF Suites
  <1>3. DOMAIN S = 1..Len(S) /\ DOMAIN S[s].cases = 1..Len(S[s].cases) BY <1>2
  <1> QED BY <1>3 DEF ReportedIn

LEMMA PlaceIs ==
    ASSUME NEW S \in Seq(Suites), NEW n, NEW p \in ReportedIn(S, n)
    PROVE  \E s \in 1..Len(S) : \E k \in 1..Len(S[s].cases) :
              p = <<s, k>> /\ S[s].cases[k].id = n
  <1>1. PICK s \in DOMAIN S : \E k \in DOMAIN S[s].cases :
           p = <<s, k>> /\ S[s].cases[k].id = n
    BY DEF ReportedIn
  <1>2. s \in 1..Len(S) OBVIOUS
  <1>3. S[s] \in Suites BY <1>2, ElementOfSeq
  <1>4. S[s].cases \in Seq(Cases) BY <1>3 DEF Suites
  <1>5. DOMAIN S[s].cases = 1..Len(S[s].cases) BY <1>4
  <1> QED BY <1>1, <1>2, <1>5

\* What is returned is what the listener has, and by then it has every case.
LEMMA ReturnsAll ==
    ASSUME BaseInv, MineInv, LostInv, ReturnsResults
    PROVE  BaseInv' /\ ResetInv' /\ MineInv' /\ LostInv' /\ NoCaseLost'
  <1>1. /\ UNCHANGED <<target, at, hand, plan, reports, stale, listener, reason, broken>>
        /\ runner = "kill" /\ runner' = "next"
        /\ result' = [reason |-> reason, err |-> err, suites |-> suites, plan |-> plan,
                      broken |-> broken, stale |-> stale]
    BY DEF ReturnsResults, RunnerMoves
  <1>2. UNCHANGED <<running, suites, err, finished>> BY <1>1 DEF listener, signal
  <1>3. Own(1)' = Own(1) /\ Own(2)' = Own(2) BY <1>1 DEF Own
  <1>4. BaseInv'
    <2>1. DOMAIN conn' = Readers BY DEF ReturnsResults
    <2> QED BY <1>1, <1>2, <2>1 DEF BaseInv, Expecting
  <1>0. ResetInv' BY <1>1 DEF ResetInv, Resetting
  <1>5. MineInv' BY <1>1, <1>2, AgreedKept DEF MineInv, Mine, Resetting
  <1>6. LostInv' BY <1>1 DEF LostInv, Lost
  <1>7. ASSUME ~stale,
               \/ reason = "done" /\ plan.finished
               \/ reason = "lost events" /\ err = "lost"
        PROVE  ListenerInv /\ \A n \in 1..plan.started : InSuites(n)
    <2>0. target > 0 BY <1>1 DEF BaseInv
    <2>1. CASE reason = "done" /\ plan.finished
      <3>1. Agreed BY <1>1, <1>7, <2>0, <2>1 DEF MineInv, Mine, Resetting
      <3>2. at[Own(1)] = "read" /\ plan.open = <<>> BY <2>1, <3>1 DEF Agreed, EndInv
      <3>3. running = NoSuite BY <3>1, <3>2 DEF Agreed, RunningMatch, Handling
      <3> QED BY <3>1, <3>2, <3>3 DEF Agreed, AllRecorded, InRunning
    <2>2. CASE reason = "lost events" /\ err = "lost"
      <3>1. Closing BY <1>1, <1>7, <2>0, <2>2 DEF LostInv, Lost
      <3> QED BY <1>1, <2>2, <3>1 DEF Closing
    <2> QED BY <1>7, <2>1, <2>2
  <1>8. NoCaseLost'
    <2>1. /\ result'.reason = reason /\ result'.err = err /\ result'.suites = suites
          /\ result'.plan = plan /\ result'.stale = stale
      BY <1>1
    <2> SUFFICES ASSUME ~stale,
                        \/ reason = "done" /\ plan.finished
                        \/ reason = "lost events" /\ err = "lost",
                        NEW n \in 1..plan.started
                 PROVE  /\ Reported(n)' # {}
                        /\ n \in plan.failed => \A p \in Reported(n)' : VerdictOf(p)' # "passed"
      BY <2>1 DEF NoCaseLost
    <2>2. ListenerInv /\ InSuites(n) BY <1>7
    <2>3. suites \in Seq(Suites) BY <2>2 DEF ListenerInv
    <2>4. Reported(n)' = ReportedIn(suites, n)
      <3>1. Reported(n)' = ReportedIn(result'.suites, n) BY DEF Reported, ReportedIn
      <3> QED BY <2>1, <3>1
    <2>5. Reported(n)' # {}
      <3>1. PICK s \in 1..Len(suites) : \E k \in 1..Len(suites[s].cases) :
               suites[s].cases[k].id = n
        BY <2>2 DEF InSuites
      <3> PICK k \in 1..Len(suites[s].cases) : suites[s].cases[k].id = n BY <3>1
      <3>2. <<s, k>> \in ReportedIn(suites, n) BY <2>3, IsPlace
      <3> QED BY <2>4, <3>2
    <2>6. ASSUME n \in plan.failed, NEW p \in Reported(n)' PROVE VerdictOf(p)' # "passed"
      <3>1. p \in ReportedIn(suites, n) BY <2>4, <2>6
      <3>2. PICK s \in 1..Len(suites) : \E k \in 1..Len(suites[s].cases) :
               p = <<s, k>> /\ suites[s].cases[k].id = n
        BY <2>3, <3>1, PlaceIs
      <3> PICK k \in 1..Len(suites[s].cases) : p = <<s, k>> /\ suites[s].cases[k].id = n
        BY <3>2
      <3>3. VerdictOf(p)' = suites[s].cases[k].status BY <2>1 DEF VerdictOf
      <3>4. Honest(suites[s].cases[k]) BY <2>2 DEF ListenerInv, HonestSuite
      <3> QED BY <2>6, <3>3, <3>4 DEF Honest
    <2> QED BY <2>5, <2>6
  <1> QED BY <1>0, <1>4, <1>5, <1>6, <1>8

\* A result that has been returned stays.
LEMMA ResultKept == ASSUME NoCaseLost, UNCHANGED result PROVE NoCaseLost'
  <1>1. ASSUME NEW n PROVE Reported(n)' = Reported(n) BY DEF Reported
  <1>2. ASSUME NEW p PROVE VerdictOf(p)' = VerdictOf(p) BY DEF VerdictOf
  <1> QED BY <1>1, <1>2 DEF NoCaseLost, Returned

LEMMA CaseInit == ASSUME Init PROVE CaseInv
  <1> USE DEF Init
  <1>1. BaseInv
    <2>1. NewPlan \in Plans BY DEF NewPlan, Plans
    <2>2. target \in 0..Targets BY BoundsAssumption
    <2> QED BY <2>1, <2>2 DEF BaseInv, Expecting
  <1>2. ~Mine /\ ~Lost /\ ResetInv BY DEF Mine, Lost, ResetInv, Resetting
  <1>3. NoCaseLost BY DEF NoCaseLost, Returned, NoResult
  <1> QED BY <1>1, <1>2, <1>3 DEF CaseInv, MineInv, LostInv

\* No step of the device, the readers or the runner breaks the invariant.
LEMMA CaseStep == ASSUME IdleInv, CaseInv, [Next]_vars PROVE CaseInv'
  <1> USE DEF CaseInv
  <1>1. CASE DeviceReports
    <2>1. UNCHANGED result BY <1>1 DEF DeviceReports
    <2> QED BY <1>1, <2>1, DeviceBase, DeviceMine, DeviceLost, ResetKept, ResultKept
  <1>2. CASE ConnectionDrops
    <2>1. UNCHANGED result BY <1>2 DEF ConnectionDrops
    <2> QED BY <1>2, <2>1, DropsKept, ResetKept, ResultKept
  <1>3. ASSUME NEW r \in Readers, Dispatch(r) PROVE CaseInv'
    <2>1. UNCHANGED result BY <1>3, ReaderMoves
    <2> QED BY <1>3, <2>1, DispatchBase, DispatchMine, DispatchLost, ResetKept, ResultKept
  <1>4. CASE RunTestWithConfig
    <2>1. result' = NoResult \/ result' = [reason |-> "setup"] BY <1>4 DEF RunTestWithConfig
    <2>2. result'.reason \in {"none", "setup"} BY <2>1 DEF NoResult
    <2>3. ~Returned' BY <2>2 DEF Returned
    <2>4. NoCaseLost' BY <2>3 DEF NoCaseLost
    <2> QED BY <1>4, <2>4, StartsFresh
  <1>10. CASE NextTarget \/ reset
    <2>1. UNCHANGED result BY <1>10 DEF NextTarget, reset
    <2> QED BY <1>10, <2>1, EntersTarget, ResetGoesOn, ResultKept
  <1>5. CASE (\E c \in {1, 2} : LosesConnection(c)) \/ IsDone \/ IsCancelled
    <2>1. UNCHANGED result BY <1>5 DEF LosesConnection, IsDone, IsCancelled
    <2> QED BY <1>5, <2>1, StopsWaiting, ResultKept
  <1>6. CASE FinalizeRunning \/ AppendUnfinished \/ FinishWithError
    <2>1. UNCHANGED result BY <1>6 DEF FinalizeRunning, AppendUnfinished, FinishWithError
    <2> QED BY <1>6, <2>1, Finalizes, ResultKept
  <1>7. CASE ReturnsResults BY <1>7, ReturnsAll
  <1>8. CASE UNCHANGED vars
    <2>1. UNCHANGED <<target, runner, conn, at, hand, running, suites, err, finished, plan,
                      reports, result, reason, broken, stale>>
      BY <1>8 DEF vars, listener, signal
    <2>2. NoCaseLost' BY <2>1, ResultKept
    <2>3. BaseInv' /\ ResetInv' BY <2>1 DEF BaseInv, Own, ResetInv
    <2>4. MineInv' BY <2>1, AgreedKept DEF MineInv, Mine
    <2>5. LostInv'
      <3> SUFFICES ASSUME Lost' PROVE Closing' BY DEF LostInv
      <3>1. Closing BY <2>1 DEF LostInv, Lost
      <3>2. Grows BY <2>1, <3>1, NoGrowth DEF Closing
      <3> QED BY <2>1, <3>1, <3>2 DEF Closing, Grows, Own
    <2> QED BY <2>2, <2>3, <2>4, <2>5
  <1>9. CASE Over BY <1>8, <1>9 DEF Over
  <1> QED BY <1>1, <1>2, <1>3, <1>4, <1>5, <1>6, <1>7, <1>8, <1>9, <1>10 DEF Next, Runner

\* The results of a target whose plan has run to its end, or whose events were lost
\* on iOS 17, hold every test case the device has started, and none that failed as
\* passed.
THEOREM NoCaseIsLost == Spec => []NoCaseLost
  <1>1. Init => CaseInv BY CaseInit
  <1>2. IdleInv /\ CaseInv /\ [Next]_vars => CaseInv' BY CaseStep
  <1>3. CaseInv => NoCaseLost BY DEF CaseInv
  <1> QED BY <1>1, <1>2, <1>3, IdleHolds, PTL DEF Spec
=============================================================================
